------------------------- MODULE CommandRuns_proofs -------------------------
(***************************************************************************)
(* Command lines of any length, translated for cl.exe and reduced for the  *)
(* preprocessor; with Commands_proofs, the theorems that every command a   *)
(* worker runs asks for the user's settings, and that the preprocessor     *)
(* sees what a local compilation would see.                                *)
(***************************************************************************)
EXTENDS Commands_proofs

-----------------------------------------------------------------------------
(***************************************************************************)
(* The table of MSVC flags, and the translation of an item.                *)
(***************************************************************************)

OptFlags == {"/Od", "/O1", "/O2", "/Ox"}
EhFlags == {"/EHsc", "/EHs-c-"}
OtherFlags == {"/Zi", "/W4", "/WX", "/W0", "/std:c11", "/std:c17", "/std:c++14", "/std:c++17",
               "/std:c++20", "/std:c++latest", "/GR", "/GR-", "/Ob0", "/Ob2", "/GS", "/GS-",
               "/EP", "/P", "/fp:fast", "/nologo", "/permissive-"}

LEMMA JoinOnes == ASSUME NEW x, NEW y PROVE <<x>> \o <<y>> = <<x, y>>
<1> DEFINE S == {x, y}
<1>1. x \in S /\ y \in S
  OBVIOUS
<1> HIDE DEF S
<1>2. <<x>> \in Seq(S)
  BY <1>1
<1>3. <<x>> \o <<y>> = Append(<<x>>, y)
  BY <1>1, <1>2, ConcatOne
<1>4. Append(<<x>>, y) = <<x, y>>
  <2>1. <<x, y>> \in Seq(S) /\ Append(<<x>>, y) \in Seq(S)
    BY <1>1, <1>2
  <2>2. Len(Append(<<x>>, y)) = Len(<<x, y>>)
    BY <1>1, <1>2
  <2>3. \A i \in 1..2 : Append(<<x>>, y)[i] = <<x, y>>[i]
    BY <1>1, <1>2
  <2>4. QED
    BY <2>1, <2>2, <2>3, SeqEqual
<1>5. QED
  BY <1>3, <1>4

IsEh(a) == a[1] \in {"-f", "-fno-"} /\ a[2] = "exceptions"

(* What the table makes of an argument: an optimization level, an exception model, *)
(* /c, or nothing that matters here.                                               *)
LEMMA TableOpt ==
  ASSUME NEW a, a[1] = "-O", a[2] \in {"0", "1", "2", "3", "s", "fast"}
  PROVE  \/ \E m \in OptFlags : GCCToMSVCFlags(a) = <<Flag(m)>>
         \/ GCCToMSVCFlags(a) = <<Flag("/Ox"), Flag("/fp:fast")>>
<1>1. CASE a[2] = "fast"
  <2>1. GCCToMSVCFlags(a) = <<Flag("/Ox")>> \o <<Flag("/fp:fast")>>
    BY <1>1, Zenon DEF GCCToMSVCFlags
  <2>2. QED
    BY <2>1, JoinOnes, Zenon
<1>2. CASE a[2] # "fast"
  <2>1. GCCToMSVCFlags(a) \in {<<Flag("/Od")>>, <<Flag("/O1")>>, <<Flag("/O2")>>, <<Flag("/Ox")>>}
    BY <1>2, Zenon DEF GCCToMSVCFlags
  <2>2. QED
    BY <2>1, Zenon DEF OptFlags
<1>3. QED
  BY <1>1, <1>2

LEMMA TableEh ==
  ASSUME NEW a, IsEh(a)
  PROVE  GCCToMSVCFlags(a) = IF a[1] = "-f" THEN <<Flag("/EHsc")>> ELSE <<Flag("/EHs-c-")>>
BY Zenon DEF GCCToMSVCFlags, IsEh

LEMMA TableCompile == ASSUME NEW a, a[1] = "-c" PROVE GCCToMSVCFlags(a) = <<Flag("/c")>>
BY Zenon DEF GCCToMSVCFlags

Inert(x) == x = <<>> \/ \E m \in OtherFlags : x = <<Flag(m)>>

LEMMA TableOther ==
  ASSUME NEW a, a[1] \notin {"-O", "-c"}, ~IsEh(a)
  PROVE  Inert(GCCToMSVCFlags(a))
<1>1. CASE a[1] = "-g"
  <2>1. GCCToMSVCFlags(a) \in {<<>>, <<Flag("/Zi")>>}
    BY <1>1, Zenon DEF GCCToMSVCFlags
  <2>2. QED
    BY <2>1, Zenon DEF Inert, OtherFlags
<1>2. CASE a[1] = "-W"
  <2>1. GCCToMSVCFlags(a) \in {<<>>, <<Flag("/W4")>>, <<Flag("/WX")>>}
    BY <1>2, Zenon DEF GCCToMSVCFlags
  <2>2. QED
    BY <2>1, Zenon DEF Inert, OtherFlags
<1>3. CASE a[1] = "-w"
  <2>1. GCCToMSVCFlags(a) = <<Flag("/W0")>>
    BY <1>3, Zenon DEF GCCToMSVCFlags
  <2>2. QED
    BY <2>1, Zenon DEF Inert, OtherFlags
<1>4. CASE a[1] = "-std="
  <2>1. GCCToMSVCFlags(a) \in {<<>>, <<Flag("/std:c11")>>, <<Flag("/std:c17")>>, <<Flag("/std:c++14")>>,
                               <<Flag("/std:c++17")>>, <<Flag("/std:c++20")>>, <<Flag("/std:c++latest")>>}
    BY <1>4, Zenon DEF GCCToMSVCFlags
  <2>2. QED
    BY <2>1, Zenon DEF Inert, OtherFlags
<1>5. CASE a[1] = "-f"
  <2>1. a[2] # "exceptions"
    BY <1>5, Zenon DEF IsEh
  <2>2. GCCToMSVCFlags(a) \in {<<>>, <<Flag("/GR")>>, <<Flag("/Ob2")>>, <<Flag("/GS")>>}
    BY <1>5, <2>1, Zenon DEF GCCToMSVCFlags
  <2>3. QED
    BY <2>2, Zenon DEF Inert, OtherFlags
<1>6. CASE a[1] = "-fno-"
  <2>1. a[2] # "exceptions"
    BY <1>6, Zenon DEF IsEh
  <2>2. GCCToMSVCFlags(a) \in {<<>>, <<Flag("/GR-")>>, <<Flag("/Ob0")>>, <<Flag("/GS-")>>}
    BY <1>6, <2>1, Zenon DEF GCCToMSVCFlags
  <2>3. QED
    BY <2>2, Zenon DEF Inert, OtherFlags
<1>7. CASE a[1] = "-E"
  <2>1. GCCToMSVCFlags(a) = <<Flag("/EP")>>
    BY <1>7, Zenon DEF GCCToMSVCFlags
  <2>2. QED
    BY <2>1, Zenon DEF Inert, OtherFlags
<1>8. CASE a[1] = "-P"
  <2>1. GCCToMSVCFlags(a) = <<Flag("/P")>>
    BY <1>8, Zenon DEF GCCToMSVCFlags
  <2>2. QED
    BY <2>1, Zenon DEF Inert, OtherFlags
<1>9. CASE a[1] \notin {"-g", "-W", "-w", "-std=", "-f", "-fno-", "-E", "-P"}
  <2>1. GCCToMSVCFlags(a) = <<>>
    BY <1>9, Zenon DEF GCCToMSVCFlags
  <2>2. QED
    BY <2>1, Zenon DEF Inert
<1>10. QED
  BY <1>1, <1>2, <1>3, <1>4, <1>5, <1>6, <1>7, <1>8, <1>9, Zenon

-----------------------------------------------------------------------------
Translating == INSTANCE FoldFacts WITH Op <- TranslateStep

LEMMA TranslateRuns == ASSUME NEW b, NEW s PROVE FoldLeft(TranslateStep, b, s) = Translating!Run(b, s)
BY Zenon DEF Translating!Run, Translating!Table, Translating!IsTable, Translating!Top,
             FoldLeft, MapThenFoldSet, Max

TranslateState(out) == [pending |-> <<>>, out |-> out]

(* The translation of a kept item. *)
Translation(i) ==
  IF Name(i) = "-U" THEN <<<<"/U", Val(i)>>>>
  ELSE IF Name(i) \in Unknown /\ Len(i) = 2 THEN <<Word(Val(i))>>
  ELSE GCCToMSVCFlags(i[1])

LEMMA AddTranslated ==
  ASSUME NEW s, s = [pending |-> s.pending, out |-> s.out], NEW x
  PROVE  [s EXCEPT !.out = x] = [pending |-> s.pending, out |-> x]
OBVIOUS

LEMMA AwaitValue ==
  ASSUME NEW s, s = [pending |-> s.pending, out |-> s.out], NEW x
  PROVE  [s EXCEPT !.pending = x] = [pending |-> x, out |-> s.out]
OBVIOUS

LEMMA TranslateFields ==
  ASSUME NEW out, NEW s, s = TranslateState(out)
  PROVE  s.pending = <<>> /\ s.out = out /\ s = [pending |-> s.pending, out |-> s.out]
BY DEF TranslateState

(* One argument that does not await its value. *)
LEMMA TranslatesOne ==
  ASSUME NEW out, NEW a, a[1] \notin {"-o", "-I", "-D", "-x"}, a[1] = "-U" => a[2] # ""
  PROVE  TranslateStep(TranslateState(out), a)
           = TranslateState(out \o (IF IsWord(a) THEN <<a>>
                                    ELSE IF a[1] = "-U" THEN <<<<"/U", a[2]>>>>
                                    ELSE GCCToMSVCFlags(a)))
<1> DEFINE s == TranslateState(out)
           x == IF IsWord(a) THEN <<a>>
                ELSE IF a[1] = "-U" THEN <<<<"/U", a[2]>>>> ELSE GCCToMSVCFlags(a)
<1>1. s.pending = <<>> /\ s.out = out /\ s = [pending |-> s.pending, out |-> s.out]
  BY TranslateFields
<1> HIDE DEF s
<1>2. a[1] = "-U" => MSVCValue(a[1], a[2]) = <<<<"/U", a[2]>>>>
  BY Zenon DEF MSVCValue
<1>3. ~(a[1] \in {"-o", "-I", "-D", "-U", "-x"} /\ a[2] = "")
  BY Zenon
<1>4. (IF IsWord(a) THEN <<a>>
       ELSE IF a[1] \in {"-o", "-I", "-D", "-U"} THEN MSVCValue(a[1], a[2])
       ELSE GCCToMSVCFlags(a)) = x
  BY <1>2, Zenon
<1>5. TranslateStep(s, a) = [s EXCEPT !.out = s.out \o x]
  <2> HIDE DEF x
  <2> QED BY <1>1, <1>3, <1>4, Zenon DEF TranslateStep
<1> HIDE DEF x
<1>6. [s EXCEPT !.out = s.out \o x] = [pending |-> s.pending, out |-> s.out \o x]
  BY <1>1, AddTranslated, Zenon
<1>7. TranslateStep(s, a) = TranslateState(out \o x)
  BY <1>1, <1>5, <1>6, Zenon DEF TranslateState
<1>8. QED
  BY <1>7 DEF s, x

(* -U with its value. *)
LEMMA TranslatesUndef ==
  ASSUME NEW out, NEW v
  PROVE  TranslateStep(TranslateStep(TranslateState(out), Flag("-U")), Word(v))
           = TranslateState(out \o <<<<"/U", v>>>>)
<1> DEFINE s == TranslateState(out)
           a == Flag("-U")
           w == Word(v)
           g == <<"-U">>
           r == [s EXCEPT !.pending = g]
<1>1. s.pending = <<>> /\ s.out = out /\ s = [pending |-> s.pending, out |-> s.out]
  BY TranslateFields
<1>2. a[1] = "-U" /\ a[2] = "" /\ w[2] = v
  BY FlagIs, WordIs
<1>3. g # <<>> /\ g[1] = "-U"
  OBVIOUS
<1> HIDE DEF s, a, w
<1>4. TranslateStep(s, a) = [s EXCEPT !.pending = <<a[1]>>]
  BY <1>1, <1>2, Zenon DEF TranslateStep
<1>5. TranslateStep(s, a) = r
  BY <1>2, <1>4, Zenon
<1>6. r.pending = g /\ r.out = out
  <2> HIDE DEF g
  <2>1. r = [pending |-> g, out |-> s.out]
    BY <1>1, AwaitValue, Zenon
  <2>2. QED
    BY <1>1, <2>1
<1> HIDE DEF r, g
<1>7. TranslateStep(r, w) = [pending |-> <<>>, out |-> r.out \o MSVCValue(r.pending[1], w[2])]
  BY <1>3, <1>6, Zenon DEF TranslateStep
<1>8. MSVCValue("-U", v) = <<<<"/U", v>>>>
  BY Zenon DEF MSVCValue
<1>9. TranslateStep(r, w) = TranslateState(out \o <<<<"/U", v>>>>)
  BY <1>2, <1>3, <1>6, <1>7, <1>8, Zenon DEF TranslateState
<1>10. QED
  BY <1>5, <1>9, Zenon DEF s, a, w

(* The shapes of a translation. *)
LEMMA TranslationIs ==
  ASSUME NEW i \in KeptItems
  PROVE  \/ /\ Name(i) = "-U"
            /\ Translation(i) = <<<<"/U", Val(i)>>>> /\ Val(i) \in Text
         \/ /\ Name(i) \in Unknown /\ Name(i) # "-U" /\ Word(Val(i)) \in Arg
            /\ ~isInputFile(Word(Val(i))) /\ Translation(i) = <<Word(Val(i))>> /\ Len(i) = 2
         \/ /\ Name(i) \notin Unknown \/ Len(i) = 1
            /\ Name(i) # "-U" /\ i = <<i[1]>> /\ Plain(i[1]) /\ i[1] \in Arg /\ i[1][1] = Name(i)
            /\ Translation(i) = GCCToMSVCFlags(i[1])
<1>1. KeptItem(i)
  BY DEF KeptItems
<1>2. ASSUME NEW a \in Arg, i = <<a>>, Plain(a)
      PROVE  \/ Name(i) = "-U" /\ Translation(i) = <<<<"/U", Val(i)>>>> /\ Val(i) \in Text
             \/ /\ Len(i) = 1 /\ Name(i) # "-U" /\ i = <<i[1]>> /\ Plain(i[1]) /\ i[1] \in Arg /\ i[1][1] = Name(i)
                /\ Translation(i) = GCCToMSVCFlags(i[1])
  <2>1. Name(i) = a[1] /\ Val(i) = a[2] /\ i[1] = a
    BY <1>2, OneIs, Zenon
  <2>2. Len(i) = 1
    BY <1>2
  <2>3. a[2] \in Text
    BY ArgIs, Zenon
  <2>4. CASE a[1] = "-U"
    BY <2>1, <2>3, <2>4, Zenon DEF Translation
  <2>5. CASE a[1] # "-U"
    <3>1. ~(Len(i) = 2)
      BY <2>2
    <3>2. Translation(i) = GCCToMSVCFlags(i[1])
      BY <2>1, <2>5, <3>1, Zenon DEF Translation
    <3>3. QED
      BY <1>2, <2>1, <2>2, <2>5, <3>2, Zenon
  <2>6. QED
    BY <2>4, <2>5
<1>3. ASSUME NEW f \in Text, NEW v \in Text, f \in Unknown, i = <<Flag(f), Word(v)>>,
             ~isInputFile(Word(v)), Word(v) \in Arg
      PROVE  \/ Name(i) = "-U" /\ Translation(i) = <<<<"/U", Val(i)>>>> /\ Val(i) \in Text
             \/ /\ Name(i) \in Unknown /\ Name(i) # "-U" /\ Word(Val(i)) \in Arg
                /\ ~isInputFile(Word(Val(i))) /\ Translation(i) = <<Word(Val(i))>> /\ Len(i) = 2
  <2>1. Name(i) = f /\ Val(i) = v
    BY <1>3, PairIs
  <2>2. Len(i) = 2
    BY <1>3
  <2>3. CASE f = "-U"
    BY <1>3, <2>1, <2>3, Zenon DEF Translation
  <2>4. CASE f # "-U"
    BY <1>3, <2>1, <2>2, <2>4, Zenon DEF Translation
  <2>5. QED
    BY <2>3, <2>4
<1>4. QED
  BY <1>1, <1>2, <1>3, Zenon DEF KeptItem

LEMMA TranslatesItem ==
  ASSUME NEW out \in Seq(Arg), NEW i \in KeptItems
  PROVE  Translating!Run(TranslateState(out), i) = TranslateState(out \o Translation(i))
<1>1. KeptItem(i)
  BY DEF KeptItems
<1>2. ASSUME NEW a \in Arg, i = <<a>>, Plain(a)
      PROVE  Translating!Run(TranslateState(out), i) = TranslateState(out \o Translation(i))
  <2>1. Name(i) = a[1] /\ Val(i) = a[2] /\ i[1] = a
    BY <1>2, OneIs, Zenon
  <2>2. ~(Len(i) = 2)
    BY <1>2
  <2>3. a[1] \notin {"-o", "-I", "-D", "-x"} /\ ~IsWord(a) /\ (a[1] = "-U" => a[2] # "")
    BY <1>2, Zenon DEF Plain, IsLoneFlag, SeparateFlags, GccValueFlags, Taken
  <2>4. Translating!Run(TranslateState(out), i) = TranslateStep(TranslateState(out), a)
    BY <1>2, Translating!RunOne
  <2>5. (IF IsWord(a) THEN <<a>> ELSE IF a[1] = "-U" THEN <<<<"/U", a[2]>>>> ELSE GCCToMSVCFlags(a))
          = Translation(i)
    BY <2>1, <2>2, <2>3, Zenon DEF Translation
  <2>6. QED
    BY <2>3, <2>4, <2>5, TranslatesOne, Zenon
<1>3. ASSUME NEW f \in Text, NEW v \in Text, f \in Unknown, i = <<Flag(f), Word(v)>>
      PROVE  Translating!Run(TranslateState(out), i) = TranslateState(out \o Translation(i))
  <2> DEFINE x == Flag(f)
             y == Word(v)
  <2>1. Name(i) = f /\ Val(i) = v
    BY <1>3, PairIs
  <2>2. Len(i) = 2
    BY <1>3
  <2>3. Translating!Run(TranslateState(out), i) = TranslateStep(TranslateStep(TranslateState(out), x), y)
    <3> HIDE DEF x, y
    <3> QED BY <1>3, Translating!RunTwo DEF x, y
  <2>4. CASE f = "-U"
    <3>1. Translation(i) = <<<<"/U", v>>>>
      BY <2>1, <2>4, Zenon DEF Translation
    <3>2. QED
      BY <2>3, <2>4, <3>1, TranslatesUndef, Zenon
  <2>5. CASE f # "-U"
    <3>1. Translation(i) = <<y>>
      BY <1>3, <2>1, <2>2, <2>5, Zenon DEF Translation
    <3>2. x[1] = f /\ y[1] = "" /\ IsWord(y)
      BY FlagIs, WordIs, Zenon
    <3>3. f \notin {"", "-o", "-I", "-D", "-x", "-O", "-c", "-g", "-W", "-w", "-std=", "-f", "-fno-", "-E", "-P"}
      BY <1>3, Zenon DEF Unknown
    <3> HIDE DEF x, y
    <3>4. GCCToMSVCFlags(x) = <<>>
      BY <3>2, <3>3, Zenon DEF GCCToMSVCFlags
    <3>5. ~IsWord(x)
      BY <3>2, <3>3, Zenon DEF IsWord
    <3>6. TranslateStep(TranslateState(out), x)
            = TranslateState(out \o (IF IsWord(x) THEN <<x>>
                                    ELSE IF x[1] = "-U" THEN <<<<"/U", x[2]>>>>
                                    ELSE GCCToMSVCFlags(x)))
      BY <2>5, <3>2, <3>3, TranslatesOne, Zenon
    <3>7. out \o <<>> = out
      OBVIOUS
    <3>8. TranslateStep(TranslateState(out), x) = TranslateState(out)
      BY <2>5, <3>2, <3>4, <3>5, <3>6, <3>7, Zenon
    <3>9. TranslateStep(TranslateState(out), y)
            = TranslateState(out \o (IF IsWord(y) THEN <<y>>
                                    ELSE IF y[1] = "-U" THEN <<<<"/U", y[2]>>>>
                                    ELSE GCCToMSVCFlags(y)))
      BY <3>2, TranslatesOne, Zenon
    <3>10. TranslateStep(TranslateState(out), y) = TranslateState(out \o <<y>>)
      BY <3>2, <3>9, Zenon
    <3>11. QED
      BY <2>3, <3>1, <3>8, <3>10, Zenon
  <2>6. QED
    BY <2>4, <2>5
<1>4. QED
  BY <1>1, <1>2, <1>3, Zenon DEF KeptItem

-----------------------------------------------------------------------------
(* What the MSVC executor drops, and what is left of a translation. *)
MsvcDrop == Drop({Flag("/c")}, {"/Fo", "/Fe"}, {}, InputExts)
ClPart(i) == IF Name(i) = "-c" THEN <<>> ELSE Translation(i)

(* An argument that it passes on. *)
Passed(a) == a # Flag("/c") /\ a[1] \notin {"/Fo", "/Fe"} /\ Ext(a) \notin InputExts

LEMMA PassesOn ==
  ASSUME NEW out \in Seq(Arg), NEW a \in Arg, Passed(a)
  PROVE  Dropping!Run(DropState(MsvcDrop, out), <<a>>) = DropState(MsvcDrop, out \o <<a>>)
<1> DEFINE D == MsvcDrop
<1>1. D.bare = {Flag("/c")} /\ D.prefixed = {"/Fo", "/Fe"} /\ D.valued = {} /\ D.exts = InputExts
  BY DEF MsvcDrop, Drop
<1> HIDE DEF D
<1>2. a[1] \notin D.valued /\ a \notin D.bare /\ a[1] \notin D.prefixed /\ Ext(a) \notin D.exts
  BY <1>1, Zenon DEF Passed
<1>3. Dropping!Run(DropState(D, out), <<a>>) = DropStep(DropState(D, out), a)
  BY Dropping!RunOne
<1>4. DropStep(DropState(D, out), a) = DropState(D, Append(out, a))
  BY <1>2, DropKeeps, Zenon
<1>5. out \o <<a>> = Append(out, a)
  BY ConcatOne
<1>6. Dropping!Run(DropState(D, out), <<a>>) = DropState(D, out \o <<a>>)
  BY <1>3, <1>4, <1>5, Zenon
<1>7. QED
  BY <1>6 DEF D

LEMMA FlagsArePassed ==
  ASSUME NEW m, m \in OptFlags \cup EhFlags \cup OtherFlags
  PROVE  Passed(Flag(m)) /\ Flag(m) \in Arg
<1>1. m # "/c" /\ m # "" /\ m \notin {"/Fo", "/Fe"}
  BY Zenon DEF OptFlags, EhFlags, OtherFlags
<1>2. Flag(m)[1] = m /\ Flag("/c")[1] = "/c"
  BY FlagIs
<1>3. Ext(Flag(m)) = ""
  BY <1>1, <1>2, FlagExt, Zenon
<1>4. "" \notin InputExts
  BY Zenon DEF InputExts
<1>5. Literals \subseteq Text
  BY DEF Text
<1>6. OptFlags \cup EhFlags \cup OtherFlags \subseteq Literals /\ "" \in Literals
  BY ZenonT(60) DEF OptFlags, EhFlags, OtherFlags, Literals
<1>7. m \in Text /\ "" \in Text
  <2> HIDE DEF Text, Literals, OptFlags, EhFlags, OtherFlags
  <2> QED BY <1>5, <1>6
<1>8. Flag(m) \in Arg
  <2> HIDE DEF Text
  <2> QED BY <1>7 DEF Flag, Arg
<1>9. QED
  BY <1>1, <1>2, <1>3, <1>4, <1>8, Zenon DEF Passed

-----------------------------------------------------------------------------
(***************************************************************************)
(* What cl.exe makes of its arguments.                                     *)
(***************************************************************************)

Cling == INSTANCE FoldFacts WITH Op <- ClStep

LEMMA ClRuns == ASSUME NEW b, NEW s PROVE FoldLeft(ClStep, b, s) = Cling!Run(b, s)
BY Zenon DEF Cling!Run, Cling!Table, Cling!IsTable, Cling!Top,
             FoldLeft, MapThenFoldSet, Max

(* cl.exe's state. *)
C(inp, outs, opt, eh) == [inputs |-> inp, outputs |-> outs, opt |-> opt, eh |-> eh]
IsC(c) == c = C(c.inputs, c.outputs, c.opt, c.eh)
GoodC(c) == IsC(c) /\ c.inputs \in Seq(Arg)

LEMMA CFields ==
  ASSUME NEW inp, NEW outs, NEW opt, NEW eh, NEW c, c = C(inp, outs, opt, eh)
  PROVE  c.inputs = inp /\ c.outputs = outs /\ c.opt = opt /\ c.eh = eh /\ IsC(c)
BY DEF C, IsC

LEMMA SetClInputs ==
  ASSUME NEW c, IsC(c), NEW x PROVE [c EXCEPT !.inputs = x] = C(x, c.outputs, c.opt, c.eh)
BY DEF C, IsC
LEMMA SetClOutputs ==
  ASSUME NEW c, IsC(c), NEW x PROVE [c EXCEPT !.outputs = x] = C(c.inputs, x, c.opt, c.eh)
BY DEF C, IsC
LEMMA SetClOpt ==
  ASSUME NEW c, IsC(c), NEW x PROVE [c EXCEPT !.opt = x] = C(c.inputs, c.outputs, x, c.eh)
BY DEF C, IsC
LEMMA SetClEh ==
  ASSUME NEW c, IsC(c), NEW x PROVE [c EXCEPT !.eh = x] = C(c.inputs, c.outputs, c.opt, x)
BY DEF C, IsC

(* A later choice, if there is one, takes the place of an earlier one. *)
Override(x, y) == IF x = "" THEN y ELSE x

LEMMA Overrides ==
  /\ \A y : Override("", y) = y
  /\ \A x, y : x # "" => Override(x, y) = x
  /\ \A x, y, z : Override(x, Override(y, z)) = Override(Override(x, y), z)
BY Zenon DEF Override

ClAfter(r, c, opt, eh) ==
  /\ GoodC(r) /\ r.outputs = c.outputs
  /\ r.opt = Override(opt, c.opt) /\ r.eh = Override(eh, c.eh)

(* To cl.exe the arguments x choose opt and eh, and no output. *)
ClDoes(x, opt, eh) ==
  x \in Seq(Arg) /\ \A c : GoodC(c) => ClAfter(Cling!Run(c, x), c, opt, eh)

LEMMA ClNothing == ClDoes(<<>>, "", "")
<1>1. <<>> \in Seq(Arg)
  OBVIOUS
<1>2. \A c : Cling!Run(c, <<>>) = c
  BY Cling!RunEmpty
<1>3. QED
  BY <1>1, <1>2, Overrides, Zenon DEF ClDoes, ClAfter

LEMMA ClBoth ==
  ASSUME NEW x, NEW y, NEW o, NEW e, NEW p, NEW f, ClDoes(x, o, e), ClDoes(y, p, f)
  PROVE  ClDoes(x \o y, Override(p, o), Override(f, e))
<1>1. x \in Seq(Arg) /\ y \in Seq(Arg)
  BY DEF ClDoes
<1>2. x \o y \in Seq(Arg)
  BY <1>1
<1>3. ASSUME NEW c, GoodC(c) PROVE ClAfter(Cling!Run(c, x \o y), c, Override(p, o), Override(f, e))
  <2> DEFINE r == Cling!Run(c, x)
             s == Cling!Run(r, y)
  <2>1. Cling!Run(c, x \o y) = s
    BY <1>1, Cling!RunConcat
  <2>2. ClAfter(r, c, o, e)
    BY <1>3, Zenon DEF ClDoes
  <2> HIDE DEF r
  <2>3. ClAfter(s, r, p, f)
    BY <2>2, Zenon DEF ClDoes, ClAfter
  <2> HIDE DEF s
  <2>4. GoodC(s) /\ s.outputs = c.outputs
    BY <2>2, <2>3, Zenon DEF ClAfter
  <2>5. s.opt = Override(p, Override(o, c.opt)) /\ s.eh = Override(f, Override(e, c.eh))
    BY <2>2, <2>3, Zenon DEF ClAfter
  <2>6. s.opt = Override(Override(p, o), c.opt) /\ s.eh = Override(Override(f, e), c.eh)
    <3>1. /\ Override(p, Override(o, c.opt)) = Override(Override(p, o), c.opt)
          /\ Override(f, Override(e, c.eh)) = Override(Override(f, e), c.eh)
      BY Zenon DEF Override
    <3>2. QED
      BY <2>5, <3>1, Zenon
  <2>7. QED
    BY <2>1, <2>4, <2>6, Zenon DEF ClAfter
<1>4. QED
  BY <1>2, <1>3 DEF ClDoes

LEMMA ClOne ==
  ASSUME NEW a \in Arg, NEW o, NEW e, \A c : GoodC(c) => ClAfter(ClStep(c, a), c, o, e)
  PROVE  ClDoes(<<a>>, o, e)
<1>1. <<a>> \in Seq(Arg)
  OBVIOUS
<1>2. \A c : Cling!Run(c, <<a>>) = ClStep(c, a)
  BY Cling!RunOne
<1>3. QED
  BY <1>1, <1>2, Zenon DEF ClDoes

LEMMA ClOpt == ASSUME NEW m \in OptFlags PROVE ClDoes(<<Flag(m)>>, m, "")
<1> DEFINE a == Flag(m)
<1>1. a[1] = m /\ a \in Arg
  BY FlagIs, FlagsArePassed
<1>2. m \notin {"", "/Fo", "/Fe"} /\ m \in {"/Od", "/O1", "/O2", "/Ox"}
  BY Zenon DEF OptFlags
<1> HIDE DEF a
<1>3. ASSUME NEW c, GoodC(c) PROVE ClAfter(ClStep(c, a), c, m, "")
  <2> DEFINE r == ClStep(c, a)
  <2>1. r = [c EXCEPT !.opt = m]
    BY <1>1, <1>2, Zenon DEF ClStep, IsWord
  <2>2. r = C(c.inputs, c.outputs, m, c.eh)
    BY <1>3, <2>1, SetClOpt, Zenon DEF GoodC
  <2> HIDE DEF r
  <2>3. r.inputs = c.inputs /\ r.outputs = c.outputs /\ r.opt = m /\ r.eh = c.eh /\ IsC(r)
    BY <2>2, CFields
  <2>4. ClAfter(r, c, m, "")
    BY <1>2, <1>3, <2>3, Overrides, Zenon DEF ClAfter, GoodC
  <2>5. QED
    BY <2>4 DEF r
<1>4. ClDoes(<<a>>, m, "")
  BY <1>1, <1>3, ClOne, Zenon
<1>5. QED
  BY <1>4 DEF a

LEMMA ClEh == ASSUME NEW m \in EhFlags PROVE ClDoes(<<Flag(m)>>, "", m)
<1> DEFINE a == Flag(m)
<1>1. a[1] = m /\ a \in Arg
  BY FlagIs, FlagsArePassed
<1>2. m \notin {"", "/Fo", "/Fe", "/Od", "/O1", "/O2", "/Ox"} /\ m \in {"/EHsc", "/EHs-c-"}
  BY Zenon DEF EhFlags
<1> HIDE DEF a
<1>3. ASSUME NEW c, GoodC(c) PROVE ClAfter(ClStep(c, a), c, "", m)
  <2> DEFINE r == ClStep(c, a)
  <2>1. r = [c EXCEPT !.eh = m]
    BY <1>1, <1>2, Zenon DEF ClStep, IsWord
  <2>2. r = C(c.inputs, c.outputs, c.opt, m)
    BY <1>3, <2>1, SetClEh, Zenon DEF GoodC
  <2> HIDE DEF r
  <2>3. r.inputs = c.inputs /\ r.outputs = c.outputs /\ r.opt = c.opt /\ r.eh = m /\ IsC(r)
    BY <2>2, CFields
  <2>4. ClAfter(r, c, "", m)
    BY <1>2, <1>3, <2>3, Overrides, Zenon DEF ClAfter, GoodC
  <2>5. QED
    BY <2>4 DEF r
<1>4. ClDoes(<<a>>, "", m)
  BY <1>1, <1>3, ClOne, Zenon
<1>5. QED
  BY <1>4 DEF a

LEMMA ClOther ==
  ASSUME NEW a \in Arg, a[1] \in OtherFlags \cup {"/U", "/I", "/c"} PROVE ClDoes(<<a>>, "", "")
<1>1. a[1] \notin {"", "/Fo", "/Fe", "/Od", "/O1", "/O2", "/Ox", "/EHsc", "/EHs-c-"}
  BY Zenon DEF OtherFlags
<1>2. ASSUME NEW c, GoodC(c) PROVE ClAfter(ClStep(c, a), c, "", "")
  <2>1. ClStep(c, a) = c
    BY <1>1, Zenon DEF ClStep, IsWord
  <2>2. QED
    BY <1>2, <2>1, Overrides, Zenon DEF ClAfter
<1>3. QED
  BY <1>2, ClOne, Zenon

LEMMA ClWord ==
  ASSUME NEW a \in Arg, IsWord(a) PROVE ClDoes(<<a>>, "", "")
<1>1. ASSUME NEW c, GoodC(c) PROVE ClAfter(ClStep(c, a), c, "", "")
  <2> DEFINE r == ClStep(c, a)
             x == Append(c.inputs, a)
  <2>1. r = [c EXCEPT !.inputs = x]
    BY Zenon DEF ClStep, IsWord
  <2>2. r = C(x, c.outputs, c.opt, c.eh)
    BY <1>1, <2>1, SetClInputs, Zenon DEF GoodC
  <2>3. x \in Seq(Arg)
    BY <1>1 DEF GoodC
  <2> HIDE DEF r, x
  <2>4. r.inputs = x /\ r.outputs = c.outputs /\ r.opt = c.opt /\ r.eh = c.eh /\ IsC(r)
    BY <2>2, CFields
  <2>5. ClAfter(r, c, "", "")
    BY <1>1, <2>3, <2>4, Overrides, Zenon DEF ClAfter, GoodC
  <2>6. QED
    BY <2>5 DEF r
<1>2. QED
  BY <1>1, ClOne, Zenon

-----------------------------------------------------------------------------
(***************************************************************************)
(* What the MSVC executor passes on.                                       *)
(***************************************************************************)

(* Arguments that the executor passes on as they are. *)
Passes(x) ==
  /\ x \in Seq(Arg)
  /\ \A out \in Seq(Arg) : Dropping!Run(DropState(MsvcDrop, out), x) = DropState(MsvcDrop, out \o x)

LEMMA PassesNothing == Passes(<<>>)
<1>1. <<>> \in Seq(Arg) /\ \A out \in Seq(Arg) : out \o <<>> = out
  OBVIOUS
<1>2. \A b : Dropping!Run(b, <<>>) = b
  BY Dropping!RunEmpty
<1>3. QED
  BY <1>1, <1>2, Zenon DEF Passes

LEMMA PassesOne == ASSUME NEW a \in Arg, Passed(a) PROVE Passes(<<a>>)
<1>1. <<a>> \in Seq(Arg)
  OBVIOUS
<1>2. QED
  BY <1>1, PassesOn, Zenon DEF Passes

LEMMA PassesBoth == ASSUME NEW x, NEW y, Passes(x), Passes(y) PROVE Passes(x \o y)
<1>1. x \in Seq(Arg) /\ y \in Seq(Arg)
  BY DEF Passes
<1>2. x \o y \in Seq(Arg)
  BY <1>1
<1>3. ASSUME NEW out \in Seq(Arg)
      PROVE  Dropping!Run(DropState(MsvcDrop, out), x \o y) = DropState(MsvcDrop, out \o (x \o y))
  <2>1. out \o x \in Seq(Arg) /\ (out \o x) \o y = out \o (x \o y)
    BY <1>1
  <2>2. Dropping!Run(DropState(MsvcDrop, out), x \o y)
          = Dropping!Run(Dropping!Run(DropState(MsvcDrop, out), x), y)
    BY <1>1, Dropping!RunConcat
  <2>3. QED
    BY <2>1, <2>2, Zenon DEF Passes
<1>4. QED
  BY <1>2, <1>3 DEF Passes

HasEh(x) == Range(x) \cap {Flag(m) : m \in {"/EHsc", "/EHs-c-"}} # {}

LEMMA RangeBoth ==
  ASSUME NEW S, NEW x \in Seq(S), NEW y \in Seq(S)
  PROVE  Range(x \o y) = Range(x) \cup Range(y)
<1>1. /\ Len(x) \in Nat /\ Len(y) \in Nat /\ DOMAIN x = 1..Len(x) /\ DOMAIN y = 1..Len(y)
      /\ DOMAIN (x \o y) = 1..(Len(x) + Len(y))
      /\ \A i \in 1..Len(x) : (x \o y)[i] = x[i]
      /\ \A i \in 1..Len(y) : (x \o y)[i + Len(x)] = y[i]
  OBVIOUS
<1>2. ASSUME NEW e \in Range(x \o y) PROVE e \in Range(x) \cup Range(y)
  <2>1. PICK i \in 1..(Len(x) + Len(y)) : e = (x \o y)[i]
    BY <1>1, <1>2 DEF Range
  <2>2. CASE i <= Len(x)
    <3>1. i \in 1..Len(x)
      BY <1>1, <2>2
    <3>2. e = x[i]
      BY <1>1, <2>1, <3>1
    <3>3. QED
      BY <1>1, <3>1, <3>2 DEF Range
  <2>3. CASE ~(i <= Len(x))
    <3>1. i - Len(x) \in 1..Len(y) /\ (i - Len(x)) + Len(x) = i
      BY <1>1, <2>3
    <3>2. e = y[i - Len(x)]
      BY <1>1, <2>1, <3>1
    <3>3. QED
      BY <1>1, <3>1, <3>2 DEF Range
  <2>4. QED
    BY <2>2, <2>3
<1>3. ASSUME NEW e \in Range(x) PROVE e \in Range(x \o y)
  <2>1. PICK i \in 1..Len(x) : e = x[i]
    BY <1>1, <1>3 DEF Range
  <2>2. i \in 1..(Len(x) + Len(y)) /\ e = (x \o y)[i]
    BY <1>1, <2>1
  <2>3. QED
    BY <1>1, <2>2 DEF Range
<1>4. ASSUME NEW e \in Range(y) PROVE e \in Range(x \o y)
  <2>1. PICK i \in 1..Len(y) : e = y[i]
    BY <1>1, <1>4 DEF Range
  <2>2. i + Len(x) \in 1..(Len(x) + Len(y)) /\ e = (x \o y)[i + Len(x)]
    BY <1>1, <2>1
  <2>3. QED
    BY <1>1, <2>2 DEF Range
<1>5. QED
  BY <1>2, <1>3, <1>4

LEMMA EhBoth ==
  ASSUME NEW x \in Seq(Arg), NEW y \in Seq(Arg)
  PROVE  HasEh(x \o y) <=> HasEh(x) \/ HasEh(y)
<1>1. Range(x \o y) = Range(x) \cup Range(y)
  BY RangeBoth
<1>2. QED
  BY <1>1 DEF HasEh

LEMMA EhNone == ~HasEh(<<>>)
<1>1. Range(<<>>) = {}
  BY DEF Range
<1>2. QED
  BY <1>1 DEF HasEh

LEMMA EhOne == ASSUME NEW a PROVE HasEh(<<a>>) <=> a \in {Flag("/EHsc"), Flag("/EHs-c-")}
<1>1. Range(<<a>>) = {a}
  BY DEF Range
<1>2. {Flag(m) : m \in {"/EHsc", "/EHs-c-"}} = {Flag("/EHsc"), Flag("/EHs-c-")}
  BY Zenon
<1> DEFINE F == {Flag("/EHsc"), Flag("/EHs-c-")}
<1>3. HasEh(<<a>>) <=> {a} \cap F # {}
  BY <1>1, <1>2, Zenon DEF HasEh
<1> HIDE DEF F
<1>4. {a} \cap F # {} <=> a \in F
  OBVIOUS
<1>5. QED
  BY <1>3, <1>4, Zenon DEF F

LEMMA EhNot == ASSUME NEW a, a[1] \notin EhFlags PROVE ~HasEh(<<a>>)
<1>1. a # Flag("/EHsc") /\ a # Flag("/EHs-c-")
  BY FlagIs, Zenon DEF EhFlags
<1>2. QED
  BY <1>1, EhOne, Zenon

-----------------------------------------------------------------------------
(***************************************************************************)
(* One item on its way to cl.exe: the level of optimization and the exception*)
(* model it chooses are those that count for gcc.                          *)
(***************************************************************************)

(* The optimization level and the exception model that an item chooses. *)
OptOf(i) == IF Name(i) = "-O" THEN GCCToMSVCFlags(i[1])[1][1] ELSE ""
EhOf(i) == IF IsEh(i[1]) THEN GCCToMSVCFlags(i[1])[1][1] ELSE ""

Works(i) ==
  /\ Translation(i) \in Seq(Arg) /\ ClPart(i) \in Seq(Arg)
  /\ \A out \in Seq(Arg) : Dropping!Run(DropState(MsvcDrop, out), Translation(i))
                             = DropState(MsvcDrop, out \o ClPart(i))
  /\ ClDoes(ClPart(i), OptOf(i), EhOf(i))
  /\ HasEh(Translation(i)) <=> IsEh(i[1])

LEMMA WorksPassed ==
  ASSUME NEW i, Name(i) # "-c", Passes(Translation(i)), ClDoes(Translation(i), OptOf(i), EhOf(i)),
         HasEh(Translation(i)) <=> IsEh(i[1])
  PROVE  Works(i)
<1>1. ClPart(i) = Translation(i)
  BY Zenon DEF ClPart
<1>2. QED
  BY <1>1, Zenon DEF Works, Passes

LEMMA WorksInert ==
  ASSUME NEW i, Name(i) \notin {"-c", "-O"}, ~IsEh(i[1]), Passes(Translation(i)),
         ClDoes(Translation(i), "", ""), ~HasEh(Translation(i))
  PROVE  Works(i)
<1>1. OptOf(i) = "" /\ EhOf(i) = ""
  BY Zenon DEF OptOf, EhOf
<1>2. QED
  BY <1>1, WorksPassed, Zenon

LEMMA NotEh == ASSUME NEW i, Name(i) \notin {"-f", "-fno-"} PROVE ~IsEh(i[1])
BY Zenon DEF IsEh, Name

LEMMA UndefArg ==
  ASSUME NEW v \in Text
  PROVE  LET a == <<"/U", v>> IN a \in Arg /\ a[1] = "/U" /\ Passed(a)
<1> DEFINE a == <<"/U", v>>
<1>1. Literals \subseteq Text
  BY DEF Text
<1>2. "/U" \in Literals
  BY Zenon DEF Literals
<1>3. "/U" \in Text
  BY <1>1, <1>2
<1>4. a \in Arg /\ a[1] = "/U"
  BY <1>3 DEF Arg
<1> HIDE DEF a
<1>5. Ext(a) = "" /\ a # Flag("/c")
  BY <1>4, FlagExt, FlagIs, Zenon
<1>6. "" \notin InputExts
  BY Zenon DEF InputExts
<1>7. Passed(a)
  BY <1>4, <1>5, <1>6, Zenon DEF Passed
<1>8. QED
  BY <1>4, <1>7 DEF a

LEMMA OneFlag == ASSUME NEW m PROVE <<Flag(m)>>[1][1] = m
BY DEF Flag

LEMMA FirstOfTwo == ASSUME NEW x, NEW y PROVE <<x, y>>[1] = x
OBVIOUS

LEMMA ItemWorks == ASSUME NEW i \in KeptItems PROVE Works(i)
<1> DEFINE x == Translation(i)
<1>1. ASSUME Name(i) = "-U", x = <<<<"/U", Val(i)>>>>, Val(i) \in Text PROVE Works(i)
  <2> DEFINE a == <<"/U", Val(i)>>
  <2>1. a \in Arg /\ a[1] = "/U" /\ Passed(a)
    BY <1>1, UndefArg
  <2>2. x = <<a>>
    BY <1>1
  <2> HIDE DEF a
  <2>3. Passes(<<a>>) /\ ClDoes(<<a>>, "", "")
    BY <2>1, PassesOne, ClOther, Zenon
  <2>4. ~HasEh(<<a>>)
    BY <2>1, EhNot, Zenon DEF EhFlags
  <2>5. ~IsEh(i[1])
    BY <1>1, NotEh, Zenon
  <2>6. QED
    BY <1>1, <2>2, <2>3, <2>4, <2>5, WorksInert, Zenon
<1>2. ASSUME Name(i) \in Unknown, Word(Val(i)) \in Arg, ~isInputFile(Word(Val(i))), x = <<Word(Val(i))>>
      PROVE  Works(i)
  <2> DEFINE a == Word(Val(i))
  <2>1. a \in Arg /\ IsWord(a) /\ a[1] = "" /\ Ext(a) \notin InputExts
    BY <1>2, WordIs, Zenon DEF isInputFile
  <2>2. x = <<a>>
    BY <1>2
  <2> HIDE DEF a
  <2>3. a # Flag("/c")
    <3>1. Flag("/c")[1] = "/c"
      BY FlagIs
    <3>2. QED
      BY <2>1, <3>1, Zenon
  <2>4. Passed(a)
    BY <2>1, <2>3, Zenon DEF Passed
  <2>5. Passes(<<a>>) /\ ClDoes(<<a>>, "", "")
    BY <2>1, <2>4, PassesOne, ClWord, Zenon
  <2>6. ~HasEh(<<a>>)
    BY <2>1, EhNot, Zenon DEF EhFlags
  <2>7. Name(i) \notin {"-c", "-O", "-f", "-fno-"}
    BY <1>2, Zenon DEF Unknown
  <2>8. ~IsEh(i[1])
    BY <2>7, NotEh, Zenon
  <2>9. QED
    BY <2>2, <2>5, <2>6, <2>7, <2>8, WorksInert, Zenon
<1>3. ASSUME Plain(i[1]), i[1] \in Arg, x = GCCToMSVCFlags(i[1]) PROVE Works(i)
  <2> DEFINE a == i[1]
  <2>1. Name(i) = a[1]
    BY Zenon DEF Name
  <2>2. CASE a[1] = "-O"
    <3>1. a[2] \in {"0", "1", "2", "3", "s", "fast"}
      BY <1>3, <2>2, Zenon DEF Plain, IsLoneFlag
    <3>2. ~IsEh(a)
      BY <2>2, Zenon DEF IsEh
    <3>3. EhOf(i) = "" /\ OptOf(i) = x[1][1] /\ Name(i) # "-c"
      BY <1>3, <2>1, <2>2, <3>2, Zenon DEF EhOf, OptOf
    <3>4. ASSUME NEW m \in OptFlags, x = <<Flag(m)>> PROVE Works(i)
      <4>1. Passes(x)
        BY <3>4, FlagsArePassed, PassesOne, Zenon
      <4>2. ClDoes(x, OptOf(i), EhOf(i))
        BY <3>3, <3>4, ClOpt, OneFlag, Zenon
      <4>3. ~HasEh(x)
        <5>1. m \notin EhFlags /\ Flag(m)[1] = m
          BY FlagIs, Zenon DEF EhFlags, OptFlags
        <5>2. QED
          BY <3>4, <5>1, EhNot, Zenon
      <4>4. QED
        BY <3>2, <3>3, <4>1, <4>2, <4>3, WorksPassed, Zenon
    <3>5. ASSUME x = <<Flag("/Ox"), Flag("/fp:fast")>> PROVE Works(i)
      <4> DEFINE f == Flag("/Ox")
                 g == Flag("/fp:fast")
      <4>1. "/Ox" \in OptFlags /\ "/fp:fast" \in OtherFlags
        BY Zenon DEF OptFlags, OtherFlags
      <4>2. f[1] = "/Ox" /\ g[1] = "/fp:fast" /\ f \in Arg /\ g \in Arg /\ Passed(f) /\ Passed(g)
        BY <4>1, FlagIs, FlagsArePassed, Zenon
      <4>3. ClDoes(<<f>>, "/Ox", "") /\ ClDoes(<<g>>, "", "")
        BY <4>1, <4>2, ClOpt, ClOther, Zenon
      <4> HIDE DEF f, g
      <4>4. x = <<f>> \o <<g>>
        BY <3>5, JoinOnes, Zenon DEF f, g
      <4>5. Passes(<<f>> \o <<g>>)
        BY <4>2, PassesOne, PassesBoth, Zenon
      <4>6. ClDoes(<<f>> \o <<g>>, "/Ox", "")
        <5>1. ClDoes(<<f>> \o <<g>>, Override("", "/Ox"), Override("", ""))
          BY <4>3, ClBoth, Zenon
        <5>2. QED
          BY <5>1, Overrides, Zenon
      <4>7. ~HasEh(<<f>> \o <<g>>)
        <5>1. ~HasEh(<<f>>) /\ ~HasEh(<<g>>)
          BY <4>2, EhNot, Zenon DEF EhFlags
        <5>2. <<f>> \in Seq(Arg) /\ <<g>> \in Seq(Arg)
          BY <4>2
        <5>3. QED
          BY <5>1, <5>2, EhBoth, Zenon
      <4>8. x[1][1] = "/Ox"
        <5>1. <<f, g>>[1] = f
          BY FirstOfTwo
        <5>2. QED
          BY <3>5, <4>2, <5>1, Zenon DEF f, g
      <4>9. QED
        BY <3>2, <3>3, <4>4, <4>5, <4>6, <4>7, <4>8, WorksPassed, Zenon
    <3>6. QED
      BY <1>3, <2>2, <3>1, <3>4, <3>5, TableOpt, Zenon
  <2>3. CASE IsEh(a)
    <3>1. a[1] \in {"-f", "-fno-"}
      BY <2>3, Zenon DEF IsEh
    <3>2. OptOf(i) = "" /\ EhOf(i) = x[1][1] /\ Name(i) # "-c"
      BY <1>3, <2>1, <2>3, <3>1, Zenon DEF EhOf, OptOf
    <3>3. x = <<Flag("/EHsc")>> \/ x = <<Flag("/EHs-c-")>>
      BY <1>3, <2>3, TableEh, Zenon
    <3>4. ASSUME NEW m \in EhFlags, x = <<Flag(m)>> PROVE Works(i)
      <4>1. Passes(x)
        BY <3>4, FlagsArePassed, PassesOne, Zenon
      <4>2. ClDoes(x, OptOf(i), EhOf(i))
        BY <3>2, <3>4, ClEh, OneFlag, ZenonT(60)
      <4>3. HasEh(x)
        BY <3>4, EhOne, Zenon DEF EhFlags
      <4>4. QED
        BY <2>3, <3>2, <4>1, <4>2, <4>3, WorksPassed, Zenon
    <3>5. QED
      BY <3>3, <3>4, Zenon DEF EhFlags
  <2>4. CASE a[1] = "-c"
    <3>1. x = <<Flag("/c")>>
      BY <1>3, <2>4, TableCompile, Zenon
    <3>2. ~IsEh(a) /\ OptOf(i) = "" /\ EhOf(i) = ""
      BY <2>1, <2>4, Zenon DEF IsEh, OptOf, EhOf
    <3>3. ClPart(i) = <<>>
      BY <2>1, <2>4, Zenon DEF ClPart
    <3> DEFINE g == Flag("/c")
    <3>4. g \in Arg
      <4>1. Literals \subseteq Text
        BY DEF Text
      <4>2. "" \in Literals /\ "/c" \in Literals
        BY Zenon DEF Literals
      <4>3. "" \in Text /\ "/c" \in Text
        BY <4>1, <4>2
      <4>4. QED
        BY <4>3 DEF Flag, Arg
    <3>5. g[1] = "/c"
      BY FlagIs
    <3>6. ~HasEh(<<g>>)
      BY <3>5, EhNot, Zenon DEF EhFlags
    <3>7. ASSUME NEW out \in Seq(Arg)
          PROVE  Dropping!Run(DropState(MsvcDrop, out), <<g>>) = DropState(MsvcDrop, out \o <<>>)
      <4> DEFINE D == MsvcDrop
      <4>1. D.bare = {g} /\ D.valued = {}
        BY DEF MsvcDrop, Drop
      <4> HIDE DEF D, g
      <4>2. DropStep(DropState(D, out), g) = DropState(D, out)
        BY <4>1, DropLoses, Zenon
      <4>3. Dropping!Run(DropState(D, out), <<g>>) = DropStep(DropState(D, out), g)
        BY Dropping!RunOne
      <4>4. out \o <<>> = out
        OBVIOUS
      <4>5. QED
        BY <4>2, <4>3, <4>4, Zenon DEF D
    <3>8. <<g>> \in Seq(Arg) /\ <<>> \in Seq(Arg)
      <4> HIDE DEF g
      <4> QED BY <3>4
    <3>9. QED
      BY <3>1, <3>2, <3>3, <3>6, <3>7, <3>8, ClNothing, Zenon DEF Works
  <2>5. CASE a[1] \notin {"-O", "-c"} /\ ~IsEh(a)
    <3>1. Inert(x)
      BY <1>3, <2>5, TableOther, Zenon
    <3>2. CASE x = <<>>
      BY <2>1, <2>5, <3>2, PassesNothing, ClNothing, EhNone, WorksInert, Zenon
    <3>3. ASSUME NEW m \in OtherFlags, x = <<Flag(m)>> PROVE Works(i)
      <4>1. Flag(m)[1] = m /\ m \notin EhFlags /\ Flag(m) \in Arg
        BY FlagIs, FlagsArePassed, Zenon DEF OtherFlags, EhFlags
      <4>2. Passes(x)
        BY <3>3, FlagsArePassed, PassesOne, Zenon
      <4>3. ClDoes(x, "", "")
        BY <3>3, <4>1, ClOther, Zenon
      <4>4. ~HasEh(x)
        BY <3>3, <4>1, EhNot, Zenon
      <4>5. QED
        BY <2>1, <2>5, <4>2, <4>3, <4>4, WorksInert, Zenon
    <3>4. QED
      BY <3>1, <3>2, <3>3, Zenon DEF Inert
  <2>6. QED
    BY <2>2, <2>3, <2>4, <2>5, Zenon
<1>4. QED
  BY <1>1, <1>2, <1>3, TranslationIs, Zenon

-----------------------------------------------------------------------------
(* Arguments that are no inputs to cl.exe. *)
Quiet(x) == \A c : GoodC(c) => Cling!Run(c, x).inputs = c.inputs

LEMMA QuietNothing == Quiet(<<>>)
<1>1. \A c : Cling!Run(c, <<>>) = c
  BY Cling!RunEmpty
<1>2. QED
  BY <1>1, Zenon DEF Quiet

LEMMA QuietOne == ASSUME NEW a \in Arg, ~IsWord(a) PROVE Quiet(<<a>>)
<1>1. \A c : Cling!Run(c, <<a>>) = ClStep(c, a)
  BY Cling!RunOne
<1>2. ASSUME NEW c, GoodC(c) PROVE ClStep(c, a).inputs = c.inputs
  <2>1. IsC(c)
    BY <1>2 DEF GoodC
  <2> DEFINE r == ClStep(c, a)
             o == Append(c.outputs, a)
  <2>2. \/ r = [c EXCEPT !.outputs = o] \/ r = [c EXCEPT !.opt = a[1]]
        \/ r = [c EXCEPT !.eh = a[1]] \/ r = c
    BY Zenon DEF ClStep
  <2> SUFFICES r.inputs = c.inputs
    BY DEF r
  <2> HIDE DEF r, o
  <2>3. CASE r = [c EXCEPT !.outputs = o]
    <3>1. r = C(c.inputs, o, c.opt, c.eh)
      BY <2>1, <2>3, SetClOutputs, Zenon
    <3>2. C(c.inputs, o, c.opt, c.eh).inputs = c.inputs
      BY CFields
    <3>3. QED
      BY <3>1, <3>2
  <2>4. CASE r = [c EXCEPT !.opt = a[1]]
    <3>1. r = C(c.inputs, c.outputs, a[1], c.eh)
      BY <2>1, <2>4, SetClOpt, Zenon
    <3>2. C(c.inputs, c.outputs, a[1], c.eh).inputs = c.inputs
      BY CFields
    <3>3. QED
      BY <3>1, <3>2
  <2>5. CASE r = [c EXCEPT !.eh = a[1]]
    <3>1. r = C(c.inputs, c.outputs, c.opt, a[1])
      BY <2>1, <2>5, SetClEh, Zenon
    <3>2. C(c.inputs, c.outputs, c.opt, a[1]).inputs = c.inputs
      BY CFields
    <3>3. QED
      BY <3>1, <3>2
  <2>6. CASE r = c
    BY <2>6
  <2>7. QED
    BY <2>2, <2>3, <2>4, <2>5, <2>6
<1>3. QED
  BY <1>1, <1>2, Zenon DEF Quiet

LEMMA QuietFlag == ASSUME NEW m \in OptFlags \cup EhFlags \cup OtherFlags PROVE Quiet(<<Flag(m)>>)
<1> DEFINE a == Flag(m)
<1>1. a \in Arg /\ a[1] = m
  BY FlagsArePassed, FlagIs, Zenon
<1>2. m # ""
  BY Zenon DEF OptFlags, EhFlags, OtherFlags
<1> HIDE DEF a
<1>3. Quiet(<<a>>)
  BY <1>1, <1>2, QuietOne, Zenon DEF IsWord
<1>4. QED
  BY <1>3 DEF a

LEMMA QuietBoth ==
  ASSUME NEW x, NEW y \in Seq(Arg), NEW o, NEW e, ClDoes(x, o, e), Quiet(x), Quiet(y)
  PROVE  Quiet(x \o y)
<1>1. x \in Seq(Arg)
  BY Zenon DEF ClDoes
<1>2. ASSUME NEW c, GoodC(c) PROVE Cling!Run(c, x \o y).inputs = c.inputs
  <2> DEFINE r == Cling!Run(c, x)
  <2>1. Cling!Run(c, x \o y) = Cling!Run(r, y)
    BY <1>1, Cling!RunConcat
  <2>2. GoodC(r) /\ r.inputs = c.inputs
    BY <1>2, Zenon DEF ClDoes, ClAfter, Quiet
  <2> HIDE DEF r
  <2>3. QED
    BY <2>1, <2>2, Zenon DEF Quiet
<1>3. QED
  BY <1>2, Zenon DEF Quiet

(* A kept item whose value is not left to cl.exe. *)
LEMMA QuietItem == ASSUME NEW i \in KeptItems, ~StrayInput(i) PROVE Quiet(ClPart(i))
<1> DEFINE x == Translation(i)
<1>1. CASE Name(i) = "-c"
  <2>1. ClPart(i) = <<>>
    BY <1>1, Zenon DEF ClPart
  <2>2. QED
    BY <2>1, QuietNothing, Zenon
<1>2. ASSUME Name(i) # "-c", Quiet(x) PROVE Quiet(ClPart(i))
  BY <1>2, Zenon DEF ClPart
<1>3. ASSUME Name(i) = "-U", x = <<<<"/U", Val(i)>>>>, Val(i) \in Text PROVE Quiet(x)
  <2> DEFINE a == <<"/U", Val(i)>>
  <2>1. a \in Arg /\ a[1] = "/U"
    BY <1>3, UndefArg
  <2>2. x = <<a>>
    BY <1>3
  <2> HIDE DEF a, x
  <2>3. Quiet(<<a>>)
    BY <2>1, QuietOne, Zenon DEF IsWord
  <2>4. QED
    BY <2>2, <2>3, Zenon
<1>4. ASSUME Name(i) \in Unknown, Name(i) # "-U", Len(i) = 2 PROVE FALSE
  BY <1>4, Zenon DEF StrayInput, UnknownValue, Name, Unknown
<1>5. ASSUME Name(i) # "-c", Plain(i[1]), i[1][1] = Name(i), x = GCCToMSVCFlags(i[1]) PROVE Quiet(x)
  <2> DEFINE a == i[1]
  <2> HIDE DEF x
  <2>1. ASSUME NEW m \in OptFlags \cup EhFlags \cup OtherFlags, x = <<Flag(m)>> PROVE Quiet(x)
    BY <2>1, QuietFlag, Zenon
  <2>2. CASE a[1] = "-O"
    <3>1. a[2] \in {"0", "1", "2", "3", "s", "fast"}
      BY <1>5, <2>2, Zenon DEF Plain, IsLoneFlag
    <3>2. ASSUME x = <<Flag("/Ox"), Flag("/fp:fast")>> PROVE Quiet(x)
      <4>1. "/Ox" \in OptFlags /\ "/fp:fast" \in OtherFlags
        BY Zenon DEF OptFlags, OtherFlags
      <4> DEFINE f == Flag("/Ox")
                 g == Flag("/fp:fast")
      <4>2. Quiet(<<f>>) /\ Quiet(<<g>>) /\ ClDoes(<<f>>, "/Ox", "") /\ g \in Arg
        BY <4>1, QuietFlag, ClOpt, FlagsArePassed, Zenon
      <4>3. x = <<f>> \o <<g>>
        BY <3>2, JoinOnes, Zenon
      <4> HIDE DEF f, g
      <4>4. <<g>> \in Seq(Arg)
        <5>1. g \in Arg
          BY <4>2
        <5>2. QED
          BY <5>1
      <4>5. QED
        BY <4>2, <4>3, <4>4, QuietBoth, Zenon
    <3>3. QED
      BY <1>5, <2>1, <2>2, <3>1, <3>2, TableOpt, Zenon
  <2>3. CASE IsEh(a)
    <3>1. x = <<Flag("/EHsc")>> \/ x = <<Flag("/EHs-c-")>>
      BY <1>5, <2>3, TableEh, Zenon
    <3>2. QED
      BY <2>1, <3>1, Zenon DEF EhFlags
  <2>4. CASE a[1] \notin {"-O", "-c"} /\ ~IsEh(a)
    <3>1. Inert(x)
      BY <1>5, <2>4, TableOther, Zenon
    <3>2. QED
      BY <2>1, <3>1, QuietNothing, Zenon DEF Inert
  <2>5. QED
    BY <1>5, <2>2, <2>3, <2>4, Zenon
<1>6. QED
  <2>1. Name(i) = "-c" \/ Quiet(x)
    BY <1>3, <1>4, <1>5, TranslationIs, Zenon
  <2> HIDE DEF x
  <2>2. QED
    BY <1>1, <1>2, <2>1, Zenon

OptKey == Flag("-O")
EhKey == <<"-f", "exceptions">>

(* What the settings f choose for cl.exe. *)
ChosenFor(f, k) == IF k \in DOMAIN f THEN GCCToMSVCFlags(f[k])[1][1] ELSE ""

LEMMA ChosenHere == ASSUME NEW f, NEW k, NEW a PROVE ChosenFor(Set(f, k, a), k) = GCCToMSVCFlags(a)[1][1]
<1>1. k \in DOMAIN Set(f, k, a) /\ Set(f, k, a)[k] = a
  BY SetHas
<1>2. QED
  BY <1>1, Zenon DEF ChosenFor

LEMMA ChosenElsewhere ==
  ASSUME NEW f, NEW k, NEW a, NEW x, x # k PROVE ChosenFor(Set(f, k, a), x) = ChosenFor(f, x)
<1>1. /\ x \in DOMAIN Set(f, k, a) <=> x \in DOMAIN f
      /\ x \in DOMAIN f => Set(f, k, a)[x] = f[x]
  BY SetKeeps
<1>2. QED
  BY <1>1, Zenon DEF ChosenFor

LEMMA EhKeys ==
  ASSUME NEW a
  PROVE  SettingOf(a) = EhKey <=> IsEh(a)
<1>0. EhKey[1] = "-f" /\ EhKey[2] = "exceptions"
  BY DEF EhKey
<1>1. CASE a[1] \in {"-f", "-fno-"}
  <2>1. SettingOf(a) = <<"-f", a[2]>>
    BY <1>1, SettingKeys, Zenon
  <2>2. <<"-f", a[2]>>[2] = a[2]
    OBVIOUS
  <2>3. CASE a[2] = "exceptions"
    BY <1>1, <2>1, <2>3, Zenon DEF IsEh, EhKey
  <2>4. CASE a[2] # "exceptions"
    BY <1>0, <2>1, <2>2, <2>4, Zenon DEF IsEh
  <2>5. QED
    BY <2>3, <2>4
<1>2. CASE a[1] \in {"-O", "-std=", "-g"}
  <2>1. SettingOf(a) = Flag(a[1])
    BY <1>2, SettingKeys, Zenon
  <2>2. Flag(a[1])[1] = a[1]
    BY FlagIs
  <2>3. QED
    BY <1>0, <1>2, <2>1, <2>2, Zenon DEF IsEh
<1>3. CASE a[1] \notin {"-O", "-std=", "-g", "-f", "-fno-"}
  <2>1. SettingOf(a) = a
    BY <1>3, SettingKeys, Zenon
  <2>2. QED
    BY <1>0, <1>3, <2>1, Zenon DEF IsEh
<1>4. QED
  BY <1>1, <1>2, <1>3, Zenon

(* A translated flag is never empty. *)
LEMMA ChoiceIs ==
  ASSUME NEW i \in KeptItems
  PROVE  /\ Name(i) = "-O" => OptOf(i) # ""
         /\ IsEh(i[1]) => EhOf(i) # ""
<1>1. ASSUME Name(i) = "-O" PROVE OptOf(i) # ""
  <2> DEFINE a == i[1]
             x == GCCToMSVCFlags(a)
  <2>1. Name(i) \notin Unknown
    BY <1>1, Zenon DEF Unknown
  <2>2. Plain(a) /\ a[1] = "-O"
    BY <1>1, <2>1, KeptSetting, Zenon
  <2>3. a[2] \in {"0", "1", "2", "3", "s", "fast"}
    BY <2>2, Zenon DEF Plain, IsLoneFlag
  <2>4. (\E m \in OptFlags : x = <<Flag(m)>>) \/ x = <<Flag("/Ox"), Flag("/fp:fast")>>
    BY <2>2, <2>3, TableOpt, Zenon
  <2>5. ASSUME NEW m \in OptFlags, x = <<Flag(m)>> PROVE x[1][1] # ""
    BY <2>5, OneFlag, Zenon DEF OptFlags
  <2>6. ASSUME x = <<Flag("/Ox"), Flag("/fp:fast")>> PROVE x[1][1] # ""
    <3>1. x[1] = Flag("/Ox")
      BY <2>6, FirstOfTwo, Zenon
    <3>2. Flag("/Ox")[1] = "/Ox"
      BY FlagIs
    <3>3. QED
      BY <3>1, <3>2, Zenon
  <2>7. x[1][1] # ""
    BY <2>4, <2>5, <2>6, Zenon
  <2>8. QED
    BY <1>1, <2>7, Zenon DEF OptOf
<1>2. ASSUME IsEh(i[1]) PROVE EhOf(i) # ""
  <2> DEFINE x == GCCToMSVCFlags(i[1])
  <2>1. x = <<Flag("/EHsc")>> \/ x = <<Flag("/EHs-c-")>>
    BY <1>2, TableEh, Zenon
  <2>2. x[1][1] # ""
    <3>1. <<Flag("/EHsc")>>[1][1] = "/EHsc" /\ <<Flag("/EHs-c-")>>[1][1] = "/EHs-c-"
      BY OneFlag
    <3>2. QED
      BY <2>1, <3>1, Zenon
  <2>3. QED
    BY <1>2, <2>2, Zenon DEF EhOf
<1>3. QED
  BY <1>1, <1>2

(* One more item: its choice takes the place of an earlier one. *)
LEMMA ChoosesItem ==
  ASSUME NEW m, NEW i \in KeptItems, NEW r, r = MeanItem(m, i)
  PROVE  /\ ChosenFor(r.settings, OptKey) = Override(OptOf(i), ChosenFor(m.settings, OptKey))
         /\ ChosenFor(r.settings, EhKey) = Override(EhOf(i), ChosenFor(m.settings, EhKey))
         /\ EhKey \in DOMAIN r.settings <=> EhKey \in DOMAIN m.settings \/ IsEh(i[1])
<1> DEFINE a == i[1]
           k == SettingOf(a)
<1>1. r.settings = IF IsSetting(i) THEN Set(m.settings, k, a) ELSE m.settings
  BY MeanItemFields, ZenonT(60)
<1>2. Name(i) = a[1]
  BY Zenon DEF Name
<1>3. Name(i) = "-O" => IsSetting(i) /\ k = OptKey
  BY <1>2, SettingKeys, Zenon DEF IsSetting, GccValueFlags, OptKey
<1>4. Name(i) # "-O" => k # OptKey
  BY <1>2, OtherKeys, Zenon DEF OptKey
<1>5. k = EhKey <=> IsEh(a)
  BY EhKeys
<1>6. IsEh(a) => IsSetting(i)
  BY <1>2, Zenon DEF IsEh, IsSetting, GccValueFlags
<1> HIDE DEF k
<1>7. ChosenFor(r.settings, OptKey) = Override(OptOf(i), ChosenFor(m.settings, OptKey))
  <2>1. CASE Name(i) = "-O"
    <3>1. ChosenFor(r.settings, OptKey) = GCCToMSVCFlags(a)[1][1]
      <4>1. r.settings = Set(m.settings, OptKey, a)
        BY <1>1, <1>3, <2>1, Zenon
      <4>2. ChosenFor(Set(m.settings, OptKey, a), OptKey) = GCCToMSVCFlags(a)[1][1]
        BY ChosenHere
      <4>3. QED
        BY <4>1, <4>2, Zenon
    <3>2. OptOf(i) = GCCToMSVCFlags(a)[1][1] /\ OptOf(i) # ""
      BY <2>1, ChoiceIs, Zenon DEF OptOf
    <3>3. QED
      BY <3>1, <3>2, Overrides, Zenon
  <2>2. CASE Name(i) # "-O"
    <3>1. ChosenFor(r.settings, OptKey) = ChosenFor(m.settings, OptKey)
      <4>1. ChosenFor(Set(m.settings, k, a), OptKey) = ChosenFor(m.settings, OptKey)
        BY <1>4, <2>2, ChosenElsewhere
      <4>2. QED
        BY <1>1, <4>1, Zenon
    <3>2. OptOf(i) = ""
      BY <2>2, Zenon DEF OptOf
    <3>3. QED
      BY <3>1, <3>2, Overrides, Zenon
  <2>3. QED
    BY <2>1, <2>2
<1>8. ChosenFor(r.settings, EhKey) = Override(EhOf(i), ChosenFor(m.settings, EhKey))
  <2>1. CASE IsEh(a)
    <3>1. ChosenFor(r.settings, EhKey) = GCCToMSVCFlags(a)[1][1]
      <4>1. r.settings = Set(m.settings, EhKey, a)
        BY <1>1, <1>5, <1>6, <2>1, Zenon
      <4>2. ChosenFor(Set(m.settings, EhKey, a), EhKey) = GCCToMSVCFlags(a)[1][1]
        BY ChosenHere
      <4>3. QED
        BY <4>1, <4>2, Zenon
    <3>2. EhOf(i) = GCCToMSVCFlags(a)[1][1] /\ EhOf(i) # ""
      BY <2>1, ChoiceIs, Zenon DEF EhOf
    <3>3. QED
      BY <3>1, <3>2, Overrides, Zenon
  <2>2. CASE ~IsEh(a)
    <3>1. ChosenFor(r.settings, EhKey) = ChosenFor(m.settings, EhKey)
      <4>1. ChosenFor(Set(m.settings, k, a), EhKey) = ChosenFor(m.settings, EhKey)
        BY <1>5, <2>2, ChosenElsewhere
      <4>2. QED
        BY <1>1, <4>1, Zenon
    <3>2. EhOf(i) = ""
      BY <2>2, Zenon DEF EhOf
    <3>3. QED
      BY <3>1, <3>2, Overrides, Zenon
  <2>3. QED
    BY <2>1, <2>2
<1>9. EhKey \in DOMAIN r.settings <=> EhKey \in DOMAIN m.settings \/ IsEh(a)
  <2>1. CASE IsEh(a)
    <3>1. EhKey \in DOMAIN Set(m.settings, EhKey, a)
      BY SetHas
    <3>2. r.settings = Set(m.settings, EhKey, a)
      BY <1>1, <1>5, <1>6, <2>1, Zenon
    <3>3. QED
      BY <2>1, <3>1, <3>2, Zenon
  <2>2. CASE ~IsEh(a)
    <3>1. EhKey \in DOMAIN Set(m.settings, k, a) <=> EhKey \in DOMAIN m.settings
      BY <1>5, <2>2, SetKeeps
    <3>2. QED
      BY <1>1, <2>2, <3>1, Zenon
  <2>3. QED
    BY <2>1, <2>2
<1>10. QED
  BY <1>7, <1>8, <1>9

-----------------------------------------------------------------------------
(***************************************************************************)
(* A command line on its way to cl.exe.                                    *)
(***************************************************************************)

(* What the kept items k become on the way to cl.exe: the translation t, and x after *)
(* the executor dropped its part of it.                                              *)
Carried(k, t, x) ==
  LET s == MeantFrom(NoMeaning, k).settings
  IN /\ t \in Seq(Arg) /\ x \in Seq(Arg)
     /\ Translating!Run(TranslateState(<<>>), Args(k)) = TranslateState(t)
     /\ Dropping!Run(DropState(MsvcDrop, <<>>), t) = DropState(MsvcDrop, x)
     /\ ClDoes(x, ChosenFor(s, OptKey), ChosenFor(s, EhKey))
     /\ HasEh(t) <=> EhKey \in DOMAIN s
     /\ EhKey \in DOMAIN s => ChosenFor(s, EhKey) # ""
     /\ Known(k) => Quiet(x)

LEMMA CarriedStart == Carried(<<>>, <<>>, <<>>)
<1>1. MeantFrom(NoMeaning, <<>>) = NoMeaning
  BY MeantStart
<1>2. NoMeaning.settings = <<>>
  BY DEF NoMeaning
<1>3. OptKey \notin DOMAIN <<>> /\ EhKey \notin DOMAIN <<>>
  OBVIOUS
<1>4. ChosenFor(<<>>, OptKey) = "" /\ ChosenFor(<<>>, EhKey) = ""
  BY <1>3, Zenon DEF ChosenFor
<1>5. Translating!Run(TranslateState(<<>>), Args(<<>>)) = TranslateState(<<>>)
  <2>1. \A b : Translating!Run(b, <<>>) = b
    BY Translating!RunEmpty
  <2>2. QED
    BY <2>1, ArgsEmpty, Zenon
<1>6. Dropping!Run(DropState(MsvcDrop, <<>>), <<>>) = DropState(MsvcDrop, <<>>)
  BY Dropping!RunEmpty
<1>7. <<>> \in Seq(Arg)
  OBVIOUS
<1>8. QED
  BY <1>1, <1>2, <1>3, <1>4, <1>5, <1>6, <1>7, ClNothing, EhNone, QuietNothing, Zenon DEF Carried

LEMMA CarriedGrows ==
  ASSUME NEW k \in Seq(KeptItems), NEW i \in KeptItems, NEW t, NEW x, Carried(k, t, x)
  PROVE  Carried(Append(k, i), t \o Translation(i), x \o ClPart(i))
<1> DEFINE m == MeantFrom(NoMeaning, k)
           r == MeanItem(m, i)
           y == Translation(i)
           z == ClPart(i)
           s == m.settings
           n == r.settings
<1>1. MeantFrom(NoMeaning, Append(k, i)) = r /\ Args(k) \in Seq(Arg)
  BY StartsGood, KeptMean, Zenon
<1>2. /\ y \in Seq(Arg) /\ z \in Seq(Arg) /\ ClDoes(z, OptOf(i), EhOf(i))
      /\ \A out \in Seq(Arg) : Dropping!Run(DropState(MsvcDrop, out), y) = DropState(MsvcDrop, out \o z)
      /\ HasEh(y) <=> IsEh(i[1])
  BY ItemWorks, Zenon DEF Works
<1>3. /\ ChosenFor(n, OptKey) = Override(OptOf(i), ChosenFor(s, OptKey))
      /\ ChosenFor(n, EhKey) = Override(EhOf(i), ChosenFor(s, EhKey))
      /\ EhKey \in DOMAIN n <=> EhKey \in DOMAIN s \/ IsEh(i[1])
  BY ChoosesItem, Zenon
<1>4. /\ t \in Seq(Arg) /\ x \in Seq(Arg)
      /\ Translating!Run(TranslateState(<<>>), Args(k)) = TranslateState(t)
      /\ Dropping!Run(DropState(MsvcDrop, <<>>), t) = DropState(MsvcDrop, x)
      /\ ClDoes(x, ChosenFor(s, OptKey), ChosenFor(s, EhKey))
      /\ HasEh(t) <=> EhKey \in DOMAIN s
      /\ EhKey \in DOMAIN s => ChosenFor(s, EhKey) # ""
      /\ Known(k) => Quiet(x)
  BY Zenon DEF Carried
<1>0. ~StrayInput(i) => Quiet(z)
  BY QuietItem, Zenon
<1>5. i \in Seq(Arg)
  BY KeptAre
<1>6. IsEh(i[1]) => EhOf(i) # ""
  BY ChoiceIs
<1>7. Args(Append(k, i)) = Args(k) \o i
  BY ArgsGrow
<1> HIDE DEF y, z, s, n
<1>8. t \o y \in Seq(Arg) /\ x \o z \in Seq(Arg)
  <2>1. t \in Seq(Arg) /\ x \in Seq(Arg) /\ y \in Seq(Arg) /\ z \in Seq(Arg)
    BY <1>2, <1>4, Zenon
  <2>2. QED
    BY <2>1
<1>9. Translating!Run(TranslateState(<<>>), Args(Append(k, i))) = TranslateState(t \o y)
  <2> DEFINE a == Args(k)
  <2>1. a \in Seq(Arg)
    BY <1>1
  <2> HIDE DEF a
  <2>2. Translating!Run(TranslateState(<<>>), a \o i)
          = Translating!Run(Translating!Run(TranslateState(<<>>), a), i)
    BY <1>5, <2>1, Translating!RunConcat
  <2>3. Translating!Run(TranslateState(t), i) = TranslateState(t \o y)
    BY <1>4, TranslatesItem, Zenon DEF y
  <2>4. QED
    BY <1>4, <1>7, <2>2, <2>3, Zenon DEF a
<1>10. Dropping!Run(DropState(MsvcDrop, <<>>), t \o y) = DropState(MsvcDrop, x \o z)
  <2>1. Dropping!Run(DropState(MsvcDrop, <<>>), t \o y)
          = Dropping!Run(Dropping!Run(DropState(MsvcDrop, <<>>), t), y)
    BY <1>2, <1>4, Dropping!RunConcat
  <2>2. QED
    BY <1>2, <1>4, <2>1, Zenon
<1>11. ClDoes(x \o z, ChosenFor(n, OptKey), ChosenFor(n, EhKey))
  <2>1. ClDoes(x \o z, Override(OptOf(i), ChosenFor(s, OptKey)), Override(EhOf(i), ChosenFor(s, EhKey)))
    BY <1>2, <1>4, ClBoth, Zenon
  <2>2. QED
    BY <1>3, <2>1, Zenon
<1>12. HasEh(t \o y) <=> EhKey \in DOMAIN n
  <2>1. HasEh(t \o y) <=> HasEh(t) \/ HasEh(y)
    BY <1>2, <1>4, EhBoth, Zenon
  <2>2. QED
    BY <1>2, <1>3, <1>4, <2>1, Zenon
<1>13. EhKey \in DOMAIN n => ChosenFor(n, EhKey) # ""
  <2>1. \A p, q : p # "" \/ q # "" => Override(p, q) # ""
    BY Zenon DEF Override
  <2>2. QED
    BY <1>3, <1>4, <1>6, <2>1, Zenon
<1>14. Known(Append(k, i)) => Quiet(x \o z)
  <2>1. Known(Append(k, i)) <=> Known(k) /\ ~StrayInput(i)
    BY KnownGrows, Zenon
  <2>2. QED
    BY <1>0, <1>2, <1>4, <2>1, QuietBoth, Zenon
<1>15. QED
  BY <1>1, <1>8, <1>9, <1>10, <1>11, <1>12, <1>13, <1>14, Zenon DEF Carried, y, z, n

LEMMA KeptCarried ==
  ASSUME NEW k \in Seq(KeptItems) PROVE \E t, x : Carried(k, t, x)
<1> DEFINE I == KeptItems
           G == {u \in Seq(I) : \E t, x : Carried(u, t, x)}
<1>1. <<>> \in G
  <2>1. <<>> \in Seq(I)
    OBVIOUS
  <2>2. QED
    BY <2>1, CarriedStart, Zenon
<1>2. ASSUME NEW u \in Seq(I), NEW i \in I, u \in G PROVE Append(u, i) \in G
  <2>1. PICK t, x : Carried(u, t, x)
    BY <1>2
  <2>2. Append(u, i) \in Seq(I)
    OBVIOUS
  <2>3. Carried(Append(u, i), t \o Translation(i), x \o ClPart(i))
    BY <2>1, CarriedGrows, Zenon
  <2>4. QED
    BY <2>2, <2>3, Zenon
<1>3. k \in G
  <2> HIDE DEF G, I
  <2> k \in Seq(I)
    BY DEF I
  <2> QED BY <1>1, <1>2, SeqGrows
<1>4. QED
  BY <1>3, Zenon

LEMMA ClLiterals ==
  /\ Flag("/c") \in Arg /\ <<"/I", "includes">> \in Arg /\ <<"/Fo", "output.obj">> \in Arg
  /\ Word("source.i") \in Arg
<1>1. Literals \subseteq Text /\ \A x, y \in Text : <<x, y>> \in Arg
  BY DEF Arg, Text
<1>2. {"", "/c", "/I", "includes", "/Fo", "output.obj", "source.i"} \subseteq Literals
  BY Zenon DEF Literals
<1> HIDE DEF Literals
<1>3. {"", "/c", "/I", "includes", "/Fo", "output.obj", "source.i"} \subseteq Text
  BY <1>1, <1>2, Zenon
<1>4. QED
  BY <1>1, <1>3, Zenon DEF Flag, Word

LEMMA LastIs ==
  ASSUME NEW S, NEW s \in Seq(S), NEW a \in S PROVE Last(Append(s, a)) = a
BY DEF Last

(* cl.exe is asked for one output, for the choices o and e, and last for the source. *)
ClServes(run, o, e) ==
  LET m == ClMeaning(run)
  IN /\ Last(m.inputs) = Word("source.i")
     /\ m.outputs = <<<<"/Fo", "output.obj">>>>
     /\ m.opt = o /\ m.eh = e

(* It is asked for nothing but the source. *)
ClLone(run) == ClMeaning(run).inputs = <<Word("source.i")>>

LEMMA ClFinished ==
  ASSUME NEW x, NEW o, NEW e, ClDoes(x, o, e)
  PROVE  LET run == x \o <<Word("source.i"), <<"/Fo", "output.obj">>>>
         IN ClServes(run, o, e) /\ (Quiet(x) => ClLone(run))
<1> DEFINE src == Word("source.i")
           fo == <<"/Fo", "output.obj">>
           c == C(<<>>, <<>>, "", "")
           r == Cling!Run(c, x)
           p == ClStep(r, src)
           q == ClStep(p, fo)
           tail == <<src, fo>>
<1>1. src \in Arg /\ fo \in Arg /\ fo[1] = "/Fo" /\ IsWord(src)
  BY ClLiterals, WordIs
<1>2. tail \in Seq(Arg) /\ x \in Seq(Arg)
  <2>1. x \in Seq(Arg)
    BY DEF ClDoes
  <2> HIDE DEF src, fo
  <2>2. tail \in Seq(Arg)
    BY <1>1
  <2>3. QED
    BY <2>1, <2>2
<1>3. Cling!Run(c, x \o tail) = Cling!Run(r, tail)
  <2> HIDE DEF tail, c
  <2> QED BY <1>2, Cling!RunConcat
<1>4. Cling!Run(r, tail) = q
  BY Cling!RunTwo
<1>5. ClMeaning(x \o tail) = q
  <2> HIDE DEF tail, r, q
  <2>1. ClMeaning(x \o tail) = Cling!Run(c, x \o tail)
    BY ClRuns, Zenon DEF ClMeaning, C
  <2>2. QED
    BY <1>3, <1>4, <2>1, Zenon
<1>6. GoodC(c) /\ c.outputs = <<>> /\ c.opt = "" /\ c.eh = "" /\ c.inputs = <<>>
  <2>1. <<>> \in Seq(Arg)
    OBVIOUS
  <2>2. c.inputs = <<>> /\ c.outputs = <<>> /\ c.opt = "" /\ c.eh = "" /\ IsC(c)
    <3>1. \A l, s : LET d == C(l, l, s, s)
                    IN d.inputs = l /\ d.outputs = l /\ d.opt = s /\ d.eh = s /\ IsC(d)
      BY DEF C, IsC
    <3>2. QED
      BY <3>1, Zenon
  <2> HIDE DEF c
  <2>3. QED
    BY <2>1, <2>2, Zenon DEF GoodC
<1> HIDE DEF c
<1>7. GoodC(r) /\ r.outputs = <<>> /\ r.opt = Override(o, "") /\ r.eh = Override(e, "")
  BY <1>6, Zenon DEF ClDoes, ClAfter
<1>8. \A z : Override(z, "") = z
  BY Zenon DEF Override
<1>0. Quiet(x) => r.inputs = <<>>
  BY <1>6, Zenon DEF Quiet
<1> HIDE DEF r
<1>9. r.opt = o /\ r.eh = e /\ r.inputs \in Seq(Arg) /\ IsC(r)
  BY <1>7, <1>8, Zenon DEF GoodC
<1> DEFINE y == Append(r.inputs, src)
<1>10. p = C(y, r.outputs, r.opt, r.eh)
  <2> HIDE DEF src
  <2>1. p = [r EXCEPT !.inputs = y]
    BY <1>1, Zenon DEF ClStep, IsWord
  <2>2. QED
    BY <1>9, <2>1, SetClInputs, Zenon
<1>11. Last(y) = src
  <2> HIDE DEF src
  <2> QED BY <1>1, <1>9, LastIs
<1> HIDE DEF p, y, src
<1>12. p.inputs = y /\ p.outputs = <<>> /\ p.opt = o /\ p.eh = e /\ IsC(p)
  <2>1. p.inputs = y /\ p.outputs = r.outputs /\ p.opt = r.opt /\ p.eh = r.eh /\ IsC(p)
    BY <1>10, CFields
  <2>2. QED
    BY <1>7, <1>9, <2>1, Zenon
<1> DEFINE w == Append(p.outputs, fo)
<1>13. q = C(p.inputs, w, p.opt, p.eh)
  <2>1. q = [p EXCEPT !.outputs = w]
    BY <1>1, Zenon DEF ClStep, IsWord
  <2>2. QED
    BY <1>12, <2>1, SetClOutputs, Zenon
<1>14. w = <<fo>>
  <2>1. Append(<<>>, fo) = <<fo>>
    OBVIOUS
  <2>2. QED
    BY <1>12, <2>1, Zenon
<1> HIDE DEF q, w
<1>15. q.inputs = y /\ q.outputs = <<fo>> /\ q.opt = o /\ q.eh = e
  <2>1. q.inputs = p.inputs /\ q.outputs = w /\ q.opt = p.opt /\ q.eh = p.eh
    BY <1>13, CFields
  <2>2. QED
    BY <1>12, <1>14, <2>1, Zenon
<1>16. Quiet(x) => y = <<src>>
  <2>1. Append(<<>>, src) = <<src>>
    OBVIOUS
  <2>2. QED
    BY <1>0, <2>1, Zenon DEF y
<1>17. Quiet(x) => ClLone(x \o tail)
  BY <1>5, <1>15, <1>16, Zenon DEF ClLone, src
<1>18. QED
  BY <1>5, <1>11, <1>15, <1>17, Zenon DEF ClServes, src, fo

(* The executor makes x of the arguments t, and cl.exe chooses o and e by x. *)
Delivers(t, x, o, e) ==
  /\ t \in Seq(Arg) /\ ClDoes(x, o, e)
  /\ Dropping!Run(DropState(MsvcDrop, <<>>), t) = DropState(MsvcDrop, x)

LEMMA DeliversMore ==
  ASSUME NEW t, NEW x, NEW o, NEW e, Delivers(t, x, o, e),
         NEW n, NEW p, NEW f, Passes(n), ClDoes(n, p, f)
  PROVE  Delivers(t \o n, x \o n, Override(p, o), Override(f, e))
<1>1. t \in Seq(Arg) /\ x \in Seq(Arg) /\ n \in Seq(Arg)
  BY Zenon DEF Delivers, ClDoes
<1>2. t \o n \in Seq(Arg)
  BY <1>1
<1>3. ClDoes(x \o n, Override(p, o), Override(f, e))
  BY ClBoth, Zenon DEF Delivers
<1>4. Dropping!Run(DropState(MsvcDrop, <<>>), t \o n) = DropState(MsvcDrop, x \o n)
  <2>1. Dropping!Run(DropState(MsvcDrop, <<>>), t \o n)
          = Dropping!Run(Dropping!Run(DropState(MsvcDrop, <<>>), t), n)
    BY <1>1, Dropping!RunConcat
  <2>2. Dropping!Run(DropState(MsvcDrop, x), n) = DropState(MsvcDrop, x \o n)
    BY <1>1, Zenon DEF Passes
  <2>3. QED
    BY <2>1, <2>2, Zenon DEF Delivers
<1>5. QED
  BY <1>2, <1>3, <1>4, Zenon DEF Delivers

LEMMA DeliveredIs ==
  ASSUME NEW t, NEW x, NEW o, NEW e, Delivers(t, x, o, e)
  PROVE  msvcKept(t) = x
<1>1. msvcKept(t) = Dropping!Run(DropState(MsvcDrop, <<>>), t).out
  BY WithoutIs, Zenon DEF msvcKept, MsvcDrop
<1>2. DropState(MsvcDrop, x).out = x
  BY DEF DropState
<1>3. QED
  BY <1>1, <1>2, Zenon DEF Delivers

(* An argument that is added when there is none of its kind. *)
LEMMA Added ==
  ASSUME NEW m \in OtherFlags, NEW n, n \in {<<Flag(m)>>, <<>>}
  PROVE  Passes(n) /\ ClDoes(n, "", "")
<1>1. Passes(<<Flag(m)>>)
  BY FlagsArePassed, PassesOne, Zenon
<1>2. ClDoes(<<Flag(m)>>, "", "")
  <2> DEFINE a == Flag(m)
  <2>1. a \in Arg /\ a[1] = m
    BY FlagsArePassed, FlagIs
  <2> HIDE DEF a
  <2>2. ClDoes(<<a>>, "", "")
    BY <2>1, ClOther, Zenon
  <2>3. QED
    BY <2>2 DEF a
<1>3. QED
  BY <1>1, <1>2, PassesNothing, ClNothing, Zenon

LEMMA TranslationIsRun ==
  ASSUME NEW a, NEW t \in Seq(Arg), Translating!Run(TranslateState(<<>>), a) = TranslateState(t)
  PROVE  TranslateToMSVC(a) = t
<1> DEFINE s == FoldLeft(TranslateStep, [pending |-> <<>>, out |-> <<>>], a)
<1>1. s = TranslateState(t)
  BY TranslateRuns, Zenon DEF TranslateState
<1>2. TranslateToMSVC(a) = s.out \o IF s.pending = <<>> THEN <<>> ELSE MSVCValue(s.pending[1], "")
  BY Zenon DEF TranslateToMSVC
<1> HIDE DEF s
<1>3. s.pending = <<>> /\ s.out = t
  BY <1>1, TranslateFields
<1>4. t \o <<>> = t
  OBVIOUS
<1>5. QED
  BY <1>2, <1>3, <1>4, Zenon

(* Overrides at the two ends. *)
LEMMA Leaves ==
  /\ \A z : Override(z, "") = z /\ Override("", z) = z
  /\ \A z : z # "" => Override(z, "/EHsc") = z
BY Zenon DEF Override

LEMMA ClAdded ==
  ASSUME NEW t, NEW x, NEW o, NEW e, Delivers(t, x, o, e), HasEh(t) => e # "", ~HasEh(t) => e = ""
  PROVE  \E y : /\ Delivers(MSVCToCLFlags(t), y, o, Override(e, "/EHsc"))
                /\ Quiet(x) => Quiet(y)
<1> DEFINE absent(fs, f) == IF Range(t) \cap {Flag(z) : z \in fs} = {} THEN <<Flag(f)>> ELSE <<>>
           n1 == absent({"/nologo"}, "/nologo")
           n2 == absent({"/EHsc", "/EHs-c-"}, "/EHsc")
           n3 == absent({"/permissive-"}, "/permissive-")
<1>1. MSVCToCLFlags(t) = t \o n1 \o n2 \o n3
  BY Zenon DEF MSVCToCLFlags
<1>2. n1 \in {<<Flag("/nologo")>>, <<>>} /\ n3 \in {<<Flag("/permissive-")>>, <<>>}
  BY Zenon
<1>3. n2 = IF HasEh(t) THEN <<>> ELSE <<Flag("/EHsc")>>
  BY Zenon DEF HasEh
<1> HIDE DEF n1, n2, n3
<1>4. Passes(n1) /\ ClDoes(n1, "", "") /\ Passes(n3) /\ ClDoes(n3, "", "")
  <2>1. "/nologo" \in OtherFlags /\ "/permissive-" \in OtherFlags
    BY Zenon DEF OtherFlags
  <2>2. QED
    BY <1>2, <2>1, Added, Zenon
<1> DEFINE f == IF HasEh(t) THEN "" ELSE "/EHsc"
<1>5. Passes(n2) /\ ClDoes(n2, "", f)
  <2>1. CASE HasEh(t)
    BY <1>3, <2>1, PassesNothing, ClNothing, Zenon
  <2>2. CASE ~HasEh(t)
    <3>1. "/EHsc" \in EhFlags
      BY Zenon DEF EhFlags
    <3>2. Passes(<<Flag("/EHsc")>>)
      BY <3>1, FlagsArePassed, PassesOne, Zenon
    <3>3. ClDoes(<<Flag("/EHsc")>>, "", "/EHsc")
      BY <3>1, ClEh, Zenon
    <3>4. QED
      BY <1>3, <2>2, <3>2, <3>3, Zenon
  <2>3. QED
    BY <2>1, <2>2
<1>6. Override(f, e) = Override(e, "/EHsc")
  BY Zenon DEF Override
<1> HIDE DEF f
<1>7. Delivers(t \o n1, x \o n1, o, e)
  <2>1. Delivers(t \o n1, x \o n1, Override("", o), Override("", e))
    BY <1>4, DeliversMore, Zenon
  <2>2. QED
    BY <2>1, Leaves, Zenon
<1>8. Delivers(t \o n1 \o n2, x \o n1 \o n2, o, Override(f, e))
  <2>1. Delivers(t \o n1 \o n2, x \o n1 \o n2, Override("", o), Override(f, e))
    BY <1>5, <1>7, DeliversMore, Zenon
  <2>2. QED
    BY <2>1, Leaves, Zenon
<1>9. Delivers(t \o n1 \o n2 \o n3, x \o n1 \o n2 \o n3, o, Override(f, e))
  <2>1. Delivers(t \o n1 \o n2 \o n3, x \o n1 \o n2 \o n3, Override("", o), Override("", Override(f, e)))
    BY <1>4, <1>8, DeliversMore, Zenon
  <2>2. QED
    BY <2>1, Leaves, Zenon
<1>10. Quiet(n1) /\ Quiet(n2) /\ Quiet(n3)
  <2>1. "/nologo" \in OtherFlags /\ "/permissive-" \in OtherFlags /\ "/EHsc" \in EhFlags
    BY Zenon DEF OtherFlags, EhFlags
  <2>2. Quiet(<<Flag("/nologo")>>) /\ Quiet(<<Flag("/permissive-")>>) /\ Quiet(<<Flag("/EHsc")>>)
    BY <2>1, QuietFlag, Zenon
  <2>3. QED
    BY <1>2, <1>3, <2>2, QuietNothing, Zenon
<1>11. Quiet(x) => Quiet(x \o n1 \o n2 \o n3)
  <2>1. n1 \in Seq(Arg) /\ n2 \in Seq(Arg) /\ n3 \in Seq(Arg)
    BY <1>4, <1>5, Zenon DEF ClDoes
  <2>2. /\ ClDoes(x, o, e) /\ ClDoes(x \o n1, o, e)
        /\ ClDoes(x \o n1 \o n2, o, Override(f, e))
    BY <1>7, <1>8, Zenon DEF Delivers
  <2>3. ASSUME Quiet(x) PROVE Quiet(x \o n1)
    BY <1>10, <2>1, <2>2, <2>3, QuietBoth, Zenon
  <2>4. ASSUME Quiet(x) PROVE Quiet(x \o n1 \o n2)
    BY <1>10, <2>1, <2>2, <2>3, <2>4, QuietBoth, Zenon
  <2>5. ASSUME Quiet(x) PROVE Quiet(x \o n1 \o n2 \o n3)
    BY <1>10, <2>1, <2>2, <2>4, <2>5, QuietBoth, Zenon
  <2>6. QED
    BY <2>5
<1>12. QED
  BY <1>1, <1>6, <1>9, <1>11, Zenon

LEMMA JoinThree == ASSUME NEW x, NEW y, NEW z PROVE <<x>> \o <<y>> \o <<z>> = <<x, y, z>>
<1> DEFINE S == {x, y, z}
           l == <<x, y>> \o <<z>>
           r == <<x, y, z>>
<1>1. x \in S /\ y \in S /\ z \in S
  OBVIOUS
<1> HIDE DEF S
<1>2. <<x, y>> \in Seq(S) /\ <<z>> \in Seq(S) /\ r \in Seq(S)
  BY <1>1
<1>3. l \in Seq(S) /\ Len(l) = 3 /\ Len(r) = 3
  BY <1>1
<1>4. \A i \in 1..3 : l[i] = r[i]
  BY <1>1
<1>5. l = r
  <2> HIDE DEF l, r
  <2> QED BY <1>2, <1>3, <1>4, SeqEqual
<1>6. <<x>> \o <<y>> = <<x, y>>
  BY JoinOnes
<1>7. QED
  BY <1>5, <1>6, Zenon

LEMMA ClFirst ==
  /\ ClDoes(<<Flag("/c")>>, "", "")
  /\ ClDoes(<<Flag("/c"), Flag("/nologo"), Flag("/EHsc")>> \o <<<<"/I", "includes">>>>, "", "/EHsc")
  /\ Quiet(<<Flag("/c")>>)
  /\ Quiet(<<Flag("/c"), Flag("/nologo"), Flag("/EHsc")>> \o <<<<"/I", "includes">>>>)
<1>1. /\ ClDoes(<<Flag("/c")>>, "", "") /\ ClDoes(<<<<"/I", "includes">>>>, "", "")
      /\ Quiet(<<Flag("/c")>>) /\ Quiet(<<<<"/I", "includes">>>>)
      /\ <<<<"/I", "includes">>>> \in Seq(Arg)
  <2> DEFINE a == Flag("/c")
             b == <<"/I", "includes">>
  <2>1. a \in Arg /\ b \in Arg /\ a[1] = "/c" /\ b[1] = "/I"
    BY ClLiterals, FlagIs
  <2> HIDE DEF a, b
  <2>2. ClDoes(<<a>>, "", "") /\ ClDoes(<<b>>, "", "")
    BY <2>1, ClOther, Zenon
  <2>3. Quiet(<<a>>) /\ Quiet(<<b>>)
    BY <2>1, QuietOne, Zenon DEF IsWord
  <2>4. <<b>> \in Seq(Arg)
    BY <2>1
  <2>5. QED
    BY <2>2, <2>3, <2>4 DEF a, b
<1>2. ClDoes(<<Flag("/nologo")>>, "", "") /\ Quiet(<<Flag("/nologo")>>)
  <2>1. "/nologo" \in OtherFlags
    BY Zenon DEF OtherFlags
  <2>2. QED
    BY <2>1, Added, QuietFlag, Zenon
<1>3. ClDoes(<<Flag("/EHsc")>>, "", "/EHsc") /\ Quiet(<<Flag("/EHsc")>>)
  <2>1. "/EHsc" \in EhFlags
    BY Zenon DEF EhFlags
  <2>2. QED
    BY <2>1, ClEh, QuietFlag, Zenon
<1> DEFINE p == <<Flag("/c")>> \o <<Flag("/nologo")>>
<1>4. ClDoes(p, "", "")
  <2>1. ClDoes(p, Override("", ""), Override("", ""))
    BY <1>1, <1>2, ClBoth, Zenon
  <2>2. QED
    BY <2>1, Leaves, Zenon
<1>5. Quiet(p) /\ Quiet(p \o <<Flag("/EHsc")>>)
  <2>1. <<Flag("/nologo")>> \in Seq(Arg) /\ <<Flag("/EHsc")>> \in Seq(Arg)
    BY <1>2, <1>3, Zenon DEF ClDoes
  <2>2. Quiet(p)
    BY <1>1, <1>2, <2>1, QuietBoth, Zenon
  <2> HIDE DEF p
  <2>3. QED
    BY <1>3, <1>4, <2>1, <2>2, QuietBoth, Zenon
<1>6. ClDoes(p \o <<Flag("/EHsc")>>, "", "/EHsc")
  <2> HIDE DEF p
  <2>1. ClDoes(p \o <<Flag("/EHsc")>>, Override("", ""), Override("/EHsc", ""))
    BY <1>3, <1>4, ClBoth, Zenon
  <2>2. QED
    BY <2>1, Leaves, Zenon
<1>7. p \o <<Flag("/EHsc")>> = <<Flag("/c"), Flag("/nologo"), Flag("/EHsc")>>
  BY JoinThree, Zenon
<1> DEFINE q == <<Flag("/c"), Flag("/nologo"), Flag("/EHsc")>>
<1>8. ClDoes(q, "", "/EHsc") /\ Quiet(q)
  BY <1>6, <1>7, <1>5, Zenon
<1> HIDE DEF q
<1>9. ClDoes(q \o <<<<"/I", "includes">>>>, Override("", ""), Override("", "/EHsc"))
  BY <1>1, <1>8, ClBoth, Zenon
<1>10. ClDoes(q \o <<<<"/I", "includes">>>>, "", "/EHsc")
  BY <1>9, Leaves, Zenon
<1>11. Quiet(q \o <<<<"/I", "includes">>>>)
  BY <1>1, <1>8, QuietBoth, Zenon
<1>12. QED
  BY <1>1, <1>10, <1>11, Zenon DEF q

(* Both commands for cl.exe serve what the user asked for. *)
LEMMA ClServesKept ==
  ASSUME NEW k \in Seq(KeptItems), NEW s, s = MeantFrom(NoMeaning, k).settings
  PROVE  LET o == ChosenFor(s, OptKey)
             e == IF EhKey \in DOMAIN s THEN ChosenFor(s, EhKey) ELSE "/EHsc"
         IN /\ ClServes(msvcBuildArgs(Args(k), Word("source.i"), "output.obj"), o, e)
            /\ ClServes(msvcRawArgs(Args(k), Word("source.i"), "output.obj", TRUE), o, e)
            /\ Known(k) => /\ ClLone(msvcBuildArgs(Args(k), Word("source.i"), "output.obj"))
                           /\ ClLone(msvcRawArgs(Args(k), Word("source.i"), "output.obj", TRUE))
<1> DEFINE o == ChosenFor(s, OptKey)
           g == ChosenFor(s, EhKey)
           e == IF EhKey \in DOMAIN s THEN g ELSE "/EHsc"
           a == Args(k)
           tail == <<Word("source.i"), <<"/Fo", "output.obj">>>>
<1>1. PICK t, x : Carried(k, t, x)
  BY KeptCarried
<1>2. /\ t \in Seq(Arg) /\ x \in Seq(Arg)
      /\ Translating!Run(TranslateState(<<>>), a) = TranslateState(t)
      /\ Delivers(t, x, o, g)
      /\ HasEh(t) <=> EhKey \in DOMAIN s
      /\ EhKey \in DOMAIN s => g # ""
      /\ Known(k) => Quiet(x)
  BY <1>1, Zenon DEF Carried, Delivers
<1>3. TranslateToMSVC(a) = t
  <2> HIDE DEF a
  <2> QED BY <1>2, TranslationIsRun, Zenon
<1>4. EhKey \notin DOMAIN s => g = ""
  BY Zenon DEF ChosenFor
<1>5. Override(g, "/EHsc") = e
  BY <1>2, <1>4, Zenon DEF Override
<1> HIDE DEF o, g, e, a
<1>6. /\ ClServes(msvcBuildArgs(a, Word("source.i"), "output.obj"), o, e)
      /\ Quiet(x) => ClLone(msvcBuildArgs(a, Word("source.i"), "output.obj"))
  <2>1. PICK y : /\ Delivers(MSVCToCLFlags(t), y, o, Override(g, "/EHsc"))
                 /\ Quiet(x) => Quiet(y)
    BY <1>2, <1>4, ClAdded, Zenon
  <2>2. Delivers(MSVCToCLFlags(t), y, o, e)
    BY <1>5, <2>1, Zenon
  <2>3. msvcKept(MSVCToCLFlags(t)) = y
    BY <2>2, DeliveredIs, Zenon
  <2>4. msvcBuildArgs(a, Word("source.i"), "output.obj") = <<Flag("/c")>> \o y \o tail
    BY <1>3, <2>3, Zenon DEF msvcBuildArgs
  <2>5. ClDoes(<<Flag("/c")>> \o y, o, e)
    <3>1. ClDoes(<<Flag("/c")>> \o y, Override(o, ""), Override(e, ""))
      BY <2>2, ClFirst, ClBoth, Zenon DEF Delivers
    <3>2. QED
      BY <3>1, Leaves, Zenon
  <2>6. Quiet(x) => Quiet(<<Flag("/c")>> \o y)
    <3>1. y \in Seq(Arg)
      BY <2>2, Zenon DEF Delivers, ClDoes
    <3>2. QED
      BY <2>1, <3>1, ClFirst, QuietBoth, Zenon
  <2> DEFINE all == <<Flag("/c")>> \o y
  <2> HIDE DEF all
  <2>7. ClServes(all \o tail, o, e) /\ (Quiet(all) => ClLone(all \o tail))
    <3>1. ClDoes(all, o, e)
      BY <2>5 DEF all
    <3>2. QED
      BY <3>1, ClFinished
  <2>8. QED
    BY <2>4, <2>6, <2>7, Zenon DEF all
<1>7. /\ ClServes(msvcRawArgs(a, Word("source.i"), "output.obj", TRUE), o, e)
      /\ Quiet(x) => ClLone(msvcRawArgs(a, Word("source.i"), "output.obj", TRUE))
  <2> DEFINE pre == <<Flag("/c"), Flag("/nologo"), Flag("/EHsc")>> \o <<<<"/I", "includes">>>>
  <2>1. msvcKept(t) = x
    BY <1>2, DeliveredIs, Zenon
  <2>2. msvcRawArgs(a, Word("source.i"), "output.obj", TRUE) = pre \o x \o tail
    BY <1>3, <2>1, Zenon DEF msvcRawArgs
  <2>3. ClDoes(pre, "", "/EHsc") /\ Quiet(pre)
    BY ClFirst, Zenon
  <2> HIDE DEF pre
  <2>4. ClDoes(pre \o x, o, e)
    <3>1. ClDoes(pre \o x, Override(o, ""), Override(g, "/EHsc"))
      BY <1>2, <2>3, ClBoth, Zenon DEF Delivers
    <3>2. QED
      BY <1>5, <3>1, Leaves, Zenon
  <2>5. Quiet(x) => Quiet(pre \o x)
    BY <1>2, <2>3, QuietBoth, Zenon
  <2> DEFINE all == pre \o x
  <2> HIDE DEF all
  <2>6. ClServes(all \o tail, o, e) /\ (Quiet(all) => ClLone(all \o tail))
    <3>1. ClDoes(all, o, e)
      BY <2>4 DEF all
    <3>2. QED
      BY <3>1, ClFinished
  <2>7. QED
    BY <2>2, <2>5, <2>6, Zenon DEF all
<1>8. QED
  BY <1>2, <1>6, <1>7, Zenon DEF o, e, g, a

-----------------------------------------------------------------------------
(***************************************************************************)
(* The theorem about the commands.                                         *)
(***************************************************************************)

(* What hgbuild parses is what is meant for the compiler. *)
LEMMA ParsesWhatIsMeant ==
  ASSUME cmd \in Seq(Items)
  PROVE  /\ filterHgbuildFlags(Given) = ForCompiler
         /\ Given = Args(cmd) /\ ForCompiler = Meant(cmd) /\ Parsed = Parse(Meant(cmd))
<1>1. Given = Args(cmd)
  BY JoinRuns, Zenon DEF Given, Args
<1>2. ForCompiler = Meant(cmd)
  BY MeantRuns, Zenon DEF ForCompiler, MeantForCompiler, Meant
<1>3. filterHgbuildFlags(Args(cmd)) = Meant(cmd)
  BY FilterIsExact, Zenon
<1>4. QED
  BY <1>1, <1>2, <1>3, Zenon DEF Parsed

LEMMA ItemsWithin ==
  ASSUME cmd \in Seq(Items), NEW S, \A i \in Range(cmd) : i \in Items => i \in S
  PROVE  cmd \in Seq(S)
<1>1. Len(cmd) \in Nat /\ DOMAIN cmd = 1..Len(cmd) /\ cmd = [n \in 1..Len(cmd) |-> cmd[n]]
  OBVIOUS
<1>2. ASSUME NEW n \in 1..Len(cmd) PROVE cmd[n] \in S
  <2>1. cmd[n] \in Items
    OBVIOUS
  <2>2. cmd[n] \in Range(cmd)
    BY <1>1, Zenon DEF Range
  <2>3. QED
    BY <2>1, <2>2, Zenon
<1>3. QED
  BY <1>1, <1>2

LEMMA WithoutTaken ==
  ASSUME cmd \in Seq(Items), \A i \in Range(cmd) : ~TakenForInput(i)
  PROVE  \E u \in Seq(Units) : /\ Meant(cmd) = Args(u)
                               /\ (\A i \in Range(cmd) : ~StrayInput(i)) => Known(u)
<1> DEFINE S == {i \in Items : ~TakenForInput(i)}
           R == {i \in Items : ~TakenForInput(i) /\ ~StrayInput(i)}
<1>1. CASE \A i \in Range(cmd) : ~StrayInput(i)
  <2> DEFINE K == {i \in R : Name(i) \notin HgbuildFlags}
  <2>1. cmd \in Seq(R)
    <3>1. \A i \in Range(cmd) : i \in Items => i \in R
      BY <1>1, Zenon
    <3> HIDE DEF R
    <3>2. QED
      BY <3>1, ItemsWithin, Zenon
  <2>2. R \subseteq Items /\ K \subseteq Units /\ \A i \in K : ~StrayInput(i)
    BY Zenon DEF Units
  <2>3. PICK u \in Seq(K) : Meant(cmd) = Args(u)
    <3> HIDE DEF R
    <3>1. QED
      BY <2>1, <2>2, MeantIsArgs
  <2> HIDE DEF K
  <2>4. u \in Seq(Units) /\ \A n \in DOMAIN u : u[n] \in K
    BY <2>2
  <2>5. QED
    BY <2>2, <2>3, <2>4, Zenon DEF Known
<1>2. CASE ~\A i \in Range(cmd) : ~StrayInput(i)
  <2>1. cmd \in Seq(S)
    <3>1. \A i \in Range(cmd) : i \in Items => i \in S
      BY Zenon
    <3> HIDE DEF S
    <3>2. QED
      BY <3>1, ItemsWithin, Zenon
  <2>2. S \subseteq Items
    OBVIOUS
  <2>3. {i \in S : Name(i) \notin HgbuildFlags} = Units
    BY DEF Units
  <2> HIDE DEF S
  <2>4. PICK u \in Seq(Units) : Meant(cmd) = Args(u)
    BY <2>1, <2>2, <2>3, MeantIsArgs
  <2>5. QED
    BY <1>2, <2>4, Zenon
<1>3. QED
  BY <1>1, <1>2, Zenon

LEMMA CommandsServe ==
  ASSUME cmd \in Seq(Items)
  PROVE  CommandsFaithful
<1> DEFINE meant == Meaning(ForCompiler)
           src == Word("source.i")
           args == buildRemoteArgs(Parsed)
           raw == buildRemoteArgsForRaw(Parsed)
           unstrayed == \A i \in Range(cmd) : ~StrayInput(i)
           setting(k, default) == IF k \in DOMAIN meant.settings
                                  THEN GCCToMSVCFlags(meant.settings[k])[1][1] ELSE default
           good(run) == LET m == Meaning(run)
                        IN /\ m.settings = meant.settings
                           /\ m.stages = meant.stages
                           /\ m.deps = meant.deps
                           /\ m.inputs = <<<<src, "">>>>
                           /\ m.output = "output.o"
           fine(run) == LET m == ClMeaning(run)
                        IN /\ Last(m.inputs) = src
                           /\ unstrayed => m.inputs = <<src>>
                           /\ m.outputs = <<<<"/Fo", "output.obj">>>>
                           /\ m.opt = setting(Flag("-O"), "")
                           /\ m.eh = setting(<<"-f", "exceptions">>, "/EHsc")
<1>1. SUFFICES ASSUME \A i \in Range(cmd) : ~TakenForInput(i)
      PROVE  /\ meant.stages \subseteq {"-c"} =>
                  (IsDistributable(Parsed) <=>
                     /\ meant.stages = {"-c"}
                     /\ Len(meant.inputs) = 1 /\ isSourceFile(meant.inputs[1][1]))
             /\ Parse(ToArgs(Parsed)) = [Parsed EXCEPT !.pending = <<>>]
             /\ IsDistributable(Parsed) =>
                  /\ good(buildArgs(args, src, "output.o"))
                  /\ good(rawArgs(raw, src, "output.o", TRUE))
                  /\ good(buildCommand(args, src, "output.o"))
                  /\ good(buildRawCommand(raw, src, "output.o", <<"d">>))
                  /\ good(fallbackArgs(args, src, "output.o"))
                  /\ fine(msvcBuildArgs(args, src, "output.obj"))
                  /\ fine(msvcRawArgs(raw, src, "output.obj", TRUE))
  BY Zenon DEF CommandsFaithful
<1>2. PICK u \in Seq(Units) : Meant(cmd) = Args(u) /\ (unstrayed => Known(u))
  BY <1>1, WithoutTaken, Zenon
<1> HIDE DEF unstrayed
<1> DEFINE w == MeantFrom(NoMeaning, u)
           q == Parse(Args(u))
<1>3. Parsed = q
  BY <1>2, ParsesWhatIsMeant, Zenon
<1>4. meant = w
  <2>1. ForCompiler = Args(u)
    BY <1>2, ParsesWhatIsMeant, Zenon
  <2>2. QED
    BY <2>1, MeaningRuns, Zenon DEF Meaning, MeantFrom
<1> HIDE DEF meant, w, q
<1>5. IsDistributable(q) <=> "-c" \in w.stages /\ Len(w.inputs) = 1 /\ isSourceFile(w.inputs[1][1])
  BY Distributed, Zenon DEF q, w
<1>6. w.stages \subseteq {"-c"} => ("-c" \in w.stages <=> w.stages = {"-c"})
  BY Zenon
<1>7. Parse(ToArgs(q)) = [q EXCEPT !.pending = <<>>]
  <2>1. Parse(ToArgs(q)) = q /\ [q EXCEPT !.pending = <<>>] = q
    BY Reparses, Zenon DEF q
  <2>2. QED
    BY <2>1, Zenon
<1>8. PICK k \in Seq(KeptItems) :
        /\ Args(k) = buildRemoteArgsForRaw(q) /\ \A b : Blank(b) => Asks(k, b, w)
        /\ unstrayed => Known(k)
  <2>1. PICK k \in Seq(KeptItems) :
          /\ Args(k) = buildRemoteArgsForRaw(q) /\ \A b : Blank(b) => Asks(k, b, w)
          /\ Known(u) => Known(k)
    BY RemoteRaw DEF q, w
  <2>2. QED
    BY <1>2, <2>1, Zenon
<1>9. args = Args(k) /\ raw = Args(k)
  <2>1. buildRemoteArgs(q) = buildRemoteArgsForRaw(q)
    BY RemoteSame DEF q
  <2>2. QED
    BY <1>3, <1>8, <2>1, Zenon
<1> HIDE DEF args, raw
<1>10. ASSUME "-c" \in w.stages
       PROVE  /\ good(buildArgs(args, src, "output.o"))
              /\ good(rawArgs(raw, src, "output.o", TRUE))
              /\ good(buildCommand(args, src, "output.o"))
              /\ good(buildRawCommand(raw, src, "output.o", <<"d">>))
              /\ good(fallbackArgs(args, src, "output.o"))
  <2>1. \A run : Serves(run, w) => good(run)
    BY <1>4, Zenon DEF Serves
  <2> HIDE DEF good
  <2>2. QED
    BY <1>8, <1>9, <1>10, <2>1, GccServes, Zenon
<1>11. /\ fine(msvcBuildArgs(args, src, "output.obj"))
       /\ fine(msvcRawArgs(raw, src, "output.obj", TRUE))
  <2> DEFINE s == MeantFrom(NoMeaning, k).settings
             o == ChosenFor(s, OptKey)
             e == IF EhKey \in DOMAIN s THEN ChosenFor(s, EhKey) ELSE "/EHsc"
  <2>1. s = meant.settings
    <3>1. Blank(NoMeaning)
      BY StartsGood, Zenon DEF Blank, NoMeaning
    <3>2. Asks(k, NoMeaning, w)
      BY <1>8, <3>1, Zenon
    <3>3. QED
      BY <1>4, <3>2, Zenon DEF Asks
  <2>2. /\ ClServes(msvcBuildArgs(Args(k), src, "output.obj"), o, e)
        /\ ClServes(msvcRawArgs(Args(k), src, "output.obj", TRUE), o, e)
        /\ unstrayed => /\ ClLone(msvcBuildArgs(Args(k), src, "output.obj"))
                        /\ ClLone(msvcRawArgs(Args(k), src, "output.obj", TRUE))
    BY <1>8, ClServesKept, Zenon
  <2>3. o = setting(Flag("-O"), "") /\ e = setting(<<"-f", "exceptions">>, "/EHsc")
    BY <2>1, Zenon DEF ChosenFor, OptKey, EhKey
  <2> HIDE DEF o, e, s, setting
  <2>4. \A run : ClServes(run, o, e) /\ (unstrayed => ClLone(run)) => fine(run)
    BY <2>3, Zenon DEF ClServes, ClLone
  <2> HIDE DEF fine
  <2>5. QED
    BY <1>9, <2>2, <2>4, Zenon
<1> HIDE DEF good, fine, src
<1>12. QED
  BY <1>3, <1>4, <1>5, <1>6, <1>7, <1>10, <1>11, Zenon

(* Every command line is a sequence of items. *)
LEMMA CommandsInvariant == CmdSpec => [](cmd \in Seq(Items))
<1>1. CmdInit => cmd \in Seq(Items)
  BY CommandAssumption DEF CmdInit
<1>2. cmd \in Seq(Items) /\ [CmdNext]_cmd => (cmd \in Seq(Items))'
  BY DEF CmdNext
<1>3. QED
  BY <1>1, <1>2, PTL DEF CmdSpec

(* hgbuild hands the compiler exactly the arguments that are meant for it: its own    *)
(* flags are gone with their values, joined or separate, and nothing else is          *)
(* (filterHgbuildFlags).                                                              *)
THEOREM OwnFlagsRemoved == CmdSpec => [](filterHgbuildFlags(Given) = ForCompiler)
<1>1. cmd \in Seq(Items) => filterHgbuildFlags(Given) = ForCompiler
  BY ParsesWhatIsMeant
<1>2. QED
  BY <1>1, CommandsInvariant, PTL

(* For command lines of any length and any items a user may write, provided no value  *)
(* that the parser does not know looks like a file: unless -E or -S is given, a       *)
(* command is distributed exactly when gcc would compile one source file; ToArgs      *)
(* parses back to itself; what the native and container executors and the fallback    *)
(* run has the user's settings, stages and dependency flags, the executor's source as *)
(* its one input, without a language, and its output.  To cl.exe that source is the   *)
(* last input, and the only one unless -include, -isystem, -MF or -MT has a value of  *)
(* its own; its output and the choices of optimization and exception model are right. *)
THEOREM CommandsAreFaithful == CmdSpec => []CommandsFaithful
<1>1. cmd \in Seq(Items) => CommandsFaithful
  BY CommandsServe
<1>2. QED
  BY <1>1, CommandsInvariant, PTL

-----------------------------------------------------------------------------
(***************************************************************************)
(* The preprocessor: settings, standards and macros, one flag at a time.   *)
(***************************************************************************)

(* Settings stand under their own keys. *)
Keyed(f) == \A k \in DOMAIN f : SettingOf(f[k]) = k

(* The standard that the settings f choose is s. *)
StdIs(f, s) == IF Std \in DOMAIN f THEN f[Std] = <<"-std=", s>> ELSE s = ""

(* f and g choose the same -f flags. *)
FSame(f, g) ==
  \A k : k[1] = "-f" => /\ k \in DOMAIN f <=> k \in DOMAIN g
                        /\ k \in DOMAIN f => f[k] = g[k]

(* The macros f are defined when they are in D, and undefined otherwise. *)
Kinded(f, D) == IsFun(f) /\ \A x \in DOMAIN f : f[x] = IF x \in D THEN "-D" ELSE "-U"

LEMMA SetDomain ==
  ASSUME NEW f, NEW k, NEW v PROVE DOMAIN Set(f, k, v) = DOMAIN f \cup {k}
BY DEF Set

LEMMA KeyedSet == ASSUME NEW f, Keyed(f), NEW a PROVE Keyed(Set(f, SettingOf(a), a))
<1> DEFINE j == SettingOf(a)
           g == Set(f, j, a)
<1>1. ASSUME NEW k \in DOMAIN g PROVE SettingOf(g[k]) = k
  <2>1. CASE k = j
    <3>1. g[j] = a
      BY SetHas
    <3>2. QED
      BY <2>1, <3>1, Zenon
  <2>2. CASE k # j
    <3>1. k \in DOMAIN f /\ g[k] = f[k]
      BY <2>2, SetKeeps
    <3>2. QED
      BY <3>1, Zenon DEF Keyed
  <2>3. QED
    BY <2>1, <2>2
<1>2. QED
  BY <1>1, Zenon DEF Keyed

LEMMA StdHere ==
  ASSUME NEW f, NEW a, NEW v, a[1] = "-std=", a = <<"-std=", v>>
  PROVE  StdIs(Set(f, SettingOf(a), a), v)
<1>1. SettingOf(a) = Std
  BY SettingKeys, Zenon DEF Std
<1>2. Std \in DOMAIN Set(f, Std, a) /\ Set(f, Std, a)[Std] = a
  BY SetHas
<1>3. QED
  BY <1>1, <1>2, Zenon DEF StdIs

LEMMA StdElsewhere ==
  ASSUME NEW f, NEW a, NEW s, a[1] # "-std=", StdIs(f, s)
  PROVE  StdIs(Set(f, SettingOf(a), a), s)
<1> DEFINE k == SettingOf(a)
<1>1. k # Std
  BY OtherKeys, Zenon DEF Std
<1> HIDE DEF k
<1>2. /\ Std \in DOMAIN Set(f, k, a) <=> Std \in DOMAIN f
      /\ Std \in DOMAIN f => Set(f, k, a)[Std] = f[Std]
  BY <1>1, SetKeeps
<1>3. QED
  BY <1>2, Zenon DEF StdIs, k

LEMMA FKeys ==
  ASSUME NEW a
  PROVE  /\ SettingOf(a)[1] = "-f" <=> a[1] \in {"-f", "-fno-"}
<1>1. CASE a[1] \in {"-f", "-fno-"}
  <2>1. SettingOf(a) = <<"-f", a[2]>>
    BY <1>1, SettingKeys, Zenon
  <2>2. <<"-f", a[2]>>[1] = "-f"
    OBVIOUS
  <2>3. QED
    BY <1>1, <2>1, <2>2, Zenon
<1>2. CASE a[1] \in {"-O", "-std=", "-g"}
  <2>1. SettingOf(a) = Flag(a[1])
    BY <1>2, SettingKeys, Zenon
  <2>2. Flag(a[1])[1] = a[1]
    BY FlagIs
  <2>3. QED
    BY <1>2, <2>1, <2>2, Zenon
<1>3. CASE a[1] \notin {"-O", "-std=", "-g", "-f", "-fno-"}
  <2>1. SettingOf(a) = a
    BY <1>3, SettingKeys, Zenon
  <2>2. QED
    BY <1>3, <2>1, Zenon
<1>4. QED
  BY <1>1, <1>2, <1>3, Zenon

LEMMA FSameBoth ==
  ASSUME NEW f, NEW g, FSame(f, g), NEW k, NEW a
  PROVE  FSame(Set(f, k, a), Set(g, k, a))
<1> SUFFICES ASSUME NEW x, x[1] = "-f"
             PROVE  /\ x \in DOMAIN Set(f, k, a) <=> x \in DOMAIN Set(g, k, a)
                    /\ x \in DOMAIN Set(f, k, a) => Set(f, k, a)[x] = Set(g, k, a)[x]
  BY Zenon DEF FSame
<1>1. CASE x = k
  <2>1. /\ k \in DOMAIN Set(f, k, a) /\ Set(f, k, a)[k] = a
        /\ k \in DOMAIN Set(g, k, a) /\ Set(g, k, a)[k] = a
    BY SetHas
  <2>2. QED
    BY <1>1, <2>1, Zenon
<1>2. CASE x # k
  <2>1. /\ x \in DOMAIN Set(f, k, a) <=> x \in DOMAIN f
        /\ x \in DOMAIN f => Set(f, k, a)[x] = f[x]
        /\ x \in DOMAIN Set(g, k, a) <=> x \in DOMAIN g
        /\ x \in DOMAIN g => Set(g, k, a)[x] = g[x]
    BY <1>2, SetKeeps
  <2>2. QED
    BY <2>1, Zenon DEF FSame
<1>3. QED
  BY <1>1, <1>2

LEMMA FSameOther ==
  ASSUME NEW f, NEW g, FSame(f, g), NEW k, k[1] # "-f", NEW a
  PROVE  FSame(f, Set(g, k, a)) /\ FSame(Set(f, k, a), g)
<1>1. ASSUME NEW h, NEW x, x[1] = "-f"
      PROVE  /\ x \in DOMAIN Set(h, k, a) <=> x \in DOMAIN h
             /\ x \in DOMAIN h => Set(h, k, a)[x] = h[x]
  <2>1. x # k
    BY <1>1, Zenon
  <2>2. QED
    BY <2>1, SetKeeps
<1>2. QED
  BY <1>1, ZenonT(60) DEF FSame

LEMMA FSetSame ==
  ASSUME NEW f, NEW g, FSame(f, g), Keyed(f), Keyed(g)
  PROVE  {x \in Range(f) : x[1] \in {"-f", "-fno-"}} = {x \in Range(g) : x[1] \in {"-f", "-fno-"}}
<1>1. ASSUME NEW h, NEW l, FSame(h, l) \/ FSame(l, h), Keyed(h), NEW x \in Range(h), x[1] \in {"-f", "-fno-"}
      PROVE  x \in Range(l)
  <2>1. PICK k \in DOMAIN h : x = h[k]
    BY DEF Range
  <2>2. k = SettingOf(x)
    BY <1>1, <2>1, Zenon DEF Keyed
  <2>3. k[1] = "-f"
    BY <1>1, <2>2, FKeys, Zenon
  <2>4. k \in DOMAIN l /\ l[k] = x
    BY <1>1, <2>1, <2>3, Zenon DEF FSame
  <2>5. QED
    BY <2>4, Zenon DEF Range
<1>2. QED
  BY <1>1, Zenon

LEMMA KindedSet ==
  ASSUME NEW f, NEW D, Kinded(f, D), NEW x, NEW k, k = IF x \in D THEN "-D" ELSE "-U"
  PROVE  Kinded(Set(f, x, k), D)
<1> DEFINE g == Set(f, x, k)
<1>1. IsFun(g)
  BY DEF IsFun, Set
<1>2. ASSUME NEW y \in DOMAIN g PROVE g[y] = IF y \in D THEN "-D" ELSE "-U"
  <2>1. CASE y = x
    <3>1. g[x] = k
      BY SetHas
    <3>2. QED
      BY <2>1, <3>1, Zenon
  <2>2. CASE y # x
    <3>1. y \in DOMAIN f /\ g[y] = f[y]
      BY <2>2, SetKeeps
    <3>2. QED
      BY <3>1, Zenon DEF Kinded
  <2>3. QED
    BY <2>1, <2>2
<1> HIDE DEF g
<1>3. Kinded(g, D)
  BY <1>1, <1>2, Zenon DEF Kinded
<1>4. QED
  BY <1>3 DEF g

LEMMA KindedSame ==
  ASSUME NEW f, NEW g, NEW D, Kinded(f, D), Kinded(g, D), DOMAIN f = DOMAIN g
  PROVE  f = g
<1>1. f = [x \in DOMAIN f |-> f[x]] /\ g = [x \in DOMAIN f |-> g[x]]
  BY Zenon DEF Kinded, IsFun
<1>2. \A x \in DOMAIN f : f[x] = g[x]
  BY Zenon DEF Kinded
<1>3. QED
  BY <1>1, <1>2

LEMMA NothingSet ==
  /\ Keyed(<<>>) /\ StdIs(<<>>, "") /\ FSame(<<>>, <<>>)
  /\ \A D : Kinded(<<>>, D)
<1>1. DOMAIN <<>> = {} /\ IsFun(<<>>)
  BY DEF IsFun
<1>2. QED
  BY <1>1, Zenon DEF Keyed, StdIs, FSame, Kinded

-----------------------------------------------------------------------------
(***************************************************************************)
(* Command lines whose values the parser knows, and on which no macro is both*)
(* defined and undefined.                                                  *)
(***************************************************************************)

(* Items whose values the parser knows, none of which is a macro both defined and *)
(* undefined.                                                                     *)
Defs(V) == {Val(i) : i \in {j \in V : Name(j) = "-D"}}
Calm(V) ==
  /\ V \subseteq Units
  /\ \A i \in V : ~UnknownValue(i) /\ (Name(i) = "-U" => Val(i) \notin Defs(V))

LEMMA CalmKept ==
  ASSUME NEW V, Calm(V), NEW i \in V, IsKept(i)
  PROVE  /\ i = <<i[1]>> /\ Plain(i[1]) /\ i[1] \in Arg /\ Name(i) # "-isystem"
         /\ i[1][1] = Name(i) /\ i[1][2] = Val(i) /\ i[1] = <<Name(i), Val(i)>>
<1>1. KeptItem(i) /\ ~UnknownValue(i)
  BY KeptUnits DEF Calm, KeptItems
<1>2. ~\E f, v \in Text : f \in Unknown /\ i = <<Flag(f), Word(v)>>
  <2>1. ASSUME NEW f, NEW v, f \in Unknown, i = <<Flag(f), Word(v)>> PROVE FALSE
    <3>1. Len(i) = 2 /\ i[1] = Flag(f)
      BY <2>1
    <3>2. i[1][1] = f
      BY <3>1, FlagIs, Zenon
    <3>3. UnknownValue(i)
      BY <2>1, <3>1, <3>2, Zenon DEF UnknownValue, Unknown
    <3>4. QED
      BY <1>1, <3>3
  <2>2. QED
    BY <2>1
<1>3. PICK a \in Arg : i = <<a>> /\ Plain(a)
  BY <1>1, <1>2, Zenon DEF KeptItem
<1>4. i[1] = a /\ i = <<i[1]>>
  BY <1>3
<1>5. a = <<a[1], a[2]>>
  BY ArgIs, Zenon
<1>6. a[1] # "-isystem"
  BY <1>3, Zenon DEF Plain, IsLoneFlag
<1>7. QED
  BY <1>3, <1>4, <1>5, <1>6, OneIs, Zenon

LEMMA CalmNames ==
  ASSUME NEW V, Calm(V), NEW i \in V
  PROVE  Name(i) # "-isystem" /\ (Name(i) = "-D" => Val(i) \in Defs(V))
<1>1. Name(i) = "-isystem" => IsKept(i)
  BY Zenon DEF IsKept, Taken
<1>2. Name(i) # "-isystem"
  BY <1>1, CalmKept, Zenon
<1>3. QED
  BY <1>2 DEF Defs

(* What the parser has collected, and what the user's arguments mean. *)
UserSide(p, w, D) ==
  /\ w.dirs = Joined("-I", p.includeDirs) /\ w.lang = p.language
  /\ StdIs(w.settings, p.standard) /\ Keyed(w.settings)
  /\ Kinded(w.macros, D) /\ p.defines \in Seq(D) /\ Range(p.defines) \subseteq DOMAIN w.macros

LEMMA UserItem ==
  ASSUME NEW V, Calm(V), NEW p, Collected(p), NEW w, UserSide(p, w, Defs(V)), NEW i \in V
  PROVE  UserSide(ParseItem(p, i), MeanItem(w, i), Defs(V))
<1> DEFINE q == ParseItem(p, i)
           r == MeanItem(w, i)
           D == Defs(V)
<1>1. q.includeDirs = IF Name(i) = "-I" THEN Append(p.includeDirs, Val(i)) ELSE p.includeDirs
  BY ParseItemFields, Zenon
<1>2. q.defines = IF Name(i) = "-D" THEN Append(p.defines, Val(i)) ELSE p.defines
  BY ParseItemFields, ZenonT(60)
<1>3. q.language = IF Name(i) = "-x" THEN Val(i) ELSE p.language
  BY ParseItemFields, ZenonT(60)
<1>4. q.standard = IF Name(i) = "-std=" THEN Val(i) ELSE p.standard
  BY ParseItemFields, ZenonT(60)
<1>5. r.dirs = IF Name(i) \in {"-I", "-isystem"} THEN Append(w.dirs, <<Name(i), Val(i)>>) ELSE w.dirs
  BY MeanItemFields, Zenon
<1>6. r.lang = IF Name(i) = "-x" THEN Val(i) ELSE w.lang
  BY MeanItemFields, Zenon
<1>7. r.settings = IF IsSetting(i) THEN Set(w.settings, SettingOf(i[1]), i[1]) ELSE w.settings
  BY MeanItemFields, ZenonT(60)
<1>8. r.macros = IF Name(i) \in {"-D", "-U"} THEN Set(w.macros, Val(i), Name(i)) ELSE w.macros
  BY MeanItemFields, Zenon
<1>9. /\ Name(i) # "-isystem" /\ (Name(i) = "-D" => Val(i) \in D)
      /\ Name(i) = "-U" => Val(i) \notin D
  BY CalmNames, Zenon DEF Calm
<1> HIDE DEF q, r, D
<1>10. r.dirs = Joined("-I", q.includeDirs)
  <2>1. w.dirs = Joined("-I", p.includeDirs)
    BY DEF UserSide
  <2>2. CASE Name(i) = "-I"
    <3>1. p.includeDirs \in Seq(Words) /\ Val(i) \in Words
      <4>1. Val(i) \in Words
        BY <2>2, TakenVal, Zenon DEF Calm, Taken
      <4>2. QED
        BY <4>1, Zenon DEF Collected
    <3>2. Joined("-I", Append(p.includeDirs, Val(i))) = Append(Joined("-I", p.includeDirs), <<"-I", Val(i)>>)
      BY <3>1, JoinedGrows
    <3>3. QED
      BY <1>1, <1>5, <2>1, <2>2, <3>2, Zenon
  <2>3. CASE Name(i) # "-I"
    BY <1>1, <1>5, <1>9, <2>1, <2>3, Zenon
  <2>4. QED
    BY <2>2, <2>3
<1>11. r.lang = q.language
  <2>1. w.lang = p.language
    BY DEF UserSide
  <2>2. CASE Name(i) = "-x"
    BY <1>3, <1>6, <2>2, Zenon
  <2>3. CASE Name(i) # "-x"
    BY <1>3, <1>6, <2>1, <2>3, Zenon
  <2>4. QED
    BY <2>2, <2>3
<1>12. StdIs(r.settings, q.standard)
  <2>1. StdIs(w.settings, p.standard)
    BY DEF UserSide
  <2>2. CASE Name(i) = "-std="
    <3>1. IsSetting(i) /\ IsKept(i)
      BY <2>2, Zenon DEF IsSetting, GccValueFlags, IsKept, Taken
    <3>2. i[1][1] = "-std=" /\ i[1] = <<"-std=", Val(i)>>
      BY <2>2, <3>1, CalmKept, Zenon
    <3>3. StdIs(Set(w.settings, SettingOf(i[1]), i[1]), Val(i))
      BY <3>2, StdHere, Zenon
    <3>4. QED
      BY <1>4, <1>7, <2>2, <3>1, <3>3, Zenon
  <2>3. CASE Name(i) # "-std="
    <3>1. StdIs(Set(w.settings, SettingOf(i[1]), i[1]), p.standard)
      BY <2>1, <2>3, StdElsewhere, Zenon DEF Name
    <3>2. QED
      BY <1>4, <1>7, <2>1, <2>3, <3>1, Zenon
  <2>4. QED
    BY <2>2, <2>3
<1>13. Keyed(r.settings)
  <2>1. Keyed(w.settings)
    BY DEF UserSide
  <2>2. QED
    BY <1>7, <2>1, KeyedSet, Zenon
<1>14. Kinded(r.macros, D)
  <2>1. Kinded(w.macros, D)
    BY DEF UserSide, D
  <2>2. Name(i) \in {"-D", "-U"} => Name(i) = IF Val(i) \in D THEN "-D" ELSE "-U"
    BY <1>9, Zenon
  <2>3. QED
    BY <1>8, <2>1, <2>2, KindedSet, Zenon
<1>15. q.defines \in Seq(D)
  <2>1. p.defines \in Seq(D)
    BY DEF UserSide, D
  <2>2. CASE Name(i) = "-D"
    <3>1. Append(p.defines, Val(i)) \in Seq(D)
      BY <1>9, <2>1, <2>2
    <3>2. QED
      BY <1>2, <2>2, <3>1, Zenon
  <2>3. CASE Name(i) # "-D"
    BY <1>2, <2>1, <2>3, Zenon
  <2>4. QED
    BY <2>2, <2>3
<1>16. Range(q.defines) \subseteq DOMAIN r.macros
  <2>1. p.defines \in Seq(D) /\ Range(p.defines) \subseteq DOMAIN w.macros
    BY DEF UserSide, D
  <2>2. DOMAIN w.macros \subseteq DOMAIN r.macros
    <3>1. \A k, x : DOMAIN w.macros \subseteq DOMAIN Set(w.macros, k, x)
      BY DEF Set
    <3>2. QED
      BY <1>8, <3>1, Zenon
  <2>3. CASE Name(i) = "-D"
    <3>1. Range(Append(p.defines, Val(i))) = Range(p.defines) \cup {Val(i)}
      <4> DEFINE d == p.defines
                 v == Val(i)
      <4>1. d \in Seq(D) /\ v \in D /\ <<v>> \in Seq(D)
        BY <1>9, <2>1, <2>3
      <4> HIDE DEF d, v
      <4>2. Append(d, v) = d \o <<v>> /\ Range(<<v>>) = {v}
        BY <4>1 DEF Range
      <4>3. Range(d \o <<v>>) = Range(d) \cup Range(<<v>>)
        BY <4>1, RangeBoth, ZenonT(60)
      <4>4. QED
        BY <4>2, <4>3, Zenon DEF d, v
    <3>2. r.macros = Set(w.macros, Val(i), "-D")
      BY <1>8, <2>3, Zenon
    <3>0. Val(i) \in DOMAIN Set(w.macros, Val(i), "-D")
      BY DEF Set
    <3>3. Val(i) \in DOMAIN r.macros
      BY <3>0, <3>2, Zenon
    <3>4. q.defines = Append(p.defines, Val(i))
      BY <1>2, <2>3, Zenon
    <3>5. QED
      BY <2>1, <2>2, <3>1, <3>3, <3>4, Zenon
  <2>4. CASE Name(i) # "-D"
    BY <1>2, <2>1, <2>2, <2>4, Zenon
  <2>5. QED
    BY <2>3, <2>4
<1>17. QED
  BY <1>10, <1>11, <1>12, <1>13, <1>14, <1>15, <1>16, Zenon DEF UserSide, q, r, D

(* Both follow the same items. *)
LEMMA CalmGrows ==
  ASSUME NEW V, Calm(V), NEW u \in Seq(V), NEW i \in V
  PROVE  /\ u \in Seq(Units) /\ i \in Units
         /\ ParsedFrom(NothingParsed, Append(u, i)) = ParseItem(ParsedFrom(NothingParsed, u), i)
         /\ MeantFrom(NoMeaning, Append(u, i)) = MeanItem(MeantFrom(NoMeaning, u), i)
<1>1. V \subseteq Units
  BY DEF Calm
<1>2. u \in Seq(Units) /\ i \in Units
  BY <1>1
<1>3. ParsedFrom(NothingParsed, Append(u, i)) = ParseItem(ParsedFrom(NothingParsed, u), i)
  BY <1>2, StartsGood, ParsedGood, ParsedStep, Zenon
<1>4. MeantFrom(NoMeaning, Append(u, i)) = MeanItem(MeantFrom(NoMeaning, u), i)
  BY <1>2, StartsGood, UnitsMean, Zenon
<1>5. QED
  BY <1>2, <1>3, <1>4

LEMMA UserSees ==
  ASSUME NEW V, Calm(V), NEW u \in Seq(V)
  PROVE  UserSide(ParsedFrom(NothingParsed, u), MeantFrom(NoMeaning, u), Defs(V))
<1> DEFINE G == {t \in Seq(V) : UserSide(ParsedFrom(NothingParsed, t), MeantFrom(NoMeaning, t), Defs(V))}
<1>1. <<>> \in G
  <2>1. <<>> \in Seq(V) /\ <<>> \in Seq(Defs(V)) /\ Range(<<>>) = {} /\ Joined("-I", <<>>) = <<>>
    BY DEF Range, Joined
  <2>2. /\ NothingParsed.includeDirs = <<>> /\ NothingParsed.defines = <<>> /\ NothingParsed.language = ""
        /\ NothingParsed.standard = ""
    BY Zenon DEF NothingParsed
  <2>3. /\ NoMeaning.dirs = <<>> /\ NoMeaning.lang = "" /\ NoMeaning.settings = <<>> /\ NoMeaning.macros = <<>>
    BY Zenon DEF NoMeaning
  <2>4. UserSide(NothingParsed, NoMeaning, Defs(V))
    BY <2>1, <2>2, <2>3, NothingSet, Zenon DEF UserSide
  <2>5. QED
    BY <2>1, <2>4, ParsedStart, MeantStart, Zenon
<1>2. ASSUME NEW t \in Seq(V), NEW i \in V, t \in G PROVE Append(t, i) \in G
  <2>1. Append(t, i) \in Seq(V)
    OBVIOUS
  <2>2. Collected(ParsedFrom(NothingParsed, t))
    BY CalmGrows, ParserCollects, Zenon
  <2>3. UserSide(ParseItem(ParsedFrom(NothingParsed, t), i), MeanItem(MeantFrom(NoMeaning, t), i), Defs(V))
    BY <1>2, <2>2, UserItem, Zenon
  <2>4. QED
    BY <2>1, <2>3, CalmGrows, Zenon
<1>3. u \in G
  <2> HIDE DEF G
  <2> QED BY <1>1, <1>2, SeqGrows
<1>4. QED
  BY <1>3

-----------------------------------------------------------------------------
(***************************************************************************)
(* The flags that the preprocessor is given.                               *)
(***************************************************************************)

Previewing == INSTANCE FoldFacts WITH Op <- PreprocessStep

LEMMA PreviewRuns == ASSUME NEW b, NEW s PROVE FoldLeft(PreprocessStep, b, s) = Previewing!Run(b, s)
BY Zenon DEF Previewing!Run, Previewing!Table, Previewing!IsTable, Previewing!Top, FoldLeft, MapThenFoldSet, Max

(* The flags that the preprocessor is given. *)
Seen(u) == Previewing!Run(<<>>, FlagsOf(u))
IsSeen(i) == IsKept(i) /\ isPreprocessingFlag(i[1])

LEMMA SeenGrows ==
  ASSUME NEW V, Calm(V), NEW u \in Seq(V), NEW i \in V
  PROVE  /\ Seen(u) \in Seq(Arg)
         /\ Seen(Append(u, i)) = IF IsSeen(i) THEN Seen(u) \o i ELSE Seen(u)
<1>1. u \in Seq(Units) /\ i \in Units
  BY CalmGrows, Zenon
<1>2. FlagsOf(u) \in Seq(Arg) /\ FlagsOf(Append(u, i)) = IF IsKept(i) THEN FlagsOf(u) \o i ELSE FlagsOf(u)
  BY <1>1, FlagsGrow, Zenon
<1>3. Seen(u) \in Seq(Arg)
  <2> DEFINE f == FlagsOf(u)
             S == Seq(Arg)
  <2>1. f \in Seq(Arg) /\ <<>> \in S
    BY <1>2
  <2>2. \A v \in S, a \in Arg : PreprocessStep(v, a) \in S
    BY DEF PreprocessStep
  <2> HIDE DEF f, S
  <2>3. Previewing!Run(<<>>, f) \in S
    BY <2>1, <2>2, Previewing!RunKeeps
  <2>4. QED
    BY <2>3 DEF f, S, Seen
<1>4. CASE IsKept(i)
  <2>1. i = <<i[1]>> /\ i[1] \in Arg
    BY <1>4, CalmKept, Zenon
  <2> DEFINE f == FlagsOf(u)
             a == i[1]
  <2>2. f \in Seq(Arg) /\ a \in Arg
    BY <1>2, <2>1
  <2>3. FlagsOf(Append(u, i)) = f \o <<a>>
    BY <1>2, <1>4, <2>1, Zenon
  <2> HIDE DEF f, a
  <2>4. f \o <<a>> = Append(f, a)
    BY <2>2, ConcatOne
  <2>5. Previewing!Run(<<>>, Append(f, a)) = PreprocessStep(Previewing!Run(<<>>, f), a)
    BY <2>2, Previewing!RunAppend
  <2>6. Seen(Append(u, i)) = PreprocessStep(Seen(u), a)
    BY <2>3, <2>4, <2>5, Zenon DEF Seen, f
  <2>7. Append(Seen(u), a) = Seen(u) \o <<a>>
    BY <1>3, <2>2, ConcatOne
  <2>8. Seen(u) \o <<a>> = Seen(u) \o i
    BY <2>1, Zenon DEF a
  <2>9. QED
    BY <1>3, <1>4, <2>6, <2>7, <2>8, Zenon DEF PreprocessStep, IsSeen, a
<1>5. CASE ~IsKept(i)
  BY <1>2, <1>3, <1>5, Zenon DEF Seen, IsSeen
<1>6. QED
  BY <1>4, <1>5

(* What the preprocessor makes of the flags it sees after b, where D are the macros *)
(* defined and s is the standard.                                                   *)
SeenSide(r, b, D, s) ==
  /\ GoodM(r) /\ r.dirs = b.dirs /\ r.lang = b.lang /\ r.inputs = b.inputs
  /\ b.stages \subseteq r.stages /\ DOMAIN b.macros \subseteq DOMAIN r.macros
  /\ Kinded(r.macros, D) /\ Keyed(r.settings) /\ StdIs(r.settings, s)

(* What it sees of the user's arguments w, ds being the definitions given apart. *)
SeesAll(r, b, w, ds) ==
  /\ r.forced = w.forced
  /\ DOMAIN r.macros \subseteq DOMAIN b.macros \cup DOMAIN w.macros
  /\ DOMAIN w.macros \subseteq Range(ds) \cup DOMAIN r.macros
  /\ FSame(r.settings, w.settings)

SeenNames == {"-U", "-include", "-imacros", "-idirafter", "-iprefix", "-nostdinc", "-trigraphs",
              "-fno-", "-f", "-ansi", "-traditional"}

LEMMA SeenName ==
  ASSUME NEW V, Calm(V), NEW i \in V
  PROVE  IsSeen(i) <=> Name(i) \in SeenNames
<1>1. Name(i) # "-isystem"
  BY CalmNames, Zenon
<1>2. Name(i) \in SeenNames => IsKept(i)
  BY Zenon DEF SeenNames, IsKept, Taken
<1>3. QED
  BY <1>1, <1>2, Zenon DEF IsSeen, isPreprocessingFlag, SeenNames, Name

LEMMA SeenItem ==
  ASSUME NEW V, Calm(V), NEW b, NEW s, NEW r, SeenSide(r, b, Defs(V), s), NEW i \in V, IsSeen(i)
  PROVE  SeenSide(MeanItem(r, i), b, Defs(V), s)
<1> DEFINE x == MeanItem(r, i)
           D == Defs(V)
<1>1. Name(i) \in SeenNames
  BY SeenName, Zenon
<1>2. Name(i) \notin {"", "-x", "-c", "-S", "-E", "-I", "-isystem", "-D", "-std="}
  BY <1>1, Zenon DEF SeenNames
<1>3. GoodM(x) /\ x.inputs = r.inputs
  BY <1>2, MeanItemFields, Zenon
<1>4. x.lang = r.lang
  BY <1>2, MeanItemFields, Zenon
<1>5. x.stages = r.stages
  BY <1>2, MeanItemFields, ZenonT(60)
<1>6. x.dirs = r.dirs
  BY <1>2, MeanItemFields, ZenonT(60)
<1>7. x.macros = IF Name(i) \in {"-D", "-U"} THEN Set(r.macros, Val(i), Name(i)) ELSE r.macros
  BY MeanItemFields, Zenon
<1>8. x.settings = IF IsSetting(i) THEN Set(r.settings, SettingOf(i[1]), i[1]) ELSE r.settings
  BY MeanItemFields, ZenonT(60)
<1>9. Name(i) = "-U" => Val(i) \notin D
  BY Zenon DEF Calm
<1> HIDE DEF x, D
<1>10. Kinded(x.macros, D) /\ DOMAIN b.macros \subseteq DOMAIN x.macros
  <2>1. Kinded(r.macros, D) /\ DOMAIN b.macros \subseteq DOMAIN r.macros
    BY Zenon DEF SeenSide, D
  <2>2. CASE Name(i) = "-U"
    <3>1. x.macros = Set(r.macros, Val(i), "-U")
      BY <1>7, <2>2, Zenon
    <3>2. "-U" = IF Val(i) \in D THEN "-D" ELSE "-U"
      BY <1>9, <2>2, Zenon
    <3>3. Kinded(Set(r.macros, Val(i), "-U"), D)
      BY <2>1, <3>2, KindedSet, Zenon
    <3>4. DOMAIN r.macros \subseteq DOMAIN Set(r.macros, Val(i), "-U")
      BY DEF Set
    <3>5. QED
      BY <2>1, <3>1, <3>3, <3>4, Zenon
  <2>3. CASE Name(i) # "-U"
    <3>1. x.macros = r.macros
      BY <1>2, <1>7, <2>3, Zenon
    <3>2. QED
      BY <2>1, <3>1, Zenon
  <2>4. QED
    BY <2>2, <2>3
<1>11. Keyed(x.settings) /\ StdIs(x.settings, s)
  <2>1. Keyed(r.settings) /\ StdIs(r.settings, s)
    BY Zenon DEF SeenSide
  <2>2. i[1][1] # "-std="
    BY <1>2, Zenon DEF Name
  <2>3. Keyed(Set(r.settings, SettingOf(i[1]), i[1]))
    BY <2>1, KeyedSet, Zenon
  <2>4. StdIs(Set(r.settings, SettingOf(i[1]), i[1]), s)
    BY <2>1, <2>2, StdElsewhere, Zenon
  <2>5. QED
    BY <1>8, <2>1, <2>3, <2>4, Zenon
<1>12. /\ r.dirs = b.dirs /\ r.lang = b.lang /\ r.inputs = b.inputs /\ b.stages \subseteq r.stages
  BY Zenon DEF SeenSide
<1>13. QED
  BY <1>3, <1>4, <1>5, <1>6, <1>10, <1>11, <1>12, Zenon DEF SeenSide, x, D

(* An item that the preprocessor is given. *)
LEMMA SeesGiven ==
  ASSUME NEW V, Calm(V), NEW b, NEW r, NEW w, NEW ds, SeesAll(r, b, w, ds), NEW i \in V, IsSeen(i)
  PROVE  SeesAll(MeanItem(r, i), b, MeanItem(w, i), ds)
<1> DEFINE x == MeanItem(r, i)
           y == MeanItem(w, i)
           n == Name(i)
           v == Val(i)
<1>1. x.forced = IF n = "-include" THEN Append(r.forced, v) ELSE r.forced
  BY MeanItemFields, Zenon
<1>2. y.forced = IF n = "-include" THEN Append(w.forced, v) ELSE w.forced
  BY MeanItemFields, Zenon
<1>3. x.macros = IF n \in {"-D", "-U"} THEN Set(r.macros, v, n) ELSE r.macros
  BY MeanItemFields, Zenon
<1>4. y.macros = IF n \in {"-D", "-U"} THEN Set(w.macros, v, n) ELSE w.macros
  BY MeanItemFields, Zenon
<1>5. x.settings = IF IsSetting(i) THEN Set(r.settings, SettingOf(i[1]), i[1]) ELSE r.settings
  BY MeanItemFields, ZenonT(60)
<1>6. y.settings = IF IsSetting(i) THEN Set(w.settings, SettingOf(i[1]), i[1]) ELSE w.settings
  BY MeanItemFields, ZenonT(60)
<1> HIDE DEF x, y, n, v
<1>7. x.forced = y.forced
  <2>1. r.forced = w.forced
    BY Zenon DEF SeesAll
  <2>2. CASE n = "-include"
    BY <1>1, <1>2, <2>1, <2>2, Zenon
  <2>3. CASE n # "-include"
    BY <1>1, <1>2, <2>1, <2>3, Zenon
  <2>4. QED
    BY <2>2, <2>3
<1>8. FSame(x.settings, y.settings)
  BY <1>5, <1>6, FSameBoth, Zenon DEF SeesAll
<1>9. /\ DOMAIN x.macros \subseteq DOMAIN b.macros \cup DOMAIN y.macros
      /\ DOMAIN y.macros \subseteq Range(ds) \cup DOMAIN x.macros
  <2>1. /\ DOMAIN r.macros \subseteq DOMAIN b.macros \cup DOMAIN w.macros
        /\ DOMAIN w.macros \subseteq Range(ds) \cup DOMAIN r.macros
    BY Zenon DEF SeesAll
  <2>2. CASE n \in {"-D", "-U"}
    <3>1. x.macros = Set(r.macros, v, n) /\ y.macros = Set(w.macros, v, n)
      BY <1>3, <1>4, <2>2, Zenon
    <3>2. \A f : DOMAIN Set(f, v, n) = DOMAIN f \cup {v}
      BY DEF Set
    <3>3. DOMAIN x.macros = DOMAIN r.macros \cup {v} /\ DOMAIN y.macros = DOMAIN w.macros \cup {v}
      BY <3>1, <3>2, Zenon
    <3>4. QED
      BY <2>1, <3>3
  <2>3. CASE n \notin {"-D", "-U"}
    <3>1. x.macros = r.macros /\ y.macros = w.macros
      BY <1>3, <1>4, <2>3, Zenon
    <3>2. QED
      BY <2>1, <3>1, Zenon
  <2>4. QED
    BY <2>2, <2>3
<1>10. QED
  BY <1>7, <1>8, <1>9, Zenon DEF SeesAll, x, y

(* One that it is not given, or that is given apart. *)
LEMMA SeesOthers ==
  ASSUME NEW V, Calm(V), NEW b, NEW r, NEW w, NEW p, SeesAll(r, b, w, p.defines), NEW i \in V, ~IsSeen(i),
         NEW T, p.defines \in Seq(T), Name(i) = "-D" => Val(i) \in T
  PROVE  SeesAll(r, b, MeanItem(w, i), ParseItem(p, i).defines)
<1> DEFINE y == MeanItem(w, i)
           q == ParseItem(p, i)
           n == Name(i)
           v == Val(i)
<1>1. n \notin SeenNames
  BY SeenName, Zenon
<1>2. n \notin {"-U", "-include", "-f", "-fno-"}
  BY <1>1, Zenon DEF SeenNames
<1>3. y.forced = w.forced
  BY <1>2, MeanItemFields, ZenonT(60)
<1>4. y.macros = IF n \in {"-D", "-U"} THEN Set(w.macros, v, n) ELSE w.macros
  BY MeanItemFields, Zenon
<1>5. y.settings = IF IsSetting(i) THEN Set(w.settings, SettingOf(i[1]), i[1]) ELSE w.settings
  BY MeanItemFields, ZenonT(60)
<1>6. q.defines = IF n = "-D" THEN Append(p.defines, v) ELSE p.defines
  BY ParseItemFields, Zenon
<1>7. FSame(r.settings, y.settings)
  <2>1. i[1][1] \notin {"-f", "-fno-"}
    BY <1>2, Zenon DEF Name, n
  <2>2. SettingOf(i[1])[1] # "-f"
    BY <2>1, FKeys, Zenon
  <2>3. FSame(r.settings, w.settings)
    BY Zenon DEF SeesAll
  <2> HIDE DEF y, n, v
  <2>4. FSame(r.settings, Set(w.settings, SettingOf(i[1]), i[1]))
    BY <2>2, <2>3, FSameOther, Zenon
  <2>5. QED
    BY <1>5, <2>3, <2>4, Zenon
<1>8. /\ DOMAIN r.macros \subseteq DOMAIN b.macros \cup DOMAIN y.macros
      /\ DOMAIN y.macros \subseteq Range(q.defines) \cup DOMAIN r.macros
  <2>1. /\ DOMAIN r.macros \subseteq DOMAIN b.macros \cup DOMAIN w.macros
        /\ DOMAIN w.macros \subseteq Range(p.defines) \cup DOMAIN r.macros
    BY Zenon DEF SeesAll
  <2>2. p.defines \in Seq(T) /\ (n = "-D" => v \in T)
    OBVIOUS
  <2> HIDE DEF y, n, v, q
  <2>3. CASE n = "-D"
    <3>1. y.macros = Set(w.macros, v, n)
      BY <1>4, <2>3, Zenon
    <3>2. DOMAIN Set(w.macros, v, n) = DOMAIN w.macros \cup {v}
      BY DEF Set
    <3>3. q.defines = Append(p.defines, v)
      BY <1>6, <2>3, Zenon
    <3>4. Range(Append(p.defines, v)) = Range(p.defines) \cup {v}
      <4> DEFINE d == p.defines
      <4>1. d \in Seq(T) /\ v \in T /\ <<v>> \in Seq(T)
        BY <2>2, <2>3
      <4> HIDE DEF d
      <4>2. Append(d, v) = d \o <<v>> /\ Range(<<v>>) = {v}
        BY <4>1 DEF Range
      <4>3. Range(d \o <<v>>) = Range(d) \cup Range(<<v>>)
        BY <4>1, RangeBoth, ZenonT(60)
      <4>4. QED
        BY <4>2, <4>3, Zenon DEF d
    <3>5. DOMAIN y.macros = DOMAIN w.macros \cup {v} /\ Range(q.defines) = Range(p.defines) \cup {v}
      BY <3>1, <3>2, <3>3, <3>4, Zenon
    <3>6. QED
      BY <2>1, <3>5
  <2>4. CASE n # "-D"
    <3>1. y.macros = w.macros /\ q.defines = p.defines
      BY <1>2, <1>4, <1>6, <2>4, Zenon
    <3>2. QED
      BY <2>1, <3>1, Zenon
  <2>5. QED
    BY <2>3, <2>4
<1> HIDE DEF y, q, n, v
<1>9. QED
  BY <1>3, <1>7, <1>8, Zenon DEF SeesAll, y, q

(* The flags after b are all that the preprocessor needs to see of the arguments. *)
LEMMA SeesFlags ==
  ASSUME NEW V, Calm(V), NEW b, NEW s, SeenSide(b, b, Defs(V), s), b.forced = <<>>,
         FSame(b.settings, <<>>), NEW u \in Seq(V)
  PROVE  LET r == Meaningful!Run(b, Seen(u))
         IN /\ SeenSide(r, b, Defs(V), s)
            /\ SeesAll(r, b, MeantFrom(NoMeaning, u), ParsedFrom(NothingParsed, u).defines)
<1> DEFINE R(t) == Meaningful!Run(b, Seen(t))
           W(t) == MeantFrom(NoMeaning, t)
           Q(t) == ParsedFrom(NothingParsed, t)
           Fine(r, w, p) == SeenSide(r, b, Defs(V), s) /\ SeesAll(r, b, w, p.defines)
           G == {t \in Seq(V) : Fine(R(t), W(t), Q(t))}
<1>1. <<>> \in G
  <2>1. <<>> \in Seq(V) /\ Range(<<>>) = {} /\ DOMAIN <<>> = {}
    BY DEF Range
  <2>2. R(<<>>) = b
    <3>1. Seen(<<>>) = <<>>
      BY FlagsStart, Previewing!RunEmpty, Zenon DEF Seen
    <3>2. QED
      BY <3>1, Meaningful!RunEmpty, Zenon
  <2>3. W(<<>>) = NoMeaning /\ Q(<<>>) = NothingParsed
    BY MeantStart, ParsedStart, Zenon
  <2>4. NoMeaning.settings = <<>> /\ NoMeaning.forced = <<>> /\ NoMeaning.macros = <<>>
    BY Zenon DEF NoMeaning
  <2>5. SeesAll(b, b, NoMeaning, NothingParsed.defines)
    <3>1. DOMAIN b.macros \subseteq DOMAIN b.macros \cup {}
              /\ {} \subseteq Range(NothingParsed.defines) \cup DOMAIN b.macros
      BY Zenon
    <3>2. QED
      BY <2>1, <2>4, <3>1, Zenon DEF SeesAll
  <2> HIDE DEF R, W, Q
  <2>6. QED
    BY <2>1, <2>2, <2>3, <2>5, Zenon
<1>2. ASSUME NEW t \in Seq(V), NEW i \in V, t \in G PROVE Append(t, i) \in G
  <2>1. Append(t, i) \in Seq(V)
    OBVIOUS
  <2>2. W(Append(t, i)) = MeanItem(W(t), i) /\ Q(Append(t, i)) = ParseItem(Q(t),
            i) /\ i \in Units /\ t \in Seq(Units)
    BY CalmGrows, Zenon
  <2>3. SeenSide(R(t), b, Defs(V), s) /\ SeesAll(R(t), b, W(t), Q(t).defines)
    BY <1>2
  <2>4. CASE IsSeen(i)
    <3>1. Seen(Append(t, i)) = Seen(t) \o i /\ Seen(t) \in Seq(Arg)
      BY <2>4, SeenGrows, Zenon
    <3>2. i \in Seq(Arg) /\ Complete(i)
      BY <2>2, UnitsAreArgs, UnitsComplete, Zenon
    <3>3. R(Append(t, i)) = MeanItem(R(t), i)
      BY <2>3, <3>1, <3>2, MeansConcat, Zenon DEF SeenSide
    <3>4. ParseItem(Q(t), i).defines = Q(t).defines
      <4>1. Name(i) # "-D"
        BY <2>4, SeenName, Zenon DEF SeenNames
      <4> DEFINE p == Q(t)
                 q == ParseItem(p, i)
      <4> HIDE DEF Q
      <4>2. q.defines = IF Name(i) = "-D" THEN Append(p.defines, Val(i)) ELSE p.defines
        BY ParseItemFields, Zenon
      <4>3. QED
        BY <4>1, <4>2, Zenon
    <3> DEFINE r == R(t)
               w == W(t)
               p == Q(t)
    <3> HIDE DEF R, W, Q
    <3>5. SeenSide(MeanItem(r, i), b, Defs(V), s)
      BY <2>3, <2>4, SeenItem, Zenon
    <3>6. SeesAll(MeanItem(r, i), b, MeanItem(w, i), p.defines)
      BY <2>3, <2>4, SeesGiven, Zenon
    <3>7. QED
      BY <2>1, <2>2, <3>3, <3>4, <3>5, <3>6, Zenon
  <2>5. CASE ~IsSeen(i)
    <3>1. R(Append(t, i)) = R(t)
      BY <2>5, SeenGrows, Zenon
    <3>2. Q(t).defines \in Seq(Words)
      BY <2>2, ParserCollects, Zenon DEF Collected
    <3>3. Name(i) = "-D" => Val(i) \in Words
      BY <2>2, TakenVal, Zenon DEF Taken
    <3> DEFINE r == R(t)
               w == W(t)
               p == Q(t)
    <3> HIDE DEF R, W, Q
    <3>4. SeesAll(r, b, MeanItem(w, i), ParseItem(p, i).defines)
      BY <2>3, <2>5, <3>2, <3>3, SeesOthers, Zenon
    <3>5. QED
      BY <2>1, <2>2, <2>3, <3>1, <3>4, Zenon
  <2>6. QED
    BY <2>4, <2>5
<1>3. u \in G
  <2> HIDE DEF G
  <2> QED BY <1>1, <1>2, SeqGrows
<1>4. QED
  BY <1>3

-----------------------------------------------------------------------------
(***************************************************************************)
(* The preprocessor's command before those flags.                          *)
(***************************************************************************)

(* What an item leaves alone. *)
LEMMA SameInputs ==
  ASSUME NEW m, NEW i, Name(i) # ""
  PROVE  MeanItem(m, i).inputs = m.inputs
<1> DEFINE x == MeanItem(m, i)
<1>1. x.inputs = IF Name(i) = "" THEN Append(m.inputs, <<i[1], m.lang>>) ELSE m.inputs
  BY MeanItemFields, Zenon
<1> HIDE DEF x
<1>2. x.inputs = m.inputs
  BY <1>1, Zenon
<1>3. QED
  BY <1>2 DEF x

LEMMA SameLang ==
  ASSUME NEW m, NEW i, Name(i) # "-x"
  PROVE  MeanItem(m, i).lang = m.lang
<1> DEFINE x == MeanItem(m, i)
<1>1. x.lang = IF Name(i) = "-x" THEN Val(i) ELSE m.lang
  BY MeanItemFields, Zenon
<1> HIDE DEF x
<1>2. x.lang = m.lang
  BY <1>1, Zenon
<1>3. QED
  BY <1>2 DEF x

LEMMA SameStages ==
  ASSUME NEW m, NEW i, Name(i) \notin {"-c", "-S", "-E"}
  PROVE  MeanItem(m, i).stages = m.stages
<1> DEFINE x == MeanItem(m, i)
<1>1. x.stages = IF Name(i) \in {"-c", "-S", "-E"} THEN m.stages \cup {Name(i)} ELSE m.stages
  BY MeanItemFields, Zenon
<1> HIDE DEF x
<1>2. x.stages = m.stages
  BY <1>1, Zenon
<1>3. QED
  BY <1>2 DEF x

LEMMA SameDirs ==
  ASSUME NEW m, NEW i, Name(i) \notin {"-I", "-isystem"}
  PROVE  MeanItem(m, i).dirs = m.dirs
<1> DEFINE x == MeanItem(m, i)
<1>1. x.dirs = IF Name(i) \in {"-I", "-isystem"} THEN Append(m.dirs, <<Name(i), Val(i)>>) ELSE m.dirs
  BY MeanItemFields, Zenon
<1> HIDE DEF x
<1>2. x.dirs = m.dirs
  BY <1>1, Zenon
<1>3. QED
  BY <1>2 DEF x

LEMMA SameForced ==
  ASSUME NEW m, NEW i, Name(i) # "-include"
  PROVE  MeanItem(m, i).forced = m.forced
<1> DEFINE x == MeanItem(m, i)
<1>1. x.forced = IF Name(i) = "-include" THEN Append(m.forced, Val(i)) ELSE m.forced
  BY MeanItemFields, Zenon
<1> HIDE DEF x
<1>2. x.forced = m.forced
  BY <1>1, Zenon
<1>3. QED
  BY <1>2 DEF x

LEMMA SameMacros ==
  ASSUME NEW m, NEW i, Name(i) \notin {"-D", "-U"}
  PROVE  MeanItem(m, i).macros = m.macros
<1> DEFINE x == MeanItem(m, i)
<1>1. x.macros = IF Name(i) \in {"-D", "-U"} THEN Set(m.macros, Val(i), Name(i)) ELSE m.macros
  BY MeanItemFields, Zenon
<1> HIDE DEF x
<1>2. x.macros = m.macros
  BY <1>1, Zenon
<1>3. QED
  BY <1>2 DEF x

LEMMA SameSettings ==
  ASSUME NEW m, NEW i, ~IsSetting(i)
  PROVE  MeanItem(m, i).settings = m.settings
<1> DEFINE x == MeanItem(m, i)
<1>1. x.settings = IF IsSetting(i) THEN Set(m.settings, SettingOf(i[1]), i[1]) ELSE m.settings
  BY MeanItemFields, ZenonT(60)
<1> HIDE DEF x
<1>2. x.settings = m.settings
  BY <1>1, Zenon
<1>3. QED
  BY <1>2 DEF x

LEMMA StaysGood == ASSUME NEW m, NEW i PROVE GoodM(MeanItem(m, i))
<1> DEFINE x == MeanItem(m, i)
<1>1. GoodM(x)
  BY MeanItemFields, Zenon
<1>2. QED
  BY <1>1

(* What the preprocessor's command means before the flags: the include path dirs, *)
(* the macros defs, of those in D, the standard s and the language l.             *)
Begun(m, dirs, defs, D, s, l) ==
  /\ GoodM(m) /\ m.dirs = dirs /\ m.inputs = <<>> /\ m.forced = <<>> /\ "-E" \in m.stages
  /\ Kinded(m.macros, D) /\ DOMAIN m.macros = defs
  /\ Keyed(m.settings) /\ StdIs(m.settings, s) /\ FSame(m.settings, <<>>) /\ m.lang = l

LEMMA BegunEmpty ==
  ASSUME NEW D
  PROVE  Begun(Meaningful!Run(NoMeaning, <<Flag("-E")>>), <<>>, {}, D, "", "")
<1> DEFINE i == <<Flag("-E")>>
           x == MeanItem(NoMeaning, i)
<1>1. Name(i) = "-E"
  BY OneIs, FlagIs, Zenon
<1>2. Complete(i)
  <2>1. Flag("-E")[1] = "-E"
    BY FlagIs
  <2>2. Flag("-E")[1] \notin GccValueFlags
    BY <2>1, Zenon DEF GccValueFlags
  <2>3. QED
    BY <2>2, Zenon DEF Complete
<1>3. Meaningful!Run(NoMeaning, i) = x
  BY <1>2, StartsGood, MeansItem, Zenon DEF GoodM
<1>4. /\ NoMeaning.dirs = <<>> /\ NoMeaning.inputs = <<>> /\ NoMeaning.forced = <<>> /\ NoMeaning.lang = ""
      /\ NoMeaning.macros = <<>> /\ NoMeaning.settings = <<>> /\ NoMeaning.stages = {}
  BY Zenon DEF NoMeaning
<1> HIDE DEF i
<1>5. GoodM(x) /\ x.inputs = <<>>
  BY <1>1, <1>4, StaysGood, SameInputs, Zenon
<1>6. x.dirs = <<>>
  BY <1>1, <1>4, SameDirs, Zenon
<1>7. x.forced = <<>>
  BY <1>1, <1>4, SameForced, Zenon
<1>8. x.lang = ""
  BY <1>1, <1>4, SameLang, Zenon
<1>9. x.macros = <<>>
  BY <1>1, <1>4, SameMacros, Zenon
<1>10. x.settings = <<>>
  <2>1. ~IsSetting(i)
    BY <1>1, Zenon DEF IsSetting
  <2>2. QED
    BY <1>4, <2>1, SameSettings, Zenon
<1>11. "-E" \in x.stages
  <2>0. x.stages = IF Name(i) \in {"-c", "-S", "-E"} THEN NoMeaning.stages \cup {Name(i)} ELSE NoMeaning.stages
    BY MeanItemFields, Zenon
  <2> HIDE DEF x
  <2>1. x.stages = NoMeaning.stages \cup {Name(i)}
    BY <1>1, <2>0, Zenon
  <2>2. QED
    BY <1>1, <2>1, Zenon
<1>12. DOMAIN <<>> = {}
  OBVIOUS
<1> HIDE DEF x
<1>13. Begun(x, <<>>, {}, D, "", "")
  BY <1>5, <1>6, <1>7, <1>8, <1>9, <1>10, <1>11, <1>12, NothingSet, Zenon DEF Begun
<1>14. QED
  BY <1>3, <1>13, Zenon DEF i

(* A joined flag. *)
LEMMA BegunJoined ==
  ASSUME NEW m, GoodM(m), NEW a, a[2] # ""
  PROVE  Meaningful!Run(m, <<a>>) = MeanItem(m, <<a>>)
<1>1. Complete(<<a>>)
  BY Zenon DEF Complete
<1>2. QED
  BY <1>1, MeansItem, Zenon DEF GoodM

LEMMA BegunDir ==
  ASSUME NEW m, NEW dirs, NEW defs, NEW D, NEW s, NEW l, Begun(m, dirs, defs, D, s, l), NEW v, v # ""
  PROVE  Begun(Meaningful!Run(m, <<<<"-I", v>>>>), Append(dirs, <<"-I", v>>), defs, D, s, l)
<1> DEFINE i == <<<<"-I", v>>>>
           x == MeanItem(m, i)
<1>1. Meaningful!Run(m, i) = x /\ Name(i) = "-I" /\ Val(i) = v
  <2> DEFINE c == <<"-I", v>>
  <2>1. GoodM(m)
    BY Zenon DEF Begun
  <2>2. c[1] = "-I" /\ c[2] = v
    OBVIOUS
  <2> HIDE DEF c
  <2>3. Meaningful!Run(m, <<c>>) = MeanItem(m, <<c>>)
    BY <2>1, <2>2, BegunJoined, Zenon
  <2>4. Name(<<c>>) = "-I" /\ Val(<<c>>) = v /\ <<c>>[1] = c
    BY <2>2, OneIs, Zenon
  <2>5. QED
    BY <2>3, <2>4, Zenon DEF c
<1> HIDE DEF i
<1>2. GoodM(x) /\ x.inputs = m.inputs
  BY <1>1, StaysGood, SameInputs, Zenon
<1>3. x.dirs = Append(m.dirs, <<"-I", v>>)
  <2>0. x.dirs = IF Name(i) \in {"-I", "-isystem"} THEN Append(m.dirs, <<Name(i), Val(i)>>) ELSE m.dirs
    BY MeanItemFields, Zenon
  <2> HIDE DEF x
  <2>1. x.dirs = Append(m.dirs, <<Name(i), Val(i)>>)
    BY <1>1, <2>0, Zenon
  <2>2. QED
    BY <1>1, <2>1, Zenon
<1>4. x.forced = m.forced
  BY <1>1, SameForced, Zenon
<1>5. x.lang = m.lang
  BY <1>1, SameLang, Zenon
<1>6. x.macros = m.macros
  BY <1>1, SameMacros, Zenon
<1>7. x.settings = m.settings
  <2>1. ~IsSetting(i)
    BY <1>1, Zenon DEF IsSetting, GccValueFlags
  <2>2. QED
    BY <2>1, SameSettings, Zenon
<1>8. x.stages = m.stages
  BY <1>1, SameStages, Zenon
<1> HIDE DEF x
<1>9. Begun(x, Append(dirs, <<"-I", v>>), defs, D, s, l)
  BY <1>2, <1>3, <1>4, <1>5, <1>6, <1>7, <1>8, Zenon DEF Begun
<1>10. QED
  BY <1>1, <1>9, Zenon DEF i

LEMMA BegunDef ==
  ASSUME NEW m, NEW dirs, NEW defs, NEW D, NEW s, NEW l, Begun(m, dirs, defs, D, s, l), NEW v \in D, v # ""
  PROVE  Begun(Meaningful!Run(m, <<<<"-D", v>>>>), dirs, defs \cup {v}, D, s, l)
<1> DEFINE i == <<<<"-D", v>>>>
           x == MeanItem(m, i)
<1>1. Meaningful!Run(m, i) = x /\ Name(i) = "-D" /\ Val(i) = v
  <2> DEFINE c == <<"-D", v>>
  <2>1. GoodM(m)
    BY Zenon DEF Begun
  <2>2. c[1] = "-D" /\ c[2] = v
    OBVIOUS
  <2> HIDE DEF c
  <2>3. Meaningful!Run(m, <<c>>) = MeanItem(m, <<c>>)
    BY <2>1, <2>2, BegunJoined, Zenon
  <2>4. Name(<<c>>) = "-D" /\ Val(<<c>>) = v /\ <<c>>[1] = c
    BY <2>2, OneIs, Zenon
  <2>5. QED
    BY <2>3, <2>4, Zenon DEF c
<1> HIDE DEF i
<1>2. GoodM(x) /\ x.inputs = m.inputs
  BY <1>1, StaysGood, SameInputs, Zenon
<1>3. x.dirs = m.dirs
  BY <1>1, SameDirs, Zenon
<1>4. x.forced = m.forced
  BY <1>1, SameForced, Zenon
<1>5. x.lang = m.lang
  BY <1>1, SameLang, Zenon
<1>6. x.macros = Set(m.macros, v, "-D")
  <2>0. x.macros = IF Name(i) \in {"-D", "-U"} THEN Set(m.macros, Val(i), Name(i)) ELSE m.macros
    BY MeanItemFields, Zenon
  <2> HIDE DEF x
  <2>1. x.macros = Set(m.macros, Val(i), Name(i))
    BY <1>1, <2>0, Zenon
  <2>2. QED
    BY <1>1, <2>1, Zenon
<1>7. x.settings = m.settings
  <2>1. ~IsSetting(i)
    BY <1>1, Zenon DEF IsSetting, GccValueFlags
  <2>2. QED
    BY <2>1, SameSettings, Zenon
<1>8. x.stages = m.stages
  BY <1>1, SameStages, Zenon
<1> HIDE DEF x
<1>9. Kinded(x.macros, D) /\ DOMAIN x.macros = defs \cup {v}
  <2>1. Kinded(m.macros, D) /\ DOMAIN m.macros = defs
    BY Zenon DEF Begun
  <2>2. "-D" = IF v \in D THEN "-D" ELSE "-U"
    BY Zenon
  <2>3. Kinded(Set(m.macros, v, "-D"), D)
    BY <2>1, <2>2, KindedSet, Zenon
  <2>4. DOMAIN Set(m.macros, v, "-D") = DOMAIN m.macros \cup {v}
    BY DEF Set
  <2>5. QED
    BY <1>6, <2>1, <2>3, <2>4, Zenon
<1>10. Begun(x, dirs, defs \cup {v}, D, s, l)
  BY <1>2, <1>3, <1>4, <1>5, <1>7, <1>8, <1>9, Zenon DEF Begun
<1>11. QED
  BY <1>1, <1>10, Zenon DEF i

LEMMA BegunStd ==
  ASSUME NEW m, NEW dirs, NEW defs, NEW D, NEW l, NEW s, Begun(m, dirs, defs, D, "", l), s # ""
  PROVE  Begun(Meaningful!Run(m, <<<<"-std=", s>>>>), dirs, defs, D, s, l)
<1> DEFINE a == <<"-std=", s>>
           i == <<a>>
           x == MeanItem(m, i)
<1>0. a[1] = "-std="
  OBVIOUS
<1>1. Meaningful!Run(m, i) = x /\ Name(i) = "-std=" /\ i[1] = a
  <2> DEFINE c == <<"-std=", s>>
  <2>1. GoodM(m)
    BY Zenon DEF Begun
  <2>2. c[1] = "-std=" /\ c[2] = s
    OBVIOUS
  <2> HIDE DEF c
  <2>3. Meaningful!Run(m, <<c>>) = MeanItem(m, <<c>>)
    BY <2>1, <2>2, BegunJoined, Zenon
  <2>4. Name(<<c>>) = "-std=" /\ Val(<<c>>) = s /\ <<c>>[1] = c
    BY <2>2, OneIs, Zenon
  <2>5. QED
    BY <2>3, <2>4, Zenon DEF c
<1> HIDE DEF i
<1>2. GoodM(x) /\ x.inputs = m.inputs
  BY <1>1, StaysGood, SameInputs, Zenon
<1>3. x.dirs = m.dirs
  BY <1>1, SameDirs, Zenon
<1>4. x.forced = m.forced
  BY <1>1, SameForced, Zenon
<1>5. x.lang = m.lang
  BY <1>1, SameLang, Zenon
<1>6. x.macros = m.macros
  BY <1>1, SameMacros, Zenon
<1>7. x.settings = Set(m.settings, SettingOf(a), a)
  <2>1. IsSetting(i)
    BY <1>1, Zenon DEF IsSetting, GccValueFlags
  <2>0. x.settings = IF IsSetting(i) THEN Set(m.settings, SettingOf(i[1]), i[1]) ELSE m.settings
    BY MeanItemFields, Zenon
  <2> HIDE DEF x
  <2>2. x.settings = Set(m.settings, SettingOf(i[1]), i[1])
    BY <2>0, <2>1, Zenon
  <2>3. QED
    BY <1>1, <2>2, Zenon
<1>8. x.stages = m.stages
  BY <1>1, SameStages, Zenon
<1> HIDE DEF x
<1>9. Keyed(x.settings) /\ StdIs(x.settings, s) /\ FSame(x.settings, <<>>)
  <2>1. Keyed(m.settings) /\ FSame(m.settings, <<>>)
    BY Zenon DEF Begun
  <2>2. Keyed(Set(m.settings, SettingOf(a), a))
    BY <2>1, KeyedSet, Zenon
  <2>3. StdIs(Set(m.settings, SettingOf(a), a), s)
    BY <1>0, StdHere, Zenon
  <2>4. SettingOf(a)[1] # "-f"
    BY <1>0, FKeys, Zenon
  <2>5. FSame(Set(m.settings, SettingOf(a), a), <<>>)
    BY <2>1, <2>4, FSameOther, Zenon
  <2>6. QED
    BY <1>7, <2>2, <2>3, <2>5, Zenon
<1>10. Begun(x, dirs, defs, D, s, l)
  BY <1>2, <1>3, <1>4, <1>5, <1>6, <1>8, <1>9, Zenon DEF Begun
<1>11. QED
  BY <1>1, <1>10, Zenon DEF i, a

LEMMA BegunLang ==
  ASSUME NEW m, NEW dirs, NEW defs, NEW D, NEW s, NEW k, NEW l, Begun(m, dirs, defs, D, s, k)
  PROVE  Begun(Meaningful!Run(m, <<Flag("-x"), Word(l)>>), dirs, defs, D, s, l)
<1> DEFINE i == <<Flag("-x"), Word(l)>>
           x == MeanItem(m, i)
<1>1. Name(i) = "-x" /\ Val(i) = l
  BY PairIs, Zenon
<1>2. Complete(i)
  BY Zenon DEF Complete, GccValueFlags
<1>3. Meaningful!Run(m, i) = x
  BY <1>2, MeansItem, Zenon DEF GoodM, Begun
<1> HIDE DEF i
<1>4. GoodM(x) /\ x.inputs = m.inputs
  BY <1>1, StaysGood, SameInputs, Zenon
<1>5. x.dirs = m.dirs
  BY <1>1, SameDirs, Zenon
<1>6. x.forced = m.forced
  BY <1>1, SameForced, Zenon
<1>7. x.lang = l
  <2>1. x.lang = IF Name(i) = "-x" THEN Val(i) ELSE m.lang
    BY MeanItemFields, Zenon
  <2> HIDE DEF x
  <2>2. QED
    BY <1>1, <2>1, Zenon
<1>8. x.macros = m.macros
  BY <1>1, SameMacros, Zenon
<1>9. x.settings = m.settings
  <2>1. ~IsSetting(i)
    BY <1>1, Zenon DEF IsSetting, GccValueFlags
  <2>2. QED
    BY <2>1, SameSettings, Zenon
<1>10. x.stages = m.stages
  BY <1>1, SameStages, Zenon
<1> HIDE DEF x
<1>11. Begun(x, dirs, defs, D, s, l)
  BY <1>4, <1>5, <1>6, <1>7, <1>8, <1>9, <1>10, Zenon DEF Begun
<1>12. QED
  BY <1>3, <1>11, Zenon DEF i

LEMMA JoinedMore ==
  ASSUME NEW f \in {"-I", "-D"}, NEW vs \in Seq(Words), NEW v \in Words, NEW b
  PROVE  Meaningful!Run(b, Joined(f, Append(vs, v))) = Meaningful!Run(Meaningful!Run(b, Joined(f, vs)),
            <<<<f, v>>>>)
<1> DEFINE j == Joined(f, vs)
           a == <<f, v>>
<1>1. j \in Seq(Arg)
  BY JoinedArgs
<1>2. a \in Arg
  BY WordArgs DEF Words
<1>3. Joined(f, Append(vs, v)) = Append(j, a)
  BY JoinedGrows
<1> HIDE DEF j, a
<1>4. Append(j, a) = j \o <<a>> /\ <<a>> \in Seq(Arg)
  BY <1>1, <1>2, ConcatOne
<1>5. Meaningful!Run(b, j \o <<a>>) = Meaningful!Run(Meaningful!Run(b, j), <<a>>)
  BY <1>1, <1>4, RunInto
<1>6. QED
  BY <1>3, <1>4, <1>5, Zenon DEF j, a

LEMMA JoinedNone == ASSUME NEW f, NEW b PROVE Joined(f, <<>>) = <<>> /\ Meaningful!Run(b, Joined(f, <<>>)) = b
<1>1. Joined(f, <<>>) = <<>>
  BY DEF Joined
<1>2. QED
  BY <1>1, Meaningful!RunEmpty, Zenon

LEMMA BegunDirs ==
  ASSUME NEW m, NEW defs, NEW D, NEW s, NEW l, Begun(m, <<>>, defs, D, s, l), NEW vs \in Seq(Words)
  PROVE  Begun(Meaningful!Run(m, Joined("-I", vs)), Joined("-I", vs), defs, D, s, l)
<1> DEFINE J(t) == Joined("-I", t)
           G == {t \in Seq(Words) : Begun(Meaningful!Run(m, J(t)), J(t), defs, D, s, l)}
<1>1. <<>> \in G
  <2>1. <<>> \in Seq(Words)
    OBVIOUS
  <2>2. QED
    BY <2>1, JoinedNone, Zenon
<1>2. ASSUME NEW t \in Seq(Words), NEW v \in Words, t \in G PROVE Append(t, v) \in G
  <2>0. v # ""
    BY Zenon DEF Words
  <2>1. Append(t, v) \in Seq(Words)
    OBVIOUS
  <2>2. J(Append(t, v)) = Append(J(t), <<"-I", v>>)
    BY JoinedGrows
  <2>3. Meaningful!Run(m, J(Append(t, v))) = Meaningful!Run(Meaningful!Run(m, J(t)), <<<<"-I", v>>>>)
    BY JoinedMore, Zenon
  <2> HIDE DEF J
  <2>4. Begun(Meaningful!Run(Meaningful!Run(m, J(t)), <<<<"-I", v>>>>), Append(J(t), <<"-I", v>>), defs, D, s, l)
    BY <1>2, <2>0, BegunDir, Zenon
  <2>5. QED
    BY <2>1, <2>2, <2>3, <2>4, Zenon
<1>3. vs \in G
  <2> HIDE DEF G
  <2> QED BY <1>1, <1>2, SeqGrows
<1>4. QED
  BY <1>3

LEMMA BegunDefs ==
  ASSUME NEW m, NEW dirs, NEW D, NEW s, NEW l, Begun(m, dirs, {}, D, s, l), D \subseteq Words, NEW vs \in Seq(D)
  PROVE  Begun(Meaningful!Run(m, Joined("-D", vs)), dirs, Range(vs), D, s, l)
<1> DEFINE J(t) == Joined("-D", t)
           G == {t \in Seq(D) : Begun(Meaningful!Run(m, J(t)), dirs, Range(t), D, s, l)}
<1>1. <<>> \in G
  <2>1. <<>> \in Seq(D) /\ Range(<<>>) = {}
    BY DEF Range
  <2>2. QED
    BY <2>1, JoinedNone, Zenon
<1>2. ASSUME NEW t \in Seq(D), NEW v \in D, t \in G PROVE Append(t, v) \in G
  <2>0. v # ""
    BY Zenon DEF Words
  <2>1. Append(t, v) \in Seq(D) /\ t \in Seq(Words) /\ v \in Words
    OBVIOUS
  <2>2. Range(Append(t, v)) = Range(t) \cup {v}
    <3>1. Append(t, v) = t \o <<v>> /\ Range(<<v>>) = {v} /\ <<v>> \in Seq(D)
      BY DEF Range
    <3> DEFINE y == <<v>>
    <3> HIDE DEF y
    <3>2. Range(t \o y) = Range(t) \cup Range(y)
      <4>1. y \in Seq(D)
        BY <3>1 DEF y
      <4>2. QED
        BY <4>1, RangeBoth, ZenonT(60)
    <3>3. QED
      BY <3>1, <3>2, Zenon DEF y
  <2>3. Meaningful!Run(m, J(Append(t, v))) = Meaningful!Run(Meaningful!Run(m, J(t)), <<<<"-D", v>>>>)
    BY <2>1, JoinedMore, Zenon
  <2> HIDE DEF J
  <2>4. Begun(Meaningful!Run(Meaningful!Run(m, J(t)), <<<<"-D", v>>>>), dirs, Range(t) \cup {v}, D, s, l)
    BY <1>2, <2>0, BegunDef, Zenon
  <2>5. QED
    BY <2>1, <2>2, <2>3, <2>4, Zenon
<1>3. vs \in G
  <2> HIDE DEF G
  <2> QED BY <1>1, <1>2, SeqGrows
<1>4. QED
  BY <1>3

(* The command up to the flags. *)
Preamble(inc, ds, s, l) ==
  <<Flag("-E")>> \o Joined("-I", inc) \o Joined("-D", ds)
  \o (IF s = "" THEN <<>> ELSE <<<<"-std=", s>>>>)
  \o (IF l = "" THEN <<>> ELSE <<Flag("-x"), Word(l)>>)

LEMMA PreambleBegins ==
  ASSUME NEW D, D \subseteq Words, NEW inc \in Seq(Words), NEW ds \in Seq(D), NEW s \in Text, NEW l \in Text
  PROVE  /\ Preamble(inc, ds, s, l) \in Seq(Arg)
         /\ Begun(Meaningful!Run(NoMeaning, Preamble(inc, ds, s, l)), Joined("-I", inc), Range(ds), D, s, l)
<1> DEFINE e == <<Flag("-E")>>
           J == Joined("-I", inc)
           K == Joined("-D", ds)
           St == IF s = "" THEN <<>> ELSE <<<<"-std=", s>>>>
           La == IF l = "" THEN <<>> ELSE <<Flag("-x"), Word(l)>>
           b1 == Meaningful!Run(NoMeaning, e)
           b2 == Meaningful!Run(b1, J)
           b3 == Meaningful!Run(b2, K)
           b4 == Meaningful!Run(b3, St)
           b5 == Meaningful!Run(b4, La)
<1>1. e \in Seq(Arg)
  <2>1. Flag("-E") \in Arg
    <3>1. Literals \subseteq Text
      BY DEF Text
    <3>2. {"-E", ""} \subseteq Literals
      BY Zenon DEF Literals
    <3>3. "-E" \in Text /\ "" \in Text
      <4> HIDE DEF Text, Literals
      <4> QED BY <3>1, <3>2, Zenon
    <3> HIDE DEF Text
    <3>4. QED
      BY <3>3 DEF Flag, Arg
  <2>2. QED
    BY <2>1
<1>2. J \in Seq(Arg)
  BY JoinedArgs
<1>3. K \in Seq(Arg)
  <2>1. ds \in Seq(Words)
    OBVIOUS
  <2>2. QED
    BY <2>1, JoinedArgs
<1>4. St \in Seq(Arg)
  <2>1. <<"-std=", s>> \in Arg
    BY LiteralFlags, Zenon
  <2> DEFINE a == <<"-std=", s>>
  <2> HIDE DEF a
  <2>2. <<a>> \in Seq(Arg) /\ <<>> \in Seq(Arg)
    BY <2>1 DEF a
  <2>3. QED
    BY <2>2, Zenon DEF a
<1>5. La \in Seq(Arg)
  <2>1. <<Flag("-x"), Word(l)>> \in Seq(Arg)
    BY PairArgs, Zenon
  <2>2. <<>> \in Seq(Arg)
    OBVIOUS
  <2>3. QED
    BY <2>1, <2>2, Zenon
<1>6. Begun(b1, <<>>, {}, D, "", "")
  BY BegunEmpty, Zenon
<1>7. Begun(b2, J, {}, D, "", "")
  <2> HIDE DEF b1
  <2> QED BY <1>6, BegunDirs, Zenon
<1>8. Begun(b3, J, Range(ds), D, "", "")
  <2> HIDE DEF b2
  <2> QED BY <1>7, BegunDefs, Zenon
<1>9. Begun(b4, J, Range(ds), D, s, "")
  <2> HIDE DEF b3
  <2>1. CASE s = ""
    BY <1>8, <2>1, Meaningful!RunEmpty, Zenon
  <2>2. CASE s # ""
    BY <1>8, <2>2, BegunStd, Zenon
  <2>3. QED
    BY <2>1, <2>2
<1>10. Begun(b5, J, Range(ds), D, s, l)
  <2> HIDE DEF b4
  <2>1. CASE l = ""
    BY <1>9, <2>1, Meaningful!RunEmpty, Zenon
  <2>2. CASE l # ""
    BY <1>9, <2>2, BegunLang, Zenon
  <2>3. QED
    BY <2>1, <2>2
<1>11. Preamble(inc, ds, s, l) = e \o J \o K \o St \o La
  BY Zenon DEF Preamble
<1> HIDE DEF e, J, K, St, La
<1>12. /\ e \o J \in Seq(Arg) /\ (e \o J) \o K \in Seq(Arg) /\ ((e \o J) \o K) \o St \in Seq(Arg)
       /\ (((e \o J) \o K) \o St) \o La \in Seq(Arg)
  BY <1>1, <1>2, <1>3, <1>4, <1>5
<1>13. Meaningful!Run(NoMeaning, (((e \o J) \o K) \o St) \o La) = b5
  <2>1. Meaningful!Run(NoMeaning, e \o J) = b2
    BY <1>1, <1>2, RunInto, Zenon
  <2>2. Meaningful!Run(NoMeaning, (e \o J) \o K) = Meaningful!Run(Meaningful!Run(NoMeaning, e \o J), K)
    BY <1>3, <1>12, RunInto, Zenon
  <2>3. Meaningful!Run(NoMeaning, ((e \o J) \o K) \o St) = Meaningful!Run(Meaningful!Run(NoMeaning,
            (e \o J) \o K), St)
    BY <1>4, <1>12, RunInto, Zenon
  <2>4. Meaningful!Run(NoMeaning, (((e \o J) \o K) \o St) \o La)
          = Meaningful!Run(Meaningful!Run(NoMeaning, ((e \o J) \o K) \o St), La)
    BY <1>5, <1>12, RunInto, Zenon
  <2>5. QED
    BY <2>1, <2>2, <2>3, <2>4, Zenon
<1> HIDE DEF b5
<1>14. QED
  BY <1>10, <1>11, <1>12, <1>13, Zenon DEF J

-----------------------------------------------------------------------------
(***************************************************************************)
(* The theorem about the preprocessor.                                     *)
(***************************************************************************)

LEMMA LoneIs == ASSUME NEW S, NEW t \in Seq(S), Len(t) = 1 PROVE t = <<t[1]>> /\ t[1] \in S
<1>1. t[1] \in S
  <2>1. 1 \in 1..Len(t)
    OBVIOUS
  <2>2. QED
    BY <2>1, ElementOfSeq
<1>2. <<t[1]>> \in Seq(S) /\ Len(<<t[1]>>) = 1
  BY <1>1
<1>3. \A i \in 1..Len(t) : t[i] = <<t[1]>>[i]
  OBVIOUS
<1>4. QED
  BY <1>1, <1>2, <1>3, SeqEqual

StandardIn(m) == IF Std \in DOMAIN m.settings THEN m.settings[Std] ELSE Std
FlagsIn(m) == {x \in Range(m.settings) : x[1] \in {"-f", "-fno-"}}

LEMMA SameStandard ==
  ASSUME NEW m, NEW w, NEW s, StdIs(m.settings, s), StdIs(w.settings, s)
  PROVE  StandardIn(m) = StandardIn(w)
<1>1. <<"-std=", "">> = Std
  BY DEF Std, Flag
<1>2. QED
  BY <1>1, Zenon DEF StdIs, StandardIn

LEMMA CalmDefs == ASSUME NEW V, Calm(V) PROVE Defs(V) \subseteq Words
<1>1. ASSUME NEW i \in V, Name(i) = "-D" PROVE Val(i) \in Words
  BY <1>1, TakenVal, Zenon DEF Calm, Taken
<1>2. QED
  BY <1>1, Zenon DEF Defs

(* The source is added to what the flags mean. *)
LEMMA SourceLast ==
  ASSUME NEW r, GoodM(r), r.inputs = <<>>, NEW src, IsFile(src)
  PROVE  LET m == Meaningful!Run(r, <<src>>)
         IN /\ m.inputs = <<<<src, r.lang>>>> /\ m.dirs = r.dirs /\ m.forced = r.forced /\ m.macros = r.macros
            /\ m.settings = r.settings /\ m.lang = r.lang /\ m.stages = r.stages
<1> DEFINE i == <<src>>
           x == MeanItem(r, i)
<1>1. src[1] = ""
  BY FilesAreWords, Zenon DEF IsWord
<1>2. Name(i) = "" /\ i[1] = src
  BY <1>1, OneIs, Zenon
<1>3. Complete(i)
  BY <1>1, Zenon DEF Complete, GccValueFlags
<1>4. Meaningful!Run(r, i) = x
  BY <1>3, MeansItem, Zenon DEF GoodM
<1> HIDE DEF i
<1>5. x.inputs = <<<<src, r.lang>>>>
  <2> DEFINE t == <<src, r.lang>>
  <2>1. x.inputs = IF Name(i) = "" THEN Append(r.inputs, <<i[1], r.lang>>) ELSE r.inputs
    BY MeanItemFields, Zenon
  <2>2. Append(<<>>, t) = <<t>>
    OBVIOUS
  <2> HIDE DEF x
  <2>3. QED
    BY <1>2, <2>1, <2>2, Zenon
<1>6. x.dirs = r.dirs
  BY <1>2, SameDirs, Zenon
<1>7. x.forced = r.forced
  BY <1>2, SameForced, Zenon
<1>8. x.macros = r.macros
  BY <1>2, SameMacros, Zenon
<1>9. x.lang = r.lang
  BY <1>2, SameLang, Zenon
<1>10. x.stages = r.stages
  BY <1>2, SameStages, Zenon
<1>11. x.settings = r.settings
  <2>1. ~IsSetting(i)
    BY <1>2, Zenon DEF IsSetting
  <2>2. QED
    BY <2>1, SameSettings, Zenon
<1> HIDE DEF x
<1>12. QED
  BY <1>4, <1>5, <1>6, <1>7, <1>8, <1>9, <1>10, <1>11, Zenon DEF i

(* The language that is detected is the one that gcc would take the file for. *)
LEMMA DetectedAlike ==
  ASSUME NEW s, NEW t, s[1] = t[1], Ext(t[1]) \notin {".C", ".S"},
         s[2] = IF t[2] = "" THEN detectLanguage(t[1]) ELSE t[2]
  PROVE  Language(s) = Language(t)
<1> DEFINE d == detectLanguage(t[1])
           e == Ext(t[1])
<1>1. CASE t[2] # ""
  BY <1>1, Zenon DEF Language
<1>2. CASE t[2] = ""
  <2>1. s[2] = d
    BY <1>2, Zenon
  <2>2. Language(t) = IF e \in {".cc", ".cpp", ".cxx", ".c++", ".C"} THEN "c++"
                      ELSE IF e = ".S" THEN "assembler-with-cpp" ELSE d
    BY <1>2, Zenon DEF Language
  <2>3. e \in {".cc", ".cpp", ".cxx", ".c++"} => d = "c++"
    BY Zenon DEF detectLanguage, LowerExt
  <2>4. Language(t) = d
    BY <2>2, <2>3, Zenon
  <2>5. Language(s) = IF d \notin {"", "none"} THEN d ELSE Language(t)
    <3>1. CASE d \notin {"", "none"}
      BY <2>1, <3>1, Zenon DEF Language
    <3>2. CASE d \in {"", "none"}
      BY <1>2, <2>1, <3>2, Zenon DEF Language
    <3>3. QED
      BY <3>1, <3>2, Zenon
  <2>6. QED
    BY <2>4, <2>5, Zenon
<1>3. QED
  BY <1>1, <1>2

(* What the preprocessor sees of the source, m, is what the arguments w mean. *)
Previews(m, w, src) ==
  /\ m.dirs = w.dirs /\ m.forced = w.forced /\ m.macros = w.macros
  /\ StandardIn(m) = StandardIn(w) /\ FlagsIn(m) = FlagsIn(w)
  /\ Len(m.inputs) = 1 /\ m.inputs[1][1] = src /\ w.inputs[1][1] = src
  /\ w.lang = w.inputs[1][2] /\ Ext(src) \notin {".C", ".S"} =>
       Language(m.inputs[1]) = Language(w.inputs[1])
  /\ "-E" \in m.stages

LEMMA FlagsPreview ==
  ASSUME NEW V, Calm(V), NEW u \in Seq(V), NEW p, p = ParsedFrom(NothingParsed, u),
         NEW w, w = MeantFrom(NoMeaning, u), NEW l, NEW b,
         Begun(b, Joined("-I", p.includeDirs), Range(p.defines), Defs(V), p.standard, l),
         NEW r, r = Meaningful!Run(b, Seen(u))
  PROVE  /\ GoodM(r) /\ r.inputs = <<>> /\ r.lang = l /\ "-E" \in r.stages
         /\ r.dirs = w.dirs /\ r.forced = w.forced /\ r.macros = w.macros
         /\ StandardIn(r) = StandardIn(w) /\ FlagsIn(r) = FlagsIn(w) /\ w.lang = p.language
<1> DEFINE D == Defs(V)
           s == p.standard
<1>1. UserSide(p, w, D)
  BY UserSees, Zenon
<1>2. SeenSide(b, b, D, s) /\ b.forced = <<>> /\ FSame(b.settings, <<>>)
  BY Zenon DEF Begun, SeenSide
<1>3. SeenSide(r, b, D, s) /\ SeesAll(r, b, w, p.defines)
  BY <1>2, SeesFlags, Zenon
<1> HIDE DEF D, s
<1>4. GoodM(r) /\ r.inputs = <<>> /\ r.lang = l /\ "-E" \in r.stages
  BY <1>3, Zenon DEF SeenSide, Begun
<1>5. r.dirs = w.dirs /\ r.forced = w.forced /\ w.lang = p.language
  BY <1>1, <1>3, Zenon DEF SeenSide, SeesAll, Begun, UserSide
<1>6. r.macros = w.macros
  <2>1. Kinded(r.macros, D) /\ Kinded(w.macros, D)
    BY <1>1, <1>3, Zenon DEF SeenSide, UserSide
  <2>2. /\ DOMAIN r.macros \subseteq DOMAIN b.macros \cup DOMAIN w.macros
        /\ DOMAIN w.macros \subseteq Range(p.defines) \cup DOMAIN r.macros
        /\ DOMAIN b.macros = Range(p.defines) /\ DOMAIN b.macros \subseteq DOMAIN r.macros
        /\ Range(p.defines) \subseteq DOMAIN w.macros
    BY <1>1, <1>3, Zenon DEF SeenSide, SeesAll, Begun, UserSide
  <2>3. DOMAIN r.macros = DOMAIN w.macros
    BY <2>2, Zenon
  <2>4. QED
    BY <2>1, <2>3, KindedSame, Zenon
<1>7. StandardIn(r) = StandardIn(w)
  <2>1. StdIs(r.settings, s) /\ StdIs(w.settings, s)
    BY <1>1, <1>3, Zenon DEF SeenSide, UserSide, s
  <2>2. QED
    BY <2>1, SameStandard, Zenon
<1>8. FlagsIn(r) = FlagsIn(w)
  <2>1. Keyed(r.settings) /\ Keyed(w.settings) /\ FSame(r.settings, w.settings)
    BY <1>1, <1>3, Zenon DEF SeenSide, UserSide, SeesAll
  <2>2. QED
    BY <2>1, FSetSame, Zenon DEF FlagsIn
<1>9. QED
  BY <1>4, <1>5, <1>6, <1>7, <1>8

LEMMA PreprocessorSees ==
  ASSUME NEW V, Calm(V), NEW u \in Seq(V), NEW q, q = Parse(Args(u)), IsDistributable(q)
  PROVE  Previews(Meaning(buildPreprocessArgs(q, q.inputFiles[1])), MeantFrom(NoMeaning, u), q.inputFiles[1])
<1> DEFINE p == ParsedFrom(NothingParsed, u)
           w == MeantFrom(NoMeaning, u)
           src == q.inputFiles[1]
           pre == Preamble(q.includeDirs, q.defines, q.standard, q.language)
           b == Meaningful!Run(NoMeaning, pre)
           r == Meaningful!Run(b, Seen(u))
           m == Meaningful!Run(r, <<src>>)
           D == Defs(V)
<1>1. u \in Seq(Units)
  <2>1. V \subseteq Units
    BY Zenon DEF Calm
  <2>2. QED
    BY <2>1
<1>2. /\ q.flags = p.flags /\ q.inputFiles = p.inputFiles /\ q.includeDirs = p.includeDirs
      /\ q.defines = p.defines /\ q.standard = p.standard
      /\ q.language = IF p.language = "" /\ p.inputFiles # <<>>
                      THEN detectLanguage(p.inputFiles[1]) ELSE p.language
  BY <1>1, ParseIs, Zenon
<1>3. Collected(p) /\ p.standard \in Text
  BY <1>1, ParserCollects, StandardIsText, Zenon
<1>4. w.inputs[1][1] = src
  BY <1>1, Distributed, Zenon
<1>5. UserSide(p, w, D)
  BY UserSees, Zenon
<1>6. Seen(u) \in Seq(Arg)
  <2>1. FlagsOf(u) \in Seq(Arg)
    BY <1>1, StartsGood, ParsedGood, Zenon DEF FlagsOf, GoodP
  <2> DEFINE f == FlagsOf(u)
             S == Seq(Arg)
  <2>2. f \in Seq(Arg) /\ <<>> \in S
    BY <2>1
  <2>3. \A v \in S, a \in Arg : PreprocessStep(v, a) \in S
    BY DEF PreprocessStep
  <2> HIDE DEF f, S
  <2>4. Previewing!Run(<<>>, f) \in S
    BY <2>2, <2>3, Previewing!RunKeeps
  <2>5. QED
    BY <2>4 DEF f, S, Seen
<1>7. Seen(u) = FoldLeft(PreprocessStep, <<>>, q.flags)
  BY <1>2, PreviewRuns, Zenon DEF Seen, FlagsOf
<1>8. Preamble(q.includeDirs, q.defines, q.standard, q.language) = pre
  OBVIOUS
<1>9. buildPreprocessArgs(q, src) = pre \o Seen(u) \o <<src>>
  BY <1>7, Zenon DEF buildPreprocessArgs, Preamble, Joined
<1> HIDE DEF p, w
<1>10. q.language \in Text
  <2>1. p.language \in Text
    BY <1>3, Zenon DEF Collected
  <2>2. QED
    BY <1>2, <2>1, DetectedIsText, Zenon
<1>11. q.includeDirs \in Seq(Words) /\ q.defines \in Seq(D) /\ q.standard \in Text /\ D \subseteq Words
  BY <1>2, <1>3, <1>5, CalmDefs, Zenon DEF Collected, UserSide
<1>12. pre \in Seq(Arg) /\ Begun(b, Joined("-I", q.includeDirs), Range(q.defines), D, q.standard, q.language)
  BY <1>10, <1>11, PreambleBegins, Zenon
<1>13. src \in Arg /\ IsFile(src) /\ q.inputFiles # <<>>
  <2>1. q.inputFiles \in Seq(Files)
    BY <1>2, <1>3, Zenon DEF Collected
  <2>2. Len(q.inputFiles) = 1
    BY Zenon DEF IsDistributable
  <2> DEFINE t == q.inputFiles
  <2>3. t \in Seq(Files) /\ Len(t) = 1
    BY <2>1, <2>2
  <2> HIDE DEF t, src
  <2>4. t = <<t[1]>> /\ t[1] \in Files
    BY <2>3, LoneIs, Zenon
  <2>5. t # <<>>
    <3>1. Len(<<>>) # 1
      OBVIOUS
    <3>2. QED
      BY <2>3, <3>1, Zenon
  <2>6. src = t[1] /\ t[1] \in Arg /\ IsFile(t[1])
    BY <2>4, Zenon DEF t, src, Files
  <2>7. QED
    BY <2>5, <2>6, Zenon DEF t
<1>14. /\ GoodM(r) /\ r.inputs = <<>> /\ r.lang = q.language /\ "-E" \in r.stages
       /\ r.dirs = w.dirs /\ r.forced = w.forced /\ r.macros = w.macros
       /\ StandardIn(r) = StandardIn(w) /\ FlagsIn(r) = FlagsIn(w) /\ w.lang = p.language
  <2>1. Begun(b, Joined("-I", p.includeDirs), Range(p.defines), Defs(V), p.standard, q.language)
    BY <1>2, <1>12, Zenon DEF D
  <2>2. p = ParsedFrom(NothingParsed, u) /\ w = MeantFrom(NoMeaning, u) /\ r = Meaningful!Run(b, Seen(u))
    BY DEF p, w
  <2> HIDE DEF b, r
  <2>3. QED
    BY <2>1, <2>2, FlagsPreview
<1>15. Meaning(buildPreprocessArgs(q, src)) = m
  <2> DEFINE g == Seen(u)
             y == <<src>>
             all == pre \o g \o y
  <2>1. /\ pre \in Seq(Arg) /\ g \in Seq(Arg) /\ y \in Seq(Arg)
    BY <1>6, <1>12, <1>13
  <2>2. Meaning(buildPreprocessArgs(q, src)) = Meaningful!Run(NoMeaning, all)
    BY <1>9, MeaningRuns, Zenon DEF Meaning
  <2> HIDE DEF pre, g, y
  <2>3. pre \o g \in Seq(Arg)
    BY <2>1
  <2>4. Meaningful!Run(NoMeaning, (pre \o g) \o y) = Meaningful!Run(Meaningful!Run(NoMeaning, pre \o g), y)
    BY <2>1, <2>3, RunInto, Zenon
  <2>5. Meaningful!Run(NoMeaning, pre \o g) = Meaningful!Run(Meaningful!Run(NoMeaning, pre), g)
    BY <2>1, RunInto, Zenon
  <2>6. QED
    BY <2>2, <2>4, <2>5, Zenon DEF g, y
<1> HIDE DEF r, src
<1>16. /\ m.inputs = <<<<src, r.lang>>>> /\ m.dirs = r.dirs /\ m.forced = r.forced /\ m.macros = r.macros
       /\ m.settings = r.settings /\ m.lang = r.lang /\ m.stages = r.stages
  BY <1>13, <1>14, SourceLast, Zenon
<1> HIDE DEF m
<1>17. StandardIn(m) = StandardIn(r) /\ FlagsIn(m) = FlagsIn(r)
  BY <1>16, Zenon DEF StandardIn, FlagsIn
<1>18. Len(m.inputs) = 1 /\ m.inputs[1][1] = src /\ m.inputs[1][2] = q.language
  <2> DEFINE t == <<<<src, r.lang>>>>
  <2>1. Len(t) = 1 /\ t[1][1] = src /\ t[1][2] = r.lang
    OBVIOUS
  <2>2. m.inputs = t /\ r.lang = q.language
    BY <1>14, <1>16
  <2> HIDE DEF t
  <2>3. QED
    BY <2>1, <2>2, Zenon
<1>19. ASSUME w.lang = w.inputs[1][2], Ext(src) \notin {".C", ".S"}
       PROVE  Language(m.inputs[1]) = Language(w.inputs[1])
  <2> DEFINE g == m.inputs[1]
             h == w.inputs[1]
  <2>1. p.inputFiles # <<>> /\ p.inputFiles[1] = src /\ p.language = h[2]
    BY <1>2, <1>13, <1>14, <1>19, Zenon DEF src
  <2>2. g[1] = h[1] /\ Ext(h[1]) \notin {".C", ".S"}
    BY <1>4, <1>18, <1>19, Zenon
  <2>3. g[2] = IF h[2] = "" THEN detectLanguage(h[1]) ELSE h[2]
    BY <1>2, <1>4, <1>18, <2>1, Zenon
  <2> HIDE DEF g, h
  <2>4. Language(g) = Language(h)
    BY <2>2, <2>3, DetectedAlike, Zenon
  <2>5. QED
    BY <2>4 DEF g, h
<1>20. Previews(m, w, src)
  BY <1>4, <1>14, <1>16, <1>17, <1>18, <1>19, Zenon DEF Previews
<1>21. QED
  BY <1>15, <1>20, Zenon DEF src, w

LEMMA PreprocessServes ==
  ASSUME cmd \in Seq(Items)
  PROVE  PreprocessFaithful
<1> DEFINE meant == Meaning(ForCompiler)
           seen == Meaning(buildPreprocessArgs(Parsed, Parsed.inputFiles[1]))
           names(f) == {i[Len(i)][2] : i \in {x \in Range(cmd) : x[1][1] = f}}
           S == {i \in Items : ~UnknownValue(i) /\ i \in Range(cmd)}
           V == {i \in S : Name(i) \notin HgbuildFlags}
<1>1. ASSUME IsDistributable(Parsed), ~\E i \in Range(cmd) : UnknownValue(i), names("-D") \cap names("-U") = {}
      PROVE  Previews(seen, meant, Parsed.inputFiles[1])
  <2>1. cmd \in Seq(S)
    <3>1. Len(cmd) \in Nat /\ DOMAIN cmd = 1..Len(cmd) /\ cmd = [n \in 1..Len(cmd) |-> cmd[n]]
      OBVIOUS
    <3>2. ASSUME NEW n \in 1..Len(cmd) PROVE cmd[n] \in S
      <4>1. cmd[n] \in Items
        OBVIOUS
      <4>2. cmd[n] \in Range(cmd)
        BY <3>1, Zenon DEF Range
      <4>3. QED
        BY <1>1, <4>1, <4>2, Zenon
    <3> HIDE DEF S
    <3>3. QED
      BY <3>1, <3>2
  <2>2. Calm(V)
    <3>1. V \subseteq Units
      BY Zenon DEF Units, TakenForInput
    <3>2. ASSUME NEW i \in V PROVE ~UnknownValue(i) /\ (Name(i) = "-U" => Val(i) \notin Defs(V))
      <4>1. Defs(V) \subseteq names("-D")
        BY Zenon DEF Defs, Name, Val
      <4>2. Name(i) = "-U" => Val(i) \in names("-U")
        BY Zenon DEF Name, Val
      <4>3. ~UnknownValue(i)
        BY Zenon
      <4> HIDE DEF names, V
      <4>4. QED
        BY <1>1, <4>1, <4>2, <4>3, Zenon
    <3> HIDE DEF V
    <3>3. QED
      BY <3>1, <3>2, Zenon DEF Calm
  <2>3. S \subseteq Items
    OBVIOUS
  <2>4. PICK u \in Seq(V) : Meant(cmd) = Args(u)
    <3> DEFINE T == S
    <3>1. cmd \in Seq(T) /\ T \subseteq Items /\ V = {i \in T : Name(i) \notin HgbuildFlags}
      BY <2>1, <2>3
    <3> HIDE DEF S, V, T
    <3>2. QED
      BY <3>1, MeantIsArgs
  <2> HIDE DEF V, S, names
  <2>5. Parsed = Parse(Args(u)) /\ ForCompiler = Args(u)
    BY <2>4, ParsesWhatIsMeant, Zenon
  <2>6. meant = MeantFrom(NoMeaning, u)
    BY <2>5, MeaningRuns, Zenon DEF Meaning, MeantFrom
  <2> DEFINE q == Parsed
  <2>7. q = Parse(Args(u)) /\ IsDistributable(q)
    BY <1>1, <2>5, Zenon
  <2> HIDE DEF q
  <2>8. Previews(Meaning(buildPreprocessArgs(q, q.inputFiles[1])), MeantFrom(NoMeaning, u), q.inputFiles[1])
    BY <2>2, <2>7, PreprocessorSees, Zenon
  <2>9. QED
    BY <2>6, <2>8, Zenon DEF q
<1> HIDE DEF S, V
<1>2. QED
  BY <1>1, Zenon DEF PreprocessFaithful, Previews, StandardIn, FlagsIn, Std

(* For the same command lines, provided the parser knows every flag with a value and  *)
(* no macro is both defined and undefined: the command that buildPreprocessArgs makes *)
(* gives the preprocessor the user's include path, forced includes, macros, standard, *)
(* -f flags and source.  It takes the source for the language that gcc would, unless  *)
(* an -x after the source names another or its name ends in .C or .S.  What -O, -m    *)
(* and -pthread predefine is not claimed: buildPreprocessArgs does not pass them.     *)
THEOREM PreprocessingIsFaithful == CmdSpec => []PreprocessFaithful
<1>1. cmd \in Seq(Items) => PreprocessFaithful
  BY PreprocessServes
<1>2. QED
  BY <1>1, CommandsInvariant, PTL

=============================================================================
