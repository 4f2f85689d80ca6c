---------------------------- MODULE CommandLines ----------------------------
(***************************************************************************)
(* The path of a compiler command line through the system: hgbuild drops   *)
(* its own flags (cmd/hgbuild/main.go), parses the rest                    *)
(* (internal/compiler/parser.go), derives a preprocessor command, a cache  *)
(* key and the arguments for the worker (preprocess.go, cache/key.go,      *)
(* cli/build/build.go), and the executor turns these into the command it   *)
(* runs (executor/native.go, docker.go, msvc.go and fallback/local.go).    *)
(*                                                                         *)
(* An argument is a pair: <<"-O", "2">> is -O2, <<"-c", "">> is -c,        *)
(* <<"", "a.c">> is a word.  The prefix that the code tests for is the     *)
(* first component.                                                        *)
(***************************************************************************)
EXTENDS Integers, Sequences, SequencesExt

CONSTANTS
  ExtOf,       \* file name extension of the words that have one
  TextOrder    \* the arguments that are sorted for a key, in byte order

Flag(f) == <<f, "">>
Word(w) == <<"", w>>
IsWord(a) == a[1] = ""
Ext(a) == IF IsWord(a) /\ a[2] \in DOMAIN ExtOf THEN ExtOf[a[2]] ELSE ""

\* filepath.Ext and strings.ToLower.
LowerExt(a) == CASE Ext(a) = ".C" -> ".c"
                 [] Ext(a) = ".S" -> ".s"
                 [] OTHER -> Ext(a)

-----------------------------------------------------------------------------
(* hgbuild. *)

HgbuildFlags == {"--coordinator", "-C", "--timeout", "--insecure",
                 "--no-fallback", "--verbose", "-v"}

\* The value of a separate --coordinator or --timeout is left in.
FilterStepNoSkip(s, a) ==
  IF a[1] \in HgbuildFlags THEN s ELSE [s EXCEPT !.out = Append(@, a)]

FilterStep(s, a) ==
  IF s.skip THEN [s EXCEPT !.skip = FALSE]
  ELSE IF a[1] \in HgbuildFlags
       THEN [s EXCEPT !.skip = a \in {Flag("--coordinator"), Flag("-C"),
                                      Flag("--timeout")}]
  ELSE [s EXCEPT !.out = Append(@, a)]

filterHgbuildFlags(args) ==
  FoldLeft(FilterStep, [skip |-> FALSE, out |-> <<>>], args).out

-----------------------------------------------------------------------------
(* compiler.Parse. *)

isSourceFile(a) ==
  LowerExt(a) \in {".c", ".cc", ".cpp", ".cxx", ".c++", ".m", ".mm", ".s"}

isObjectFile(a) == LowerExt(a) \in {".o", ".obj"}

detectLanguage(a) ==
  LET e == LowerExt(a)
  IN CASE e = ".c" -> "c"
       [] e \in {".cc", ".cpp", ".cxx", ".c++"} -> "c++"
       [] e = ".m" -> "objective-c"
       [] e = ".mm" -> "objective-c++"
       [] e = ".s" -> "assembler"
       [] OTHER -> ""

NothingParsed ==
  [compileOnly |-> FALSE, preprocess |-> FALSE, flags |-> <<>>,
   inputFiles |-> <<>>, includeDirs |-> <<>>, defines |-> <<>>,
   outputFile |-> "", language |-> "", standard |-> "", pending |-> <<>>]

AddFlag(p, a) == [p EXCEPT !.flags = Append(@, a)]

\* Flags whose value the parser looks for in the next argument.
ParsedValueFlags == {"-o", "-I", "-D", "-x", "-march", "-mtune"}

\* The flag f with its value v, joined or separate.
WithValue(p, f, v) ==
  CASE f = "-o" -> [p EXCEPT !.outputFile = v]
    [] f = "-I" -> [p EXCEPT !.includeDirs = Append(@, v)]
    [] f = "-D" -> [p EXCEPT !.defines = Append(@, v)]
    [] f = "-x" -> [p EXCEPT !.language = v]
    [] OTHER -> [p EXCEPT !.flags = @ \o <<Flag(f), Word(v)>>]

ParseStep(p, a) ==
  IF p.pending # <<>>
  THEN [WithValue(p, p.pending[1], a[2]) EXCEPT !.pending = <<>>]
  ELSE IF a[1] \in ParsedValueFlags /\ a[2] = ""
       THEN [p EXCEPT !.pending = <<a[1]>>]
  ELSE IF a[1] \in {"-o", "-I", "-D", "-x"} THEN WithValue(p, a[1], a[2])
  ELSE CASE a[1] = "-c" -> [AddFlag(p, a) EXCEPT !.compileOnly = TRUE]
         [] a[1] = "-E" -> [AddFlag(p, a) EXCEPT !.preprocess = TRUE]
         [] a[1] = "-std=" -> [AddFlag(p, a) EXCEPT !.standard = a[2]]
         [] isSourceFile(a) \/ isObjectFile(a) ->
              [p EXCEPT !.inputFiles = Append(@, a)]
         [] OTHER -> AddFlag(p, a)

\* The arguments after the compiler's name.  A value that is missing at the end
\* is ignored.
Parse(args) ==
  LET p == FoldLeft(ParseStep, NothingParsed, args)
  IN IF p.language = "" /\ p.inputFiles # <<>>
     THEN [p EXCEPT !.language = detectLanguage(p.inputFiles[1])] ELSE p

IsDistributable(p) ==
  p.compileOnly /\ Len(p.inputFiles) = 1 /\ isSourceFile(p.inputFiles[1])

\* ParsedArgs.ToArgs (the compiler's name left out).
ToArgs(p) ==
  LET joined(f, vs) == [i \in 1..Len(vs) |-> <<f, vs[i]>>]
  IN joined("-I", p.includeDirs) \o joined("-D", p.defines)
     \o (IF p.language = "" THEN <<>> ELSE <<Flag("-x"), Word(p.language)>>)
     \o p.flags \o p.inputFiles
     \o (IF p.outputFile = "" THEN <<>> ELSE <<Flag("-o"), Word(p.outputFile)>>)

-----------------------------------------------------------------------------
(* What the client derives from the parsed arguments. *)

\* -U is forgotten in the list of prefixes.
PreprocessingFlagNoUndef(a) ==
  a[1] \in {"-include", "-imacros", "-isystem", "-idirafter", "-iprefix",
            "-nostdinc", "-trigraphs", "-fno-", "-f", "-ansi", "-traditional"}

isPreprocessingFlag(a) ==
  a[1] \in {"-U", "-include", "-imacros", "-isystem", "-idirafter", "-iprefix",
            "-nostdinc", "-trigraphs", "-fno-", "-f", "-ansi", "-traditional"}

PreprocessStep(out, a) == IF isPreprocessingFlag(a) THEN Append(out, a) ELSE out

buildPreprocessArgs(p, source) ==
  LET joined(f, vs) == [i \in 1..Len(vs) |-> <<f, vs[i]>>]
  IN <<Flag("-E")>> \o joined("-I", p.includeDirs) \o joined("-D", p.defines)
     \o (IF p.standard = "" THEN <<>> ELSE <<<<"-std=", p.standard>>>>)
     \o (IF p.language = "" THEN <<>> ELSE <<Flag("-x"), Word(p.language)>>)
     \o FoldLeft(PreprocessStep, <<>>, p.flags)
     \o <<source>>

\* The loops that pass arguments on drop a flag in valued with its value, an
\* argument in bare, one that begins with a flag in prefixed and one that has an
\* extension in exts.
Drop(bare, prefixed, valued, exts) ==
  [bare |-> bare, prefixed |-> prefixed, valued |-> valued, exts |-> exts]

DropStep(s, a) ==
  IF s.skip THEN [s EXCEPT !.skip = FALSE]
  ELSE IF a[1] \in s.drop.valued /\ a[2] = "" THEN [s EXCEPT !.skip = TRUE]
  ELSE IF a \in s.drop.bare \/ a[1] \in s.drop.prefixed \/ Ext(a) \in s.drop.exts THEN s
  ELSE [s EXCEPT !.out = Append(@, a)]

Without(args, drop) ==
  FoldLeft(DropStep, [drop |-> drop, skip |-> FALSE, out |-> <<>>], args).out

StandardOf(p) == IF p.standard = "" THEN <<>> ELSE <<<<"-std=", p.standard>>>>

\* Args of a preprocessed compilation.
buildRemoteArgs(p) ==
  <<Flag("-c")>> \o Without(p.flags, Drop({}, {"-I", "-D"}, {}, {})) \o StandardOf(p)

\* Args of a raw compilation: all of Flags, which holds neither -I nor -D.
buildRemoteArgsForRaw(p) == <<Flag("-c")>> \o p.flags \o StandardOf(p)

\* AddSortedStrings.
Sorted(texts) ==
  LET rank(x) == CHOOSE n \in 1..Len(TextOrder) : TextOrder[n] = x
  IN SortSeq(texts, LAMBDA x, y : rank(x) < rank(y))

\* The definitions are left out of the key.
KeyWithoutDefines(p, sourceHash) == Sorted(p.flags) \o <<Word(sourceHash)>>

\* What CompilationKey.Build hashes, after the compiler and the architecture:
\* strings that each end in a zero byte, so that this sequence determines the
\* bytes.  Nothing marks where the flags end and the definitions begin.
CompilationKey(p, sourceHash) ==
  Sorted(p.flags) \o Sorted([i \in 1..Len(p.defines) |-> Word(p.defines[i])])
  \o <<Word(sourceHash)>>

-----------------------------------------------------------------------------
(* What the executors make of the arguments. *)

InputExts == {".c", ".cc", ".cpp", ".cxx", ".C", ".i", ".ii", ".s", ".S"}

isInputFile(a) == Ext(a) \in InputExts

\* NativeExecutor.buildArgs
buildArgs(args, src, out) ==
  LET kept == Without(args, Drop({}, {}, {"-o"}, InputExts))
  IN kept \o (IF Flag("-c") \in Range(kept) THEN <<>> ELSE <<Flag("-c")>>)
     \o <<src, Flag("-o"), Word(out)>>

\* NativeExecutor.setupRawSourceMode
rawArgs(args, src, out, bundled) ==
  <<Flag("-c")>> \o (IF bundled THEN <<<<"-I", "includes">>>> ELSE <<>>)
  \o Without(args, Drop({Flag("-c")}, {}, {"-o"}, InputExts))
  \o <<src, Flag("-o"), Word(out)>>

\* DockerExecutor.buildCommand
buildCommand(args, src, out) ==
  <<Flag("-c")>> \o Without(args, Drop({Flag("-c")}, {}, {"-o"}, InputExts))
  \o <<src, Flag("-o"), Word(out)>>

\* DockerExecutor.buildRawCommand: every -I of the client gives way to the
\* directories of the bundled headers.
buildRawCommand(args, src, out, includePaths) ==
  <<Flag("-c")>> \o [i \in 1..Len(includePaths) |-> <<"-I", includePaths[i]>>]
  \o Without(args, Drop({Flag("-c")}, {"-I"}, {"-o", "-I"}, InputExts))
  \o <<src, Flag("-o"), Word(out)>>

\* buildArgs of the local fallback; its isSourceFile knows .m and .mm too.
fallbackArgs(args, src, out) ==
  (IF Flag("-c") \in Range(args) THEN <<>> ELSE <<Flag("-c")>>)
  \o Without(args, Drop({}, {}, {"-o"}, InputExts \cup {".m", ".mm"}))
  \o <<src, Flag("-o"), Word(out)>>

-----------------------------------------------------------------------------
(* MSVC. *)

\* GCCToMSVCFlags, by the prefix under which it is looked up.  Flags that are not
\* listed translate to nothing.
GCCToMSVCFlags(a) ==
  LET to(f) == <<Flag(f)>>
  IN CASE a[1] = "-O" ->
            (CASE a[2] = "0" -> to("/Od")
               [] a[2] \in {"1", "s"} -> to("/O1")
               [] a[2] = "2" -> to("/O2")
               [] a[2] = "3" -> to("/Ox")
               [] a[2] = "fast" -> to("/Ox") \o to("/fp:fast")
               [] OTHER -> <<>>)
       [] a[1] = "-g" -> IF a[2] \in {"", "1", "2", "3"} THEN to("/Zi") ELSE <<>>
       [] a[1] = "-W" -> (CASE a[2] \in {"all", "extra"} -> to("/W4")
                            [] a[2] = "error" -> to("/WX")
                            [] OTHER -> <<>>)
       [] a[1] = "-w" -> to("/W0")
       [] a[1] = "-std=" ->
            (CASE a[2] \in {"c11", "gnu11"} -> to("/std:c11")
               [] a[2] \in {"c17", "gnu17"} -> to("/std:c17")
               [] a[2] \in {"c++11", "c++14", "gnu++11", "gnu++14"} -> to("/std:c++14")
               [] a[2] \in {"c++17", "gnu++17"} -> to("/std:c++17")
               [] a[2] \in {"c++20", "gnu++20"} -> to("/std:c++20")
               [] a[2] = "c++23" -> to("/std:c++latest")
               [] OTHER -> <<>>)
       [] a[1] = "-f" -> (CASE a[2] = "exceptions" -> to("/EHsc")
                            [] a[2] = "rtti" -> to("/GR")
                            [] a[2] = "inline-functions" -> to("/Ob2")
                            [] a[2] \in {"stack-protector", "stack-protector-all",
                                         "stack-protector-strong"} -> to("/GS")
                            [] OTHER -> <<>>)
       [] a[1] = "-fno-" -> (CASE a[2] = "exceptions" -> to("/EHs-c-")
                               [] a[2] = "rtti" -> to("/GR-")
                               [] a[2] \in {"inline", "inline-functions"} -> to("/Ob0")
                               [] a[2] = "stack-protector" -> to("/GS-")
                               [] OTHER -> <<>>)
       [] a[1] = "-c" -> to("/c")
       [] a[1] = "-E" -> to("/EP")
       [] a[1] = "-P" -> to("/P")
       [] OTHER -> <<>>

\* A flag with its value.
MSVCValue(f, v) ==
  CASE f = "-o" -> IF Ext(Word(v)) \in {".o", ".obj"} THEN <<<<"/Fo", v>>>>
                   ELSE <<<<"/Fe", v>>>>
    [] f = "-I" -> <<<<"/I", v>>>>
    [] f = "-D" -> <<<<"/D", v>>>>
    [] f = "-U" -> <<<<"/U", v>>>>
    [] f = "-x" -> IF v = "c" THEN <<Flag("/Tc")>>
                   ELSE IF v = "c++" THEN <<Flag("/Tp")>> ELSE <<>>

TranslateStep(s, a) ==
  IF s.pending # <<>>
  THEN [pending |-> <<>>, out |-> s.out \o MSVCValue(s.pending[1], a[2])]
  ELSE IF a[1] \in {"-o", "-I", "-D", "-U", "-x"} /\ a[2] = ""
       THEN [s EXCEPT !.pending = <<a[1]>>]
  ELSE [s EXCEPT !.out = @ \o
          IF IsWord(a) THEN <<a>>
          ELSE IF a[1] \in {"-o", "-I", "-D", "-U"} THEN MSVCValue(a[1], a[2])
          ELSE GCCToMSVCFlags(a)]

\* A value that is missing at the end is an empty one (nothing for -x).
TranslateToMSVC(args) ==
  LET s == FoldLeft(TranslateStep, [pending |-> <<>>, out |-> <<>>], args)
  IN s.out \o IF s.pending = <<>> THEN <<>> ELSE MSVCValue(s.pending[1], "")

\* MSVCToCLFlags
MSVCToCLFlags(args) ==
  LET absent(fs, f) == IF Range(args) \cap {Flag(x) : x \in fs} = {}
                       THEN <<Flag(f)>> ELSE <<>>
  IN args \o absent({"/nologo"}, "/nologo")
     \o absent({"/EHsc", "/EHs-c-"}, "/EHsc")
     \o absent({"/permissive-"}, "/permissive-")

\* What both modes of the MSVC executor leave out of the translation.
msvcKept(args) == Without(args, Drop({Flag("/c")}, {"/Fo", "/Fe"}, {}, InputExts))

msvcBuildArgs(args, src, out) ==
  <<Flag("/c")>> \o msvcKept(MSVCToCLFlags(TranslateToMSVC(args)))
  \o <<src, <<"/Fo", out>>>>

msvcRawArgs(args, src, out, bundled) ==
  <<Flag("/c"), Flag("/nologo"), Flag("/EHsc")>>
  \o (IF bundled THEN <<<<"/I", "includes">>>> ELSE <<>>)
  \o msvcKept(TranslateToMSVC(args)) \o <<src, <<"/Fo", out>>>>

-----------------------------------------------------------------------------
(***************************************************************************)
(* The reference: what gcc and cl.exe do with their arguments (external).  *)
(***************************************************************************)

\* An input is a file with the language that the -x before it names, "" if none:
\* a later -x is of no effect to it.
GccValueFlags == {"-o", "-I", "-D", "-U", "-x", "-include", "-isystem", "-MF", "-MT"}

Set(f, k, v) == [x \in DOMAIN f \cup {k} |-> IF x = k THEN v ELSE f[x]]

NoMeaning == [pending |-> <<>>, inputs |-> <<>>, output |-> "", lang |-> "",
              stages |-> {}, dirs |-> <<>>, forced |-> <<>>, macros |-> <<>>,
              deps |-> <<>>, settings |-> <<>>]

GccValue(m, f, v) ==
  CASE f = "-o" -> [m EXCEPT !.output = v]
    [] f = "-x" -> [m EXCEPT !.lang = v]
    [] f \in {"-D", "-U"} -> [m EXCEPT !.macros = Set(@, v, f)]
    [] f \in {"-I", "-isystem"} -> [m EXCEPT !.dirs = Append(@, <<f, v>>)]
    [] f = "-include" -> [m EXCEPT !.forced = Append(@, v)]
    [] OTHER -> [m EXCEPT !.deps = Append(@, <<f, v>>)]

\* Of the flags that set the same thing the last one counts.
SettingOf(a) == CASE a[1] \in {"-O", "-std=", "-g"} -> Flag(a[1])
                  [] a[1] \in {"-f", "-fno-"} -> <<"-f", a[2]>>
                  [] OTHER -> a

GccStep(m, a) ==
  IF m.pending # <<>>
  THEN [GccValue(m, m.pending[1], a[2]) EXCEPT !.pending = <<>>]
  ELSE IF a[1] \in GccValueFlags
       THEN IF a[2] = "" THEN [m EXCEPT !.pending = <<a[1]>>]
            ELSE GccValue(m, a[1], a[2])
  ELSE IF IsWord(a) THEN [m EXCEPT !.inputs = Append(@, <<a, m.lang>>)]
  ELSE IF a[1] \in {"-c", "-S", "-E"} THEN [m EXCEPT !.stages = @ \cup {a[1]}]
  ELSE [m EXCEPT !.settings = Set(@, SettingOf(a), a)]

Meaning(args) == FoldLeft(GccStep, NoMeaning, args)

\* What gcc takes an input for: what -x names, or what the name of the file tells.
Language(input) ==
  LET e == Ext(input[1])
  IN CASE input[2] \notin {"", "none"} -> input[2]
       [] input[2] \in {"", "none"} /\ e \in {".cc", ".cpp", ".cxx", ".c++", ".C"} -> "c++"
       [] input[2] \in {"", "none"} /\ e = ".S" -> "assembler-with-cpp"
       [] OTHER -> detectLanguage(input[1])

\* cl.exe: its files, and the optimization and exception model that count.
ClStep(m, a) ==
  CASE IsWord(a) -> [m EXCEPT !.inputs = Append(@, a)]
    [] a[1] \in {"/Fo", "/Fe"} -> [m EXCEPT !.outputs = Append(@, a)]
    [] a[1] \in {"/Od", "/O1", "/O2", "/Ox"} -> [m EXCEPT !.opt = a[1]]
    [] a[1] \in {"/EHsc", "/EHs-c-"} -> [m EXCEPT !.eh = a[1]]
    [] OTHER -> m

ClMeaning(args) ==
  FoldLeft(ClStep, [inputs |-> <<>>, outputs |-> <<>>, opt |-> "", eh |-> ""], args)

-----------------------------------------------------------------------------
(* Command lines, built up from items: an argument, or a flag and its value. *)

CONSTANTS
  Items,       \* the items a command line may have
  FirstItems,  \* what a command line begins with
  MaxItems     \* bound on the items added to it

\* The flags that are written with a separate value.
SeparateFlags == GccValueFlags \cup {"--coordinator", "-C", "--timeout"}

\* A flag by itself, or with its value joined to it.
IsLoneFlag(a) ==
  /\ ~IsWord(a)
  /\ a[2] = "" => a[1] \notin SeparateFlags \cup {"-march", "-mtune"}
  /\ a[1] \in {"-c", "-S", "-E"} => a[2] = ""
  /\ a[1] = "-O" => a[2] \in {"0", "1", "2", "3", "s", "fast"}
  /\ a[1] # "-isystem"

IsItem(i) ==
  \/ Len(i) = 1 /\ (isSourceFile(i[1]) \/ isObjectFile(i[1]) \/ IsLoneFlag(i[1]))
  \/ /\ Len(i) = 2 /\ i[1][1] \in SeparateFlags /\ i[1][2] = ""
     /\ IsWord(i[2]) /\ i[2][2] # ""

\* What is written are files, flags, and flags with a value, as gcc knows them.
ASSUME CommandAssumption ==
  /\ Items \subseteq Seq(STRING \X STRING) /\ \A i \in Items : IsItem(i)
  /\ FirstItems \subseteq Seq(Items)
  /\ MaxItems \in Nat

VARIABLES
  cmd          \* what the user wrote after hgbuild cc, as a sequence of items

CmdInit == cmd \in FirstItems

CmdNext == /\ Len(cmd) < MaxItems
           /\ \E i \in Items : cmd' = Append(cmd, i)

CmdSpec == CmdInit /\ [][CmdNext]_cmd

\* The arguments on the command line, those meant for the compiler, and what is
\* left after hgbuild took its own away.
JoinStep(args, i) == args \o i
MeantStep(args, i) == IF i[1][1] \in HgbuildFlags THEN args ELSE args \o i

Given == FoldLeft(JoinStep, <<>>, cmd)
MeantForCompiler(items) == FoldLeft(MeantStep, <<>>, items)
ForCompiler == MeantForCompiler(cmd)
Parsed == Parse(filterHgbuildFlags(Given))

\* Flags with a separate value that the parser takes for two flags, or for a
\* flag and an input file.
UnknownValue(i) == Len(i) = 2 /\ i[1][1] \in {"-U", "-include", "-isystem", "-MF", "-MT"}
TakenForInput(i) ==
  UnknownValue(i) /\ (isSourceFile(i[2]) \/ isObjectFile(i[2]) \/ isInputFile(i[2]))

\* An item whose value cl.exe is left with, and takes for one more input.
StrayInput(i) == UnknownValue(i) /\ i[1][1] # "-U"

\* The command a worker or the fallback runs for a distributed compilation,
\* preprocessed or raw, natively, in a container or with cl.exe, asks for the
\* user's settings: hgbuild's own flags are gone with their values, one input
\* and one output (the executor's) are left, of several flags for one setting
\* the last one still counts.  A command is distributed exactly when gcc would
\* compile one source file to an object, and ToArgs parses back to the same
\* arguments.  What the code does not keep is excepted: a value that the parser
\* does not know must not look like a file; a command with -E or -S is
\* distributed as well; the values of -include, -isystem, -MF and -MT are inputs
\* to cl.exe; and no command names a language, so that an -x before the source is
\* lost (and source.i is C to gcc whatever the source was).
CommandsFaithful ==
  LET meant == Meaning(ForCompiler)
      src == Word("source.i")
      args == buildRemoteArgs(Parsed)
      raw == buildRemoteArgsForRaw(Parsed)
      setting(k, default) == IF k \in DOMAIN meant.settings
                             THEN GCCToMSVCFlags(meant.settings[k])[1][1] ELSE default
  IN (\A i \in Range(cmd) : ~TakenForInput(i)) =>
     /\ meant.stages \subseteq {"-c"} =>
          (IsDistributable(Parsed) <=>
             /\ meant.stages = {"-c"}
             /\ Len(meant.inputs) = 1 /\ isSourceFile(meant.inputs[1][1]))
     /\ Parse(ToArgs(Parsed)) = [Parsed EXCEPT !.pending = <<>>]
     /\ IsDistributable(Parsed) =>
          /\ \A run \in {buildArgs(args, src, "output.o"),
                         rawArgs(raw, src, "output.o", TRUE),
                         buildCommand(args, src, "output.o"),
                         buildRawCommand(raw, src, "output.o", <<"d">>),
                         fallbackArgs(args, src, "output.o")} :
               LET m == Meaning(run)
               IN /\ m.settings = meant.settings
                  /\ m.stages = meant.stages
                  /\ m.deps = meant.deps
                  /\ m.inputs = <<<<src, "">>>>
                  /\ m.output = "output.o"
          /\ \A run \in {msvcBuildArgs(args, src, "output.obj"),
                         msvcRawArgs(raw, src, "output.obj", TRUE)} :
               LET m == ClMeaning(run)
               IN /\ Last(m.inputs) = src
                  /\ (\A i \in Range(cmd) : ~StrayInput(i)) => m.inputs = <<src>>
                  /\ m.outputs = <<<<"/Fo", "output.obj">>>>
                  /\ m.opt = setting(Flag("-O"), "")
                  /\ m.eh = setting(<<"-f", "exceptions">>, "/EHsc")

\* The preprocessor is given the user's include path, forced includes, macros,
\* -f flags, standard and source, and takes the source for the language that gcc
\* would; provided no flag has a value that the parser does not know, and no macro
\* is both defined and undefined (all -D go before all -U).  The language is
\* excepted when -x names another one after the source, which the code applies to
\* it, and for .C and .S, whose names the code reads in lower case.  The -O, -m and
\* -pthread flags are not passed: a header that tests the macros they predefine
\* sees others than in a local compilation.
PreprocessFaithful ==
  LET meant == Meaning(ForCompiler)
      source == Parsed.inputFiles[1]
      seen == Meaning(buildPreprocessArgs(Parsed, source))
      std == Flag("-std=")
      standard(m) == IF std \in DOMAIN m.settings THEN m.settings[std] ELSE std
      names(f) == {i[Len(i)][2] : i \in {x \in Range(cmd) : x[1][1] = f}}
      fset(m) == {x \in Range(m.settings) : x[1] \in {"-f", "-fno-"}}
  IN /\ IsDistributable(Parsed)
     /\ ~\E i \in Range(cmd) : UnknownValue(i)
     /\ names("-D") \cap names("-U") = {}
     => /\ seen.dirs = meant.dirs
        /\ seen.forced = meant.forced
        /\ seen.macros = meant.macros
        /\ standard(seen) = standard(meant)
        /\ fset(seen) = fset(meant)
        /\ Len(seen.inputs) = 1 /\ seen.inputs[1][1] = source /\ meant.inputs[1][1] = source
        /\ meant.lang = meant.inputs[1][2] /\ Ext(source) \notin {".C", ".S"} =>
             Language(seen.inputs[1]) = Language(meant.inputs[1])
        /\ "-E" \in seen.stages

\* Two command lines for one source text that share a cache key ask for the same
\* settings and the same macros, provided neither sets the same thing twice
\* (sorting the flags forgets which came last), has a flag with a value that the
\* parser does not know (-include a -U b and -include b -U a have one key), or
\* names a language (which the key leaves out).
KeyTellsFlags ==
  LET sets(i) == IF i[1][1] \in {"-D", "-U"} THEN Word(Last(i)[2])
                 ELSE SettingOf(i[1])
      single(items) == \A i, j \in 1..Len(items) :
                         i # j => sets(items[i]) # sets(items[j])
      known(items) == \A i \in Range(items) : ~UnknownValue(i) /\ i[1][1] # "-x"
      others == {<<<<Flag("-c")>>, <<Word("a.c")>>>> \o s : s \in SeqOf(Items, 2)}
  IN IsDistributable(Parsed) /\ single(cmd) /\ known(cmd) =>
       \A items \in others :
         LET args == MeantForCompiler(items)
         IN known(items) /\ CompilationKey(Parsed, "h") = CompilationKey(Parse(args), "h") =>
              /\ Meaning(args).settings = Meaning(ForCompiler).settings
              /\ Meaning(args).macros = Meaning(ForCompiler).macros

=============================================================================
