------------------------------ MODULE DepGraph ------------------------------
(***************************************************************************)
(* The dependency graph that hgbuild graph draws (internal/graph): the     *)
(* line by line parser of Makefiles, and the parser of                     *)
(* compile_commands.json.                                                  *)
(*                                                                         *)
(* A line is what the parser's regular expressions make of it: a rule, a   *)
(* pattern rule, a recipe line (it begins with a tab), a blank or comment  *)
(* line, an assignment with :=, which the expression for rules matches     *)
(* too, or something else (an assignment with =, .PHONY, a rule with       *)
(* several targets, a rule without prerequisites).  A file is a pair of    *)
(* directory and name.                                                     *)
(***************************************************************************)
EXTENDS Integers, Sequences, SequencesExt, FiniteSets

CONSTANTS
  FileExt,     \* [names -> extension in lower case, "" for none]
  ObjName,     \* [source names -> the name with extension .o]
  MakeLines,   \* the lines a Makefile may have
  CompileCommands,  \* the entries compile_commands.json may have
  MaxLines     \* bound on the lines or entries of a file

\* deps begin with a dot or a dollar sign.
SpecialNames == {".FORCE", "$(OBJS)"}

LineKinds == {"rule", "pattern", "assign", "recipe", "blank", "other", "more"}

ASSUME GraphAssumption ==
  /\ MakeLines \subseteq [kind : LineKinds, target : STRING, stem : STRING,
                          deps : Seq(STRING), cont : BOOLEAN]
  /\ \A l \in MakeLines : l.kind # "pattern" => l.stem = ""
  /\ MaxLines \in Nat

NoLine == [kind |-> "none", target |-> "", stem |-> "", deps |-> <<>>,
           cont |-> FALSE]

VARIABLES
  graphFile,   \* "Makefile" or "compile_commands.json"
  given,       \* what was read of it so far
  joined,      \* lines that end in a backslash, waiting for their continuation
  parse,       \* currentTarget and its prerequisites, inRecipe
  nodes,       \* Graph.Nodes: [files -> type]
  edges,       \* Graph.Edges
  parsed       \* the graph is complete

graphVars == <<graphFile, given, joined, parse, nodes, edges, parsed>>

NoRule == [rule |-> NoLine, inRecipe |-> FALSE]

GraphInit ==
  /\ graphFile \in {"Makefile", "compile_commands.json"}
  /\ given = <<>>
  /\ joined = NoLine
  /\ parse = NoRule
  /\ nodes = <<>>
  /\ edges = {}
  /\ parsed = FALSE

-----------------------------------------------------------------------------

\* inferNodeType, and inferPatternNodeType: a pattern has the extension of the
\* files it stands for.
inferNodeType(file) ==
  LET e == FileExt[file[2]]
  IN CASE e \in {".h", ".hpp", ".hxx", ".hh"} -> "header"
       [] e \in {".o", ".obj"} -> "object"
       [] e \in {".a", ".so", ".dylib", ".lib", ".dll"} -> "library"
       [] e \in {"", ".exe", ".out"} -> "executable"
       [] OTHER -> "source"

inferEdgeType(from, to) ==
  CASE from = "header" -> "includes"
    [] from = "source" /\ to = "object" -> "compiles_to"
    [] from = "object" /\ to \in {"executable", "library"} -> "links_to"
    [] OTHER -> "depends_on"

File(name) == <<"", name>>

\* The names of a rule that become nodes: the prerequisites that are neither
\* variables nor special.
Named(names) == names \ (SpecialNames \cup {""})
Prerequisites(r) == Named(Range(r.deps) \cup {r.stem})

\* AddNode overwrites the node of that name.
AddNodes(ns, files, type) ==
  [f \in DOMAIN ns \cup files |-> IF f \in files THEN type[f] ELSE ns[f]]

\* AddEdge of processRule and processPatternRule.
RuleEdges(target, names) ==
  {<<File(d), File(target), inferEdgeType(inferNodeType(File(d)), inferNodeType(File(target)))>> :
     d \in names}

\* processRule and processPatternRule: the node of the target, and a node and an
\* edge for every prerequisite.
processRule(r) ==
  LET files == {File(d) : d \in Prerequisites(r)} \cup {File(r.target)}
  IN /\ nodes' = AddNodes(nodes, files, [f \in files |-> inferNodeType(f)])
     /\ edges' = edges \cup RuleEdges(r.target, Prerequisites(r))

-----------------------------------------------------------------------------

\* readLinesWithContinuation: what follows a line that ends in a backslash is
\* part of it.
Join(l, next) ==
  IF l = NoLine THEN next
  ELSE [kind |-> l.kind, target |-> l.target, stem |-> l.stem,
        deps |-> l.deps \o next.deps, cont |-> next.cont]

\* A line that starts a rule to be remembered.
StartsRule(l) ==
  \/ l.kind = "pattern"
  \/ l.kind \in {"rule", "assign"} /\ l.deps # <<>>

\* A blank line in a recipe ends the rule, which is forgotten.
FlushForgets(l) ==
  /\ parse.inRecipe /\ parse.rule # NoLine
  /\ parse' = NoRule
  /\ UNCHANGED <<nodes, edges>>

\* The remembered rule is processed when its recipe is over.
Flush(l) ==
  /\ parse.inRecipe /\ parse.rule # NoLine
  /\ parse' = IF StartsRule(l) THEN [rule |-> l, inRecipe |-> FALSE] ELSE NoRule
  /\ processRule(parse.rule)

\* The body of ParseMakefile's loop.  A rule that has no recipe is replaced by
\* the next one without being processed.
HandleLine(l) ==
  \/ /\ l.kind = "recipe"
     /\ parse' = [rule |-> parse.rule, inRecipe |-> TRUE]
     /\ UNCHANGED <<nodes, edges>>
  \/ l.kind # "recipe" /\ Flush(l)
  \/ /\ l.kind # "recipe"
     /\ ~(parse.inRecipe /\ parse.rule # NoLine)
     /\ parse' = IF StartsRule(l) THEN [rule |-> l, inRecipe |-> parse.inRecipe] ELSE parse
     /\ UNCHANGED <<nodes, edges>>

\* A continued line is followed by more of it, a line that is not continued by
\* anything but a continuation.
ReadMakeLine(l) ==
  /\ graphFile = "Makefile" /\ ~parsed /\ Len(given) < MaxLines
  /\ (joined # NoLine) = (l.kind = "more")
  /\ given' = Append(given, l)
  /\ LET line == Join(joined, l)
     IN IF l.cont
        THEN joined' = line /\ UNCHANGED <<parse, nodes, edges>>
        ELSE joined' = NoLine /\ HandleLine(line)
  /\ UNCHANGED <<graphFile, parsed>>

\* End of file, after the last line was complete: the remembered rule is
\* processed, with or without a recipe.
EndOfMakefile ==
  /\ graphFile = "Makefile" /\ ~parsed /\ joined = NoLine
  /\ parsed' = TRUE
  /\ \/ parse.rule # NoLine /\ processRule(parse.rule)
     \/ parse.rule = NoLine /\ UNCHANGED <<nodes, edges>>
  /\ UNCHANGED <<graphFile, given, joined, parse>>

-----------------------------------------------------------------------------

\* The output of an entry: the output field, the -o of its command string (the
\* arguments array is not searched), or the base name with .o.
OutputOf(c) ==
  IF c.output # "" THEN File(c.output)
  ELSE IF c.commandOut # "" THEN File(c.commandOut)
  ELSE File(ObjName[c.file])

SourceOf(c) == IF c.abs THEN File(c.file) ELSE <<c.directory, c.file>>

\* processCompileCommand: nodes and edges for the source, the object and the
\* include directories.
ReadCompileCommand(c) ==
  /\ graphFile = "compile_commands.json" /\ ~parsed /\ Len(given) < MaxLines
  /\ given' = Append(given, c)
  /\ LET src == SourceOf(c)
         obj == OutputOf(c)
         dirs == {File(d) : d \in c.includes}
     IN /\ nodes' = AddNodes(nodes, {src, obj} \cup dirs,
                             [f \in {src, obj} \cup dirs |->
                                IF f \in dirs THEN "header"
                                ELSE IF f = obj THEN "object" ELSE "source"])
        /\ edges' = edges \cup {<<src, obj, "compiles_to">>}
                          \cup {<<d, src, "includes">> : d \in dirs}
  /\ UNCHANGED <<graphFile, joined, parse, parsed>>

EndOfCompileCommands ==
  /\ graphFile = "compile_commands.json" /\ ~parsed
  /\ parsed' = TRUE
  /\ UNCHANGED <<graphFile, given, joined, parse, nodes, edges>>

GraphNext ==
  \/ \E l \in MakeLines : ReadMakeLine(l)
  \/ EndOfMakefile
  \/ \E c \in CompileCommands : ReadCompileCommand(c)
  \/ EndOfCompileCommands

GraphSpec == GraphInit /\ [][GraphNext]_graphVars

-----------------------------------------------------------------------------

\* The reference, read off the text: the logical line that begins at line i has
\* the lines Extent(i), the last of which is not continued.
Extent(i) == {k \in i..Len(given) : \A m \in i..(k - 1) : given[m].cont}
PrerequisitesAt(i) ==
  Named((UNION {Range(given[k].deps) : k \in Extent(i)}) \cup {given[i].stem})
EdgesAt(i) == RuleEdges(given[i].target, PrerequisitesAt(i))

\* The rules of the file, and the assignments with :=, which make takes for no
\* rule and ParseMakefile does: its test for an assignment comes after an
\* expression whose target never contains =.
RuleLines == {i \in 1..Len(given) : given[i].kind \in {"rule", "pattern"}}
AssignLines == {i \in 1..Len(given) : given[i].kind = "assign"}
TakenForRules == RuleLines \cup AssignLines

\* A recipe follows the rule at line i.
HasRecipe(i) == \E j \in Extent(i) : /\ ~given[j].cont /\ j < Len(given)
                                     /\ given[j + 1].kind = "recipe"

\* In the graph of a Makefile every edge leads from a prerequisite of one rule
\* to the target of that same rule: a recipe, a blank line or a continuation
\* never attaches the prerequisites of one rule to another.  The exception is
\* the edges of an assignment (from = and from gcc to CC for CC := gcc), which
\* parser.go:189 means to skip; it too has no edge but its own.  No rule is
\* missing that is followed by its recipe, or after which no other rule or
\* assignment comes to replace it; and every edge has its nodes.  In the graph
\* of a compilation database every entry has its edge.
GraphComplete ==
  /\ parsed /\ graphFile = "Makefile" =>
       /\ \A e \in edges : \/ \E i \in RuleLines : e \in EdgesAt(i)
                          \/ \E i \in AssignLines : e \in EdgesAt(i)
       /\ \A i \in RuleLines :
            HasRecipe(i) \/ (\A j \in TakenForRules : j <= i) => EdgesAt(i) \subseteq edges
  /\ graphFile = "compile_commands.json" =>
       \A i \in 1..Len(given) :
         <<SourceOf(given[i]), OutputOf(given[i]), "compiles_to">> \in edges
  /\ \A e \in edges : {e[1], e[2]} \subseteq DOMAIN nodes

=============================================================================
