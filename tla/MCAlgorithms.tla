---------------------------- MODULE MCAlgorithms ----------------------------
(***************************************************************************)
(* The computations without a protocol, on small inputs: command lines,    *)
(* dependency graphs, configurations and mobile builds.  A behaviour is    *)
(* about one of them; the others keep a fixed initial state.               *)
(***************************************************************************)
EXTENDS CommandLines, DepGraph, ConfigRules, MobileBuilds

VARIABLE topic   \* what this behaviour is about

Init ==
  /\ topic \in {"commands", "graph", "config", "mobile"}
  /\ IF topic = "commands" THEN CmdInit ELSE cmd = <<>>
  /\ GraphInit /\ ConfigInit /\ MobileInit
  /\ topic # "graph" => graphFile = "Makefile"
  /\ topic # "config" => ~envSet /\ configFiles["search"] = <<>>
  /\ topic # "mobile" => order = CHOOSE o \in MobileOrders : TRUE

Next ==
  /\ UNCHANGED topic
  /\ \/ topic = "commands" /\ CmdNext /\ UNCHANGED <<graphVars, configVars, mobileVars>>
     \/ topic = "graph" /\ GraphNext /\ UNCHANGED <<cmd, configVars, mobileVars>>
     \/ topic = "config" /\ ConfigNext /\ UNCHANGED <<cmd, graphVars, mobileVars>>
     \/ topic = "mobile" /\ MobileNext /\ UNCHANGED <<cmd, graphVars, configVars>>

Spec == Init /\ [][Next]_<<topic, cmd, graphVars, configVars, mobileVars>>

-----------------------------------------------------------------------------
(* Command lines.  Every item is what a user would write as one option. *)

MCExt ==
  [w \in {"a.c", "b.cpp", "d.C", "b.o", "source.i"} |->
     CASE w = "a.c" -> ".c" [] w = "b.cpp" -> ".cpp" [] w = "d.C" -> ".C"
       [] w = "b.o" -> ".o" [] OTHER -> ".i"]

MCItems ==
  { <<Flag("-c")>>, <<Flag("-S")>>, <<Word("a.c")>>, <<Word("b.cpp")>>, <<Word("d.C")>>,
    <<Word("b.o")>>,
    <<Flag("-o"), Word("b.o")>>, <<<<"-o", "b.o">>>>,
    <<<<"-I", "d">>>>, <<Flag("-I"), Word("d2")>>,
    <<<<"-D", "X">>>>, <<Flag("-D"), Word("Y")>>, <<<<"-U", "X">>>>, <<Flag("-U"), Word("Y")>>,
    <<<<"-O", "2">>>>, <<<<"-O", "0">>>>, <<<<"-std=", "c11">>>>,
    <<<<"-f", "exceptions">>>>, <<<<"-fno-", "exceptions">>>>,
    <<Flag("-include"), Word("cfg.h")>>, <<Flag("-MF"), Word("a.d")>>,
    <<Flag("-MT"), Word("b.o")>>, <<Flag("--timeout"), Word("5m")>>, <<Flag("-v")>>,
    <<Flag("-x"), Word("c++")>> }

\* The arguments in byte order, as sort.Strings puts them.
MCOrder ==
  << <<"-", "x">>, Flag("-MF"), Flag("-MT"), <<"-O", "0">>, <<"-O", "2">>, Flag("-S"), Flag("-U"),
     <<"-U", "X">>, Flag("-c"), <<"-f", "exceptions">>, <<"-fno-", "exceptions">>,
     Flag("-include"), <<"-std=", "c11">>, Word("X"), Word("Y"), Word("a.d"),
     Word("b.o"), Word("cfg.h") >>

MCFirst ==
  { << <<Flag("-c")>>, <<Word("a.c")>> >>, << <<<<"-O", "2">>>>, <<Word("a.c")>> >>,
    << <<Flag("-c")>>, <<Word("b.o")>> >>, << <<Flag("-x"), Word("c++")>>, <<Flag("-c")>> >> }

-----------------------------------------------------------------------------
(* Dependency graphs. *)

MCFileExt ==
  [n \in {"a.o", "a.c", "h.h", "app", "%.o", "%.c", "CC", "gcc", "=", "inc"} |->
     CASE n \in {"a.o", "%.o"} -> ".o" [] n \in {"a.c", "%.c"} -> ".c"
       [] n = "h.h" -> ".h" [] OTHER -> ""]

MCObjName == [n \in {"a.c"} |-> "a.o"]

Line(kind, target, stem, deps, cont) ==
  [kind |-> kind, target |-> target, stem |-> stem, deps |-> deps, cont |-> cont]

MCMakeLines ==
  { Line("rule", "a.o", "", <<"a.c">>, FALSE), Line("rule", "a.o", "", <<"a.c">>, TRUE),
    Line("more", "", "", <<"h.h">>, FALSE), Line("more", "", "", <<"h.h">>, TRUE),
    Line("rule", "app", "", <<"a.o", "$(OBJS)">>, FALSE),
    Line("pattern", "%.o", "%.c", <<"h.h">>, FALSE),
    Line("assign", "CC", "", <<"=", "gcc">>, FALSE),
    Line("recipe", "", "", <<>>, FALSE), Line("blank", "", "", <<>>, FALSE) }

Entry(directory, abs, output, commandOut, includes) ==
  [directory |-> directory, file |-> "a.c", abs |-> abs, output |-> output,
   commandOut |-> commandOut, includes |-> includes]

MCCompileCommands ==
  { Entry("src", FALSE, "", "", {}), Entry("lib", FALSE, "", "", {"inc"}),
    Entry("src", TRUE, "app", "", {}), Entry("lib", FALSE, "app", "a.o", {}),
    Entry("lib", FALSE, "", "a.o", {"inc"}) }

-----------------------------------------------------------------------------
(* Configurations: values on both sides of every limit. *)

MCFileSettings ==
  [ coordinator_http_port |-> {9000, 65536}, coordinator_grpc_port |-> {0, 8080},
    worker_port |-> {65535, 70000}, worker_max_parallel |-> {-1, 0},
    worker_timeout |-> {-1, 999, 1000}, worker_heartbeat_sec |-> {-1},
    client_timeout |-> {0, 999},
    cache_enable |-> {FALSE}, cache_max_size_mb |-> {0}, cache_ttl_hours |-> {0},
    cache_dir |-> {""}, log_level |-> {"verbose", "fatal"}, log_format |-> {"xml"},
    log_file |-> {"hg.log"}, log_rotation_max_size_mb |-> {0},
    log_rotation_max_backups |-> {-1, 0}, log_rotation_max_age_days |-> {0},
    tls_enabled |-> {TRUE}, tls_cert_file |-> {"c.pem"}, tls_key_file |-> {"", "k.pem"},
    tls_client_ca |-> {"ca.pem"}, tls_require_client_cert |-> {TRUE},
    tracing_enable |-> {TRUE}, tracing_endpoint |-> {""},
    tracing_sample_rate |-> {10, 11}, undecodable |-> {TRUE} ]

MCFlagSets ==
  { [client_timeout |-> 0], [client_timeout |-> 999], [tls_client_ca |-> "ca.pem"],
    [tls_cert_file |-> "c.pem"], [tls_cert_file |-> "c.pem", tls_key_file |-> "k.pem"],
    [tracing_enable |-> TRUE, tracing_endpoint |-> ""],
    [tracing_enable |-> FALSE, tracing_endpoint |-> ""],
    [tracing_enable |-> TRUE, tracing_sample_rate |-> 11] }

MCStartFiles ==
  { <<>>, [tls_enabled |-> TRUE, tls_cert_file |-> "c.pem", tls_key_file |-> "k.pem"] }

-----------------------------------------------------------------------------
(* Mobile builds. *)

Path(dirs, name, ext, own) == [dirs |-> dirs, name |-> name, ext |-> ext, own |-> own]

MCProject ==
  { Path(<<"lib">>, "main.dart", ".dart", TRUE), Path(<<"android", "app">>, "build.gradle", ".gradle", TRUE),
    Path(<<"android", "app", "build">>, "cache.bin", ".bin", FALSE),
    Path(<<"android", ".gradle">>, "x.lock", ".lock", FALSE), Path(<<"ios", "Pods">>, "y.h", ".h", FALSE),
    Path(<<"build", "app">>, "app.apk", ".apk", FALSE), Path(<<>>, ".DS_Store", ".DS_Store", FALSE),
    Path(<<"Assets", "Editor">>, "BuildScript.cs", ".cs", TRUE), Path(<<"Assets", "Build">>, "Step.cs", ".cs", TRUE),
    Path(<<"Assets">>, "bridge.js", ".js", TRUE), Path(<<"Build">>, "old.apk", ".apk", FALSE),
    Path(<<"Library">>, "cache.bin", ".bin", FALSE), Path(<<>>, "Game.sln", ".sln", FALSE),
    Path(<<"ios", "Podspecs">>, "x.podspec", ".podspec", TRUE), Path(<<>>, "build", "", TRUE),
    Path(<<"android">>, ".gradle.kts", ".kts", TRUE), Path(<<"build">>, "notes.txt", ".txt", TRUE),
    Path(<<"docs">>, "a.DS_Store", ".DS_Store", TRUE), Path(<<"Assets">>, "Logs", "", TRUE) }

MCBeginning == [p \in {".gradle", "Pods"} |-> IF p = "Pods" THEN {"Pods", "Podspecs"} ELSE {".gradle", ".gradle.kts"}]
MCEnding == [p \in {".DS_Store"} |-> {".DS_Store", "a.DS_Store"}]

MCProducts ==
  { {}, { Path(<<"build", "app">>, "app.apk", ".apk", FALSE) },
    { Path(<<"build", "app">>, "app.aab", ".aab", FALSE), Path(<<"build">>, "map.txt", ".txt", FALSE) },
    { Path(<<"Build">>, "game.apk", ".apk", FALSE) },
    { Path(<<"Build">>, "index.html", ".html", FALSE), Path(<<"Build", "Build">>, "game.data", ".data", FALSE) },
    { Path(<<"Out">>, "game.apk", ".apk", FALSE) } }

MCMachines ==
  { [name |-> "mac", darwin |-> TRUE, flutter |-> TRUE, androidSdk |-> TRUE, editors |-> <<{"ios", "webgl"}>>],
    [name |-> "linux", darwin |-> FALSE, flutter |-> FALSE, androidSdk |-> TRUE, editors |-> <<{"linux"}, {"linux", "android"}>>],
    [name |-> "plain", darwin |-> FALSE, flutter |-> TRUE, androidSdk |-> FALSE, editors |-> <<>>],
    [name |-> "bare", darwin |-> FALSE, flutter |-> FALSE, androidSdk |-> FALSE, editors |-> <<{}>>] }

MCMobileOrders ==
  { [kind |-> "flutter", project |-> MCProject, output |-> o, mode |-> m, flavor |-> f] :
      o \in {"apk", "appbundle"},
      m \in {<<"", FALSE>>, <<"debug", TRUE>>, <<"profile", FALSE>>, <<"fast", FALSE>>},
      f \in {<<"", FALSE>>, <<"release", TRUE>>} }
  \cup
  { [kind |-> "unity", project |-> MCProject, platform |-> p, method |-> m, version |-> <<"2022", FALSE>>, backend |-> b] :
      p \in {<<"android", TRUE>>, <<"ios", FALSE>>, <<"windows", FALSE>>, <<"linux", FALSE>>,
             <<"macos", FALSE>>, <<"webgl", FALSE>>, <<"amiga", FALSE>>},
      m \in {<<"", TRUE>>, <<"Builder.Run", FALSE>>}, b \in {<<"", FALSE>>, <<"il2cpp", TRUE>>, <<"jit", FALSE>>} }
  \cup
  { [kind |-> "unity", project |-> MCProject \cup {Path(<<"assets">>, "movie.mp4", ".mp4", TRUE)}, platform |-> <<"linux", FALSE>>,
     method |-> <<"Builder.Run", FALSE>>, version |-> <<"2022", FALSE>>, backend |-> <<"", FALSE>>] }

=============================================================================
