---------------------------- MODULE MobileBuilds ----------------------------
(***************************************************************************)
(* The way of one Flutter or Unity build, from the words typed after       *)
(* hgbuild flutter build or hgbuild unity build to the artifacts printed:  *)
(* the commands (internal/cli/flutter, internal/cli/unity), the archive of *)
(* the project, the capabilities a worker detects and the coordinator      *)
(* matches (internal/capability, coordinator/server), and the command      *)
(* lines and artifact search of the executors (worker/executor).  Booking, *)
(* health and the artifact caches are in Coordinator, the processes and    *)
(* directories of the executors in Executors.                              *)
(*                                                                         *)
(* A typed word is <<word, dressed>>: dressed with capitals or blanks.  A  *)
(* path is a record of its directories, its name, its extension and        *)
(* whether the developer wrote it (own).                                   *)
(***************************************************************************)
EXTENDS Integers, Sequences, SequencesExt, FiniteSets

CONSTANTS
  MobileOrders,   \* what may be typed, and the paths of the project's files
  Products,       \* the sets of paths a build tool may write
  Machines,       \* [name, darwin, flutter, androidSdk, editors]: a worker's
                  \* machine; editors: the engines of each Unity editor by
                  \* ascending version
  MaxArchived,    \* MaxSourceArchiveBytes, in files
  Beginning,      \* [".gradle", "Pods" -> the names that begin so]
  Ending          \* [".DS_Store" -> the names that end so]

VARIABLES
  order,       \* the typed command
  mstage,      \* how far it came
  request,     \* pb.BuildRequest
  machine,     \* the worker it was sent to
  argv,        \* the command line of the build tool
  workspace,   \* the worker's directory: [paths -> "source" or "built"]
  artifacts,   \* ArtifactList of the response
  outcome      \* what is printed: "ok", or why not

mobileVars == <<order, mstage, request, machine, argv, workspace, artifacts, outcome>>

Nothing == [none |-> TRUE]

MobileInit ==
  /\ order \in MobileOrders
  /\ mstage = "typed"
  /\ request = Nothing /\ machine = Nothing /\ argv = Nothing
  /\ workspace = <<>> /\ artifacts = {} /\ outcome = "none"

-----------------------------------------------------------------------------

Plain(typed) == typed[1]

BuildModes == {"debug", "profile", "release"}
Backends == {"mono", "il2cpp"}
Platforms == {"android", "ios", "windows", "linux", "macos", "webgl"}

normalizeBuildMode(typed) == IF Plain(typed) = "" THEN "release" ELSE Plain(typed)

\* newBuildTargetCmd and NewCommand refuse a word they do not know, and Unity a
\* missing build method.
Understood(o) ==
  \/ o.kind = "flutter" /\ normalizeBuildMode(o.mode) \in BuildModes
  \/ /\ o.kind = "unity" /\ Plain(o.method) # ""
     /\ Plain(o.platform) \in Platforms
     /\ Plain(o.backend) \in Backends \cup {""}

Has(path, i, part) == i <= Len(path.dirs) /\ path.dirs[i] = part

\* The parts of the path between slashes; the last is the name of the file.
Parts(path) == Append(path.dirs, path.name)

\* What shouldExclude of the Flutter command tests after the first part: prefixes
\* and a suffix of the text, which need not be whole names.
flutterAffixes(path) ==
  \/ /\ Has(path, 1, "android") /\ Parts(path)[2] \in Beginning[".gradle"]
  \/ Has(path, 1, "android") /\ Has(path, 2, "app") /\ Has(path, 3, "build")
  \/ /\ Has(path, 1, "ios") /\ Parts(path)[2] \in Beginning["Pods"]
  \/ path.name \in Ending[".DS_Store"]

\* The build directory of the project is sent along.
flutterKeepsBuild(path) ==
  Parts(path)[1] \in {".dart_tool", ".git"} \/ flutterAffixes(path)

\* shouldExclude of the Flutter command.
flutterExcludes(path) ==
  Parts(path)[1] \in {"build", ".dart_tool", ".git"} \/ flutterAffixes(path)

\* shouldExclude of the Unity command: these names anywhere in the path, that of
\* the file included.
UnityGenerated == {"Library", "Temp", "Build", "Logs", ".git", "obj"}

unityExcludes(path) ==
  \/ Range(Parts(path)) \cap UnityGenerated # {}
  \/ path.ext \in {".csproj", ".sln", ".unitypackage"}

\* createSourceArchive: the regular files that are not excluded.
Archived(o) ==
  {f \in o.project : IF o.kind = "flutter" THEN ~flutterExcludes(f) ELSE ~unityExcludes(f)}

\* buildRequest: formatBuildMode joins the output and the mode in one text, of
\* which the executor sees the words; Flutter is built for Android.  Nothing reads
\* the version of Unity after this.
buildRequest(o) ==
  IF o.kind = "flutter"
  THEN [kind |-> "flutter", platform |-> "android", archive |-> Archived(o),
        tokens |-> <<o.output, normalizeBuildMode(o.mode)>>, flavor |-> Plain(o.flavor)]
  ELSE [kind |-> "unity", platform |-> Plain(o.platform), archive |-> Archived(o),
        version |-> Plain(o.version), method |-> Plain(o.method),
        backend |-> Plain(o.backend)]

\* The command up to runBuild's call: it gives up on a word it does not know, on
\* an archive that is too large, and when no coordinator is found or connected.
End(why) == mstage' = "over" /\ outcome' = why

Submit ==
  /\ mstage = "typed"
  /\ \/ /\ ~Understood(order) /\ End("usage") /\ UNCHANGED request
     \/ /\ Understood(order) /\ Cardinality(Archived(order)) > MaxArchived
        /\ End("too large") /\ UNCHANGED request
     \/ /\ Understood(order) /\ Cardinality(Archived(order)) <= MaxArchived
        /\ \/ End("no coordinator") /\ UNCHANGED request
           \/ /\ request' = buildRequest(order) /\ mstage' = "sent"
              /\ UNCHANGED outcome
  /\ UNCHANGED <<order, machine, argv, workspace, artifacts>>

-----------------------------------------------------------------------------

\* detectFlutter: Flutter without an Android SDK is no capability.
detectFlutter(m) ==
  IF m.flutter /\ m.androidSdk THEN [targets |-> {"android"}] ELSE Nothing

\* detectUnityBuildTargets: one directory per engine; iOS and macOS on a Mac.
detectUnityBuildTargets(m, engines) ==
  (engines \cap {"android", "windows", "linux", "webgl"})
    \cup (IF m.darwin THEN (engines \cap {"ios"}) \cup {"macos"} ELSE {})

\* detectUnity: the targets of the first editor found.
detectUnity(m) ==
  IF m.editors = <<>> THEN Nothing
  ELSE [targets |-> detectUnityBuildTargets(m, m.editors[1])]

\* workerSupportsFlutterPlatform and workerSupportsUnityPlatform: an empty list
\* stands for every platform.
Supports(m, r) ==
  LET cap == IF r.kind = "flutter" THEN detectFlutter(m) ELSE detectUnity(m)
  IN cap # Nothing /\ (cap.targets = {} \/ r.platform \in cap.targets)

\* selectFlutterWorker and selectUnityWorker: a worker of the fleet, all of it
\* healthy, that supports the platform.  The worker's Build accepts Flutter only.
Place(fleet) ==
  /\ mstage = "sent"
  /\ \/ /\ \A m \in fleet : ~Supports(m, request)
        /\ End("no worker") /\ UNCHANGED machine
     \/ /\ machine' \in {m \in fleet : Supports(m, request)}
        /\ \/ request.kind = "flutter" /\ mstage' = "placed" /\ UNCHANGED outcome
           \/ request.kind = "unity" /\ End("unimplemented")
  /\ UNCHANGED <<order, request, argv, workspace, artifacts>>

\* A Unity request handed to the executor itself, which no worker does.
Handed(m) ==
  /\ mstage = "sent" /\ request.kind = "unity" /\ m.editors # <<>>
  /\ machine' = m /\ mstage' = "placed"
  /\ UNCHANGED <<order, request, argv, workspace, artifacts, outcome>>

-----------------------------------------------------------------------------

\* One word of build_mode.
ModeToken(options, token) ==
  CASE token = "apk" -> [options EXCEPT !.output = "apk"]
    [] token \in {"aab", "appbundle", "bundle"} -> [options EXCEPT !.output = "appbundle"]
    [] token \in BuildModes -> [options EXCEPT !.mode = token]
    [] OTHER -> [options EXCEPT !.known = FALSE]

\* resolveFlutterBuildOptions: an APK in release mode unless the words say otherwise.
resolveFlutterBuildOptions(tokens) ==
  LET r == FoldLeft(ModeToken, [output |-> "apk", mode |-> "", known |-> TRUE], tokens)
  IN IF r.mode = "" THEN [r EXCEPT !.mode = "release"] ELSE r

buildTargetToUnityString(platform) ==
  CASE platform = "android" -> "Android"           [] platform = "ios" -> "iOS"
    [] platform = "windows" -> "StandaloneWindows64"
    [] platform = "linux" -> "StandaloneLinux64"   [] platform = "macos" -> "StandaloneOSX"
    [] platform = "webgl" -> "WebGL"

\* buildFlutterArgs and buildUnityArgs; detectUnityCommand takes the last editor.
toolArgs(r, m) ==
  IF r.kind = "flutter"
  THEN LET o == resolveFlutterBuildOptions(r.tokens)
       IN [tool |-> "flutter", target |-> o.output, mode |-> o.mode, flavor |-> r.flavor]
  ELSE [tool |-> m.editors[Len(m.editors)], target |-> buildTargetToUnityString(r.platform),
        method |-> r.method, backend |-> r.backend]

\* Execute: the archive is unpacked and the tool run in it.  The tool is external:
\* it writes one of the sets of products and succeeds or fails.
Unpacked(files) == [f \in files |-> "source"]

RunTool(written, ok) ==
  /\ mstage = "placed"
  /\ argv' = toolArgs(request, machine)
  /\ workspace' = [f \in request.archive \cup written |->
                     IF f \in written THEN "built" ELSE Unpacked(request.archive)[f]]
  /\ IF ok THEN mstage' = "built" /\ UNCHANGED outcome ELSE End("failed")
  /\ UNCHANGED <<order, request, machine, artifacts>>

-----------------------------------------------------------------------------

Under(dir) == {f \in DOMAIN workspace : Has(f, 1, dir)}

\* collectFlutterArtifacts looks in build, for one kind of package.
collectFlutterArtifacts ==
  {f \in Under("build") : f.ext = IF argv.target = "appbundle" THEN ".aab" ELSE ".apk"}

unityArtifactExtensions(platform) ==
  CASE platform = "android" -> {".apk", ".aab"}   [] platform = "ios" -> {".ipa"}
    [] platform = "windows" -> {".exe"}           [] platform = "linux" -> {".x86_64", ".x86"}
    [] platform = "macos" -> {".app"}
    [] platform = "webgl" -> {".html", ".js", ".wasm", ".data"}

isUnityArtifactMatch(f, platform) ==
  \/ platform = "webgl" /\ \E i \in 1..Len(f.dirs) : f.dirs[i] = "Build"
  \/ f.ext \in unityArtifactExtensions(platform)

\* collectUnityArtifacts searches Build, or everything when there is no Build.
collectUnityArtifacts ==
  LET root == IF Under("Build") # {} THEN Under("Build") ELSE DOMAIN workspace
  IN {f \in root : isUnityArtifactMatch(f, request.platform)}

\* The end of Execute and printBuildResult: a build without artifacts failed.
Collect ==
  /\ mstage = "built"
  /\ LET found == IF request.kind = "flutter" THEN collectFlutterArtifacts
                  ELSE collectUnityArtifacts
     IN \/ found = {} /\ End("no artifacts") /\ UNCHANGED artifacts
        \/ found # {} /\ End("ok") /\ artifacts' = found
  /\ UNCHANGED <<order, request, machine, argv, workspace>>

MobileNext ==
  \/ Submit
  \/ \E fleet \in SUBSET Machines : Place(fleet)
  \/ \E m \in Machines : Handed(m)
  \/ \E written \in Products, ok \in BOOLEAN : RunTool(written, ok)
  \/ Collect

MobileSpec == MobileInit /\ [][MobileNext]_mobileVars

-----------------------------------------------------------------------------

\* The Flutter command has two subcommands.
ASSUME MobileAssumption ==
  \A o \in MobileOrders :
    /\ o.kind = "flutter" => o.output \in {"apk", "appbundle"}
    /\ \A f \in o.project : f.dirs \in Seq(STRING) /\ f.name \in STRING

\* The directories that the tools of a project write.
FlutterOutputs ==
  {<<"build">>, <<".dart_tool">>, <<".git">>, <<"android", ".gradle">>,
   <<"android", "app", "build">>, <<"ios", "Pods">>}

InOutputs(kind, f) ==
  \/ /\ kind = "flutter"
     /\ \E d \in FlutterOutputs : \A i \in DOMAIN d : Has(f, i, d[i])
  \/ kind = "unity" /\ Range(f.dirs) \cap UnityGenerated # {}

\* A path outside of them that only resembles what a tool writes, and is dropped
\* all the same: a file named like one of the directories, a path that goes on
\* after android/.gradle or ios/Pods (ios/Podspecs/x), a name that ends in
\* .DS_Store, a project file of an editor.
LooksGenerated(kind, f) ==
  \/ /\ kind = "flutter"
     /\ \/ f.dirs = <<>> /\ f.name \in {"build", ".dart_tool", ".git"}
        \/ Has(f, 1, "android") /\ Parts(f)[2] \in Beginning[".gradle"]
        \/ Has(f, 1, "ios") /\ Parts(f)[2] \in Beginning["Pods"]
        \/ f.name \in Ending[".DS_Store"]
  \/ /\ kind = "unity"
     /\ \/ f.name \in UnityGenerated
        \/ f.ext \in {".csproj", ".sln", ".unitypackage"}

\* What was typed reaches the build tool, through two normalisations and a text
\* that is put together and taken apart: the package and the mode of a Flutter
\* build, the platform, method and backend of a Unity build.  A machine that was
\* chosen because it detected a target runs an editor that has it, if it has only
\* one editor.
OptionsArrive ==
  argv # Nothing =>
    /\ order.kind = "flutter" =>
         /\ argv.target = order.output /\ argv.flavor = Plain(order.flavor)
         /\ argv.mode = Plain(order.mode) \/ (argv.mode = "release" /\ Plain(order.mode) = "")
    /\ order.kind = "unity" =>
         /\ argv.method = Plain(order.method) /\ argv.backend = Plain(order.backend)
         /\ \A p \in Platforms : argv.target = buildTargetToUnityString(p)
                                 => p = Plain(order.platform)
         /\ Len(machine.editors) = 1 => argv.tool = machine.editors[1]

\* The files the developer wrote are in the workspace, unless they lie in a
\* directory that tools write or their path resembles one of those
\* (LooksGenerated); and what is printed as an artifact was built there by this
\* run and lies where the tool puts its output:
\* a package left in the project by an earlier build is never passed off as the
\* result.  (A Unity build that leaves no Build directory is the exception.)
ArtifactsBuilt ==
  /\ argv # Nothing =>
       \A f \in order.project :
         (f.own /\ ~InOutputs(order.kind, f) /\ ~LooksGenerated(order.kind, f))
           => f \in DOMAIN workspace
  /\ outcome = "ok" =>
       /\ artifacts # {}
       /\ order.kind = "flutter" =>
            \A f \in artifacts : workspace[f] = "built" /\ Has(f, 1, "build")
       /\ order.kind = "unity" /\ Under("Build") # {} =>
            \A f \in artifacts : workspace[f] = "built"

\* A mobile build does what was typed and returns what it built.
MobileFaithful == OptionsArrive /\ ArtifactsBuilt

=============================================================================
