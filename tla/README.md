# Hybrid-Grid: a TLA+ verification project

Hybrid-Grid is a distributed build system. `hgbuild` replaces the compiler in a
build, `hg-coord` is the coordinator that chooses a worker for every task, and
`hg-worker` runs the tasks. This directory holds TLA+ modules that model the
compile service (coordinator, registry, schedulers, workers, client) and the
components around it, TLC configurations that check them, and TLAPS proofs of the
main safety properties. `PROJECT.json` lists components, runs, mutants, the source
lines behind every definition, findings, hazards and theorems.

    tlc -config coord_compile.cfg MCCoordinator      # one run
    tlapm Coordinator_proofs.tla                     # the proofs of one module
    tlapm CommandRuns_proofs.tla                     # the longest, about 10 minutes

## Inventory

| part | state | operations | hard behaviour | what makes it correct |
|---|---|---|---|---|
| worker registry (`internal/coordinator/registry`) | one entry per worker id: state, heartbeat, load, totals, average time | Add (also the heartbeat), IncrementTasks, DecrementTasks, ListByCapability, cleanup ticker | workers die with tasks in flight, restart under the same id, miss heartbeats | load = tasks really booked; totals add up; only a living worker leaves Unhealthy |
| load-based schedulers (`internal/coordinator/scheduler`) | round-robin counter, random source | Select on a snapshot | the snapshot is old when the choice is used | healthy, capable candidates; capacity |
| learning schedulers (same package) | estimates, pending feature vectors | Select, RecordOutcome | outcomes out of order, retries with one id | reward goes to the choice made; nothing pending leaks |
| coordinator server (`internal/coordinator/server/grpc.go`) | connection pool, counters, two artifact caches | Handshake, Compile, Build | a handler holds no lock between its steps; client timeouts, worker crashes, restart | each call answered once and truthfully; gauges return to zero; cache only holds results |
| breakers, retry helpers (`internal/coordinator/resilience`) | map of breakers, their counts | Execute, Remove, Retry, RetryNotify, RetryWithResult | first use by several callers at once | one breaker per worker; the reported error is one that happened |
| worker server and process (`internal/worker/server`, `cmd/hg-worker`) | active counter, totals | Compile, Build, register, heartbeat, drain | count-then-check admission; registration before listening | never more tasks than the limit; no leaked slot |
| executors (`internal/worker/executor`) | workspaces, containers, child processes, deferred clean-ups | Execute of five executors | deadlines, failing clean-ups, two tasks with one id | success is earned; nothing is left behind; it ends |
| build client (`internal/cli/build`, `cmd/hgbuild`) | local object cache on disk | one invocation: cache, preprocess, attempts, fallback, output | retries of calls still running; coordinator absent, slow, dying; files edited | object current; success earned; outages absorbed; it ends |
| object store (`internal/cache/store.go`) | index file and object files, shared by processes | Get, Put, PutBytes, evict, clear, load and save the index | several processes, crashes between writes, torn files, full disk | an entry was written completely; size within the limit |
| dashboard hub (`internal/observability/dashboard`) | client set, channels | register, unregister, broadcast, pumps, stop | closing channels that others send on | channel closed exactly when forgotten; no event missed |
| mDNS discovery (`internal/discovery/mdns`) | announcement, table of workers | announce, browse, expire, search with fallbacks | three goroutines and a deadline; stops and restarts | an address found was announced; callbacks balance |
| Windows services (`service_windows.go`) | service state at the SCM, server goroutines | install, Execute, stop, clean-up | server error racing a control request | the reported state is true; a stop ends |
| parser, preprocessor, keys, command lines | none | pure functions from arguments to arguments | flag forms, values, order | the worker compiles what the user asked for |
| dependency graph, configuration, mobile builds | files read and written | parse, load, validate, archive, place, collect | layers of defaults; matching of names | nothing lost or attached to the wrong place |

How they interact: a worker process calls `Handshake` at start and at every
heartbeat; the registry entry is all the coordinator knows of it. A client's
`Compile` or `Build` enters a handler, which reads a snapshot (`Select`), books
(`IncrementTasks`), forwards over a pooled connection, releases (`DecrementTasks`),
reports the outcome to a learning scheduler and broadcasts events to the hub, and
answers. The worker admits the task and hands it to an executor. `hgbuild` finds the
coordinator by flag, environment and mDNS, in that order; the worker by flag, mDNS and
environment. Invocations of `hgbuild` meet only in the object store on disk.

## Modules

The compile service, composed in `Coordinator`:

* `Grid` - the identities everything shares: workers, calls, the kind of a call.
* `Registry` - the registry. Every method runs under its mutex, hence each is one
  step. Time is kept only as far as the code compares it: `stale`.
* `Scheduler` - the schedulers as operators that give the set of workers the code may
  return. Go's map order and the random draw become any admissible choice, and so does
  the round-robin position; the capability- and platform-dependent part of the P2C score
  is the constant `BaseScore`. Epsilon-greedy, LinUCB and HEFT may return any eligible
  worker here; what they learn is in `Learners`.
* `WorkerServer` - the worker's two RPC handlers and the life of its process.
* `Coordinator` - composes the three above. `pc` follows each handler:

      compile:  select - track - count - total - gauge - connect - dial - send ...
      build:    select - connect - dial - track - count - total - gauge - send ...
      both:     ... wait - release - finish - store - retire - ungauge - leave - done

  A compile call books before it dials and a build after; that is the order of the
  code. A pooled connection saves the dial. Every atomic addition to a counter of the
  server is a step (`CountActive`, `CountTotal`, `CountByWorker`, `CountOutcome`, `Retire`,
  `Ungauge`, `Leave`), because `GetStats` (`stats.go:60`) and `HealthCheck` (`grpc.go:1182`)
  may load the counters between any two. `CoordinatorRestarts` empties everything the
  process held in memory.
* `CompileService` - the abstract specification: what a client may rely on, without
  registry, scheduler or workers. An answer is given once; `ok` and `fail` are the
  result of a run of that call; `noworker`, `unreachable` and `cached` mean that the
  task did not run and never will; `error` promises nothing.
* `BuildClient` - invocations of `hgbuild cc`, written against `CompileService`,
  so what it shows holds of the coordinator by the refinement. Their shared cache is
  written as `PutBytes` does it: the file in place (`Store`), then the index entry
  (`StoreEnds`), so that another invocation may read a torn object, two may write one
  file at once (`clash`), and an interrupted one (`Killed`) leaves what it had written.
  `RemoteEmpty` is the failed answer with exit code 0 and no object, which the client
  takes for success.

The components around it, which share no state with each other:

* `CacheStore` - the store. A process loads the index once, works on its copy and
  writes the whole copy back. A file's bytes are whole or partial; an open file
  outlives its name, hence inodes.
* `DashboardHub` - the hub goroutine, two pumps per viewer, and the coordinator's
  broadcasts, joined by the channels of the code with their capacities. A send on a
  closed channel sets `crashed`.
* `Learners` - dispatches of concurrent Compile handlers that choose, run and report.
  Rewards are multiples of `Unit`, chosen so that the running mean is an integer for
  as many samples as there are dispatches; which candidate scores best is left open.
* `Resilience` - the double-checked creation of breakers, requests through them, and
  the retry helpers. gobreaker and backoff are external; gobreaker starts a generation
  with every change of its state, which the model bounds (`MaxGenerations`).
* `Executors` - the five executors as one sequence of steps with a stack of deferred
  clean-ups that unwinds on every path. A tool exits with 0, another code, or -1, which is
  what `ExitCode()` says of one that a signal ended.
* `Discovery` - announcer, the search with its goroutines, the browser's table. One found
  callback at a time is pending; the goroutine of an earlier `Start` that overlaps with
  that of the next is not modelled.
* `ServiceControl` - both Windows services between the Service Control Manager and
  their server goroutines. The heartbeat goroutine is taken as ended when it is cancelled.

Computations, checked against reference definitions of what gcc, make or the user mean:

* `CommandLines` - the path of a command line from `hgbuild` through parser,
  preprocessor and key to the command an executor runs.
* `DepGraph` - the Makefile and compilation database parsers.
* `ConfigRules` - defaults, file, environment, example file and validation.
* `MobileBuilds` - a Flutter or Unity build from the typed words through archive,
  capability match and tool to the artifacts.

`MCCoordinator`, `MCBuilds`, `MCBuildClient`, `MCSupport` and `MCAlgorithms` are
instances for TLC.

The theorems are in `Coordinator_proofs` (coordinator, registry and workers; the abstract
service, the artifact cache and the counters), `Client_proofs`, `Support_proofs` (the
supporting components and their composition), `Algorithms_proofs` (configuration,
dependency graph, mobile builds), and `Commands_proofs` with `CommandRuns_proofs` (command
lines: the parser and the gcc executors; cl.exe, the preprocessor and the theorems).
`DataLemmas` holds what they share about sums over finite sets, lists without repetition,
and joined lists, `FoldFacts` what a fold over a sequence computes, for any operator. Where
these need an induction, they take a smallest counterexample, which exists because the
subset ordering of a finite set and the order of the naturals are well-founded.

A definition introduced as a variant just before another one (`AlwaysCreate` before
`StillMissing`, say) is not part of the model. It is a plausible mistake in that
place, and putting it there must break the property that guards the code;
`PROJECT.json` pairs them under "mutants".

Deliberate abstractions. `CountersExact` speaks of the counters at one moment; a report
loads them one after the other, so its values may belong to different moments. The pool is
keyed by worker rather than by address, and its lookup, and the insertion at the end of a
dial, are one step each. Requests without a task id return at once and change
nothing, and so are no calls. `ReportCacheHit`, the tallies that only grow (cache hits and
misses, builds of each kind), traces, metrics and the task log are left out: the modelled
logic never reads them.
`StreamBuild` collects its chunks and never dispatches. In `Coordinator` the worker's
executor is a nondeterministic result. A reply lost on the way is the `ConnectionLost`
step, a cache entry that expired or was dropped is a `CacheMiss`. An invocation that
cannot be distributed runs the compiler at once, as the `direct` step does. A unit of
compilation is a pair: the text, and everything else it depends on. An argument is a
pair of the prefix the code tests for and the rest. A path is its directories, its name and
its extension; which names begin like `.gradle` and `Pods` or end like `.DS_Store` is given
by the constants `Beginning` and `Ending`, because the archive of a Flutter build tests
prefixes and a suffix of the text.

## Runs

| run | instance | states | checks |
|---|---|---|---|
| `coord_compile` | 2 workers, 2 compile calls, leastloaded; lost heartbeats, worker stops, connections break | 1.0 M | ledgers, averages, admission, slots, revival |
| `coord_builds` | 1 worker, 2 Flutter builds with one key, all disturbances, coordinator restarts too | 0.4 M | artifact cache, counters, refinement |
| `coord_faults` | 1 worker, 1 Unity build, 1 compile call, LinUCB, all disturbances and fairness | 0.1 M | bookings and liveness, with coordinator restarts |
| `client` | 2 invocations, 2 attempts; coordinator unavailable, invocations killed, source edited between builds | 2.1 M | current and earned objects, outages absorbed |
| `client_live` | 1 invocation, 3 attempts, all disturbances and fairness | 0.5 M | every invocation ends |
| `support` | each supporting component, one per behaviour | 0.3 M | store, hub, learners, breakers, retries, executors, discovery, services; that work ends |
| `algorithms` | command lines of up to 4 options, files of up to 5 lines, 2 edits of a configuration, mobile builds | 0.1 M | the computations against their references |
| `coord_capacity`, `client_busy`, `client_stale`, `client_raw`, `hub_slow` | expect a violation, see below | | |

Bounds. The races of the coordinator are between two handlers, or between a handler
and a worker or the client, so two calls on one worker are the smallest interesting
instance; the second worker adds a choice and failures next to a healthy one. Worker
limits are 1, so two calls exceed them. A call is made once, a retry being another
call; worker and coordinator may restart any number of times, since they keep no
history that would grow. The disturbances of `coord_compile` leave out the client that gives
up and the restart, which `coord_builds` and `coord_faults` have for two calls on one
worker. `MaxEdits` of the client is 1: one edit separates an old and a
new unit. `client` has the disturbances its properties depend on; a coordinator that dies
(`coordinator_dies`), failing local tools and the rest are in `client_live`; the theorems
take any set of them, but for the hypothesis of `SuccessesAreCurrent` below. `Disturbances` selects which of the environment's steps an instance takes.
Symmetry is used only in runs without liveness.

In `support` a behaviour moves one component, its focus, because they share no state;
their product would only repeat the same states. Two `hgbuild` processes and two keys of
sizes 2 and 3 under a limit of 4 force an eviction, and three process starts let one
process load what two others left. One viewer is enough for the hub, whose rules treat
viewers alone; its buffer of 2, a queue of 1 and one kept event are all exceeded. Three
dispatches share two task identifiers. Two callers race for the breaker of a host, and a
second breaker appears after a removal; three generations are closed, open and
half-open in turn. Two executor calls carry the same identifier, as
a retry does. Two coordinators announce themselves to one search; two workers come and
go in the browser's table. A service takes up to two control requests in up to two lives.
In `algorithms`, four option items hold an option with its value, a repetition of it, and
the source; five lines hold two rules, a continuation and their recipes.

Deadlock is checked in the coordinator's runs (heartbeats keep a grid moving) and
switched off for the client, whose invocations end, and for `support` and
`algorithms`, whose tasks end.

Fairness in `coord_faults`: a handler that can move does; every RPC has a deadline at
its client (`Client.Compile` and `Client.Build` set a timeout), so `ClientGivesUp` is
fair; executors are killed at their timeout; heartbeat and cleanup tickers keep firing;
the heartbeat of a process that is down expires. No worker is assumed to start or to
stay, and no connection to hold. In `client_live` only the invocation itself is fair: the
coordinator owes it nothing. In `support` the goroutines of a process that lives are fair
(the hub's unregistration, the pumps, the steps of an executor, of a search and of a
service), and so are the deadlines their contexts carry. Compilers, containers, the
network, viewers and the Service Control Manager owe nothing.

### What disagrees with the documents

Five runs expect a violation, each quoting the sentence it contradicts.

* `coord_capacity`: "still respect capacity" - selection and booking are two steps, so
  two handlers take the last slot of a worker.
* `client_busy`: the guide lists `all_workers_busy` and timeouts as reasons to compile
  locally - the coordinator answers them with exit code 1, which is final at the client.
* `client_stale`: the cache should skip redundant compilations - its key sees neither
  headers nor include path nor compiler version.
* `client_raw`: "Keep all flags including -I and -D" - the parser keeps those elsewhere.
* `hub_slow`: "Client send buffer full, disconnect" - the hub closes the channel of a slow
  viewer while its readPump can still answer a ping on it, which ends the coordinator.

### Facts the models keep

Where the code does something a reader may not expect, the model does it too, and the
property says what is excepted.

* Command lines: `-E` and `-S` do not keep a command from being distributed once `-c` is
  given (`parser.go:149`); a value of `-include`, `-isystem`, `-MF` or `-MT` that is a
  separate word becomes one more input of cl.exe (`msvc_flags.go:280`); `-x` is applied to
  the source also when it comes after it; `-isystem dir`, `-include f` and `-U X` with the value as a separate
  word lose their value on the way to the preprocessor (`preprocess.go:126`); `-O`, `-m`
  and `-pthread` are not passed to it (`preprocess.go:137`); all `-D` go before all `-U`;
  `-x lang` is dropped for the worker, which compiles `source.i` (`native.go:62`);
  extensions are lower-cased, so `.C` and `.S` change meaning (`parser.go:206`); dependency
  files of `-MD` are not returned; the key sorts the flags (`key.go:47`) and leaves out the
  language. Each property excepts what concerns it in its own text.
* A compiler that exits 0 without an output is answered with `Success=false` and exit code
  0 (`native.go:104`), which the client takes as success (`build.go:197`): an empty object.
  `SuccessIsCurrent` and `RemoteSuccessJustified` except it by name.
* The object store writes in place (`store.go:216`): a hit may be torn while another
  invocation rewrites the file, or after one was killed in the middle. `SuccessIsCurrent`
  excepts a torn object only where another invocation is writing, or has ended and may have
  written, under the same key (`Rewritten`).
* Exit code -1 of an executor means that the deadline passed or that a signal ended the
  tool; the client cannot tell these apart.
* `RetryWithResult` returns the error of an earlier attempt together with the result of a
  later, successful one.
* A viewer that registers while an event is broadcast may get it twice. After `Hub.Stop`
  nobody receives on `unregister`.
* The Flutter executor waits for its command without a deadline (`flutter.go:454`).
* A Windows service whose server fails exits with code 0, so recovery actions never run.
* `HG_COORDINATOR` shadows the whole coordinator section of the file (`config.go:183`);
  `config init` writes a file that `Load` does not look for.
* A Makefile rule without a recipe is overwritten by the next rule, and rules with several
  targets are ignored. `parser.go:189` means to skip assignments, yet `CC := gcc` is taken
  for a rule, adds edges to `CC`, and can replace a rule before it: `GraphComplete` names
  these edges and this replacement apart from those of rules.
* The archives drop own files that only resemble what tools write (`LooksGenerated`): a path
  that goes on after `android/.gradle` or `ios/Pods` (`ios/Podspecs/x`), a name that ends in
  `.DS_Store`, a file named `build`, and for Unity a file of a generated directory's name.
* A worker refuses Unity builds as unimplemented (`worker/server/grpc.go:261`); the Unity
  archive drops every path with a part named `Build`, `Logs` or `Temp`, also below `Assets`;
  an empty list of platforms counts as all (`grpc.go:1299`).

## What is proved

All theorems hold for every value of the constants that meets the assumptions named in
the modules that declare them; TLC evaluates these in the runs.

The compile service, for every finite set of workers and calls, every request, limit,
scheduler and choice of disturbances (`GridAssumption`, `MaxConcurrentAssumption`,
`TimesAssumption`, `BaseScoreAssumption`, `RequestAssumption`), in `Coordinator_proofs`:

* The invariants `TypeOK`, `BookingsExact`, `WorkerLedger`,
  `AdmissionBound`, `ActiveTasksExact`, and the action property `OnlyHandshakeRevives`.
  They follow from `Invariance`, `Spec => []IInv`. `BookingsExact` alone is not
  inductive, for two reasons. `IncrementTasks` on a worker that is not registered does
  nothing, so one needs that a handler's worker is registered: `Placement` says so (no
  method in use removes an entry, and a restart of the coordinator removes the handlers
  with the entries), and that a handler past its selection has a worker. And the worker's
  counter is exact only if a call is in one place at a time: `Unsent` says that a call
  that was not sent is on no worker, and `WorkerInv` that inbox, running and refusing are
  disjoint and the counter is the size of the last two. `RegistryOK` says that absent
  entries have no load. The module begins with lemmas on what each method of the registry
  does to an entry, and that every worker step preserves `WorkerInv`.
* `CacheSound`, and that the coordinator implements `CompileService`
  (`CoordinatorImplementsService`): initial states map to initial states, and every step
  to a step of the service or to a stutter, with one lemma per action. Beside `IInv` this
  needs `AnswerInv`: a call is at one worker at most (`OnePlace`) and at none once it has
  a reply (`Settled`), so that it runs once; and what a handler holds as its result is
  what the worker replied, or says truthfully that nothing ran (`ResultKnown`).
* `AverageBounded` and `CountersExact`. The gauges count sets of calls by their place in
  the handler, and each addition moves one call into or out of one set, so every action is
  a lemma about one such move; between the additions of a handler the sets differ, and the
  theorem covers those states too. A weighted mean of two values below a bound stays below it.

The build client, `Client_proofs`, over the abstract service it is written against, for
any number of invocations, attempts and edits:

* `ClientTypeOK`, `RemoteSuccessJustified` (an action property) and `OutageAbsorbed` follow
  from `ClientInv`. The service's side must be part of it: an answer is final and, when it
  says ok, true of a run (`AnswersTrue`), attempts not yet made have idle calls
  (`AttemptsKnown`), and a run of any of an invocation's calls that succeeded was of a
  source the compiler accepts (`UnitsKnown`) - also when the invocation has moved on to
  another attempt. The empty object of a failed answer is an exception the statement names.
* `SuccessIsCurrent` has a hypothesis, `OnlyTextsChange`: only source texts are edited,
  none of them while a build runs, and the local preprocessor works. That is exactly what
  `generateCacheKeyRaw` takes for granted; without the first part `client_stale` shows the
  property violated, without the second the window of `build.go:188` is open, and without
  the third `client_raw` shows objects of the bare text. The proof needs that every file
  of the shared cache is the object of the text it is stored under, or torn by an invocation
  that is known to have written it (`CacheTrue`), and that what a running invocation has read
  is still what the tree holds (`Knows`).

The components around it, each for any value of its constants, in `Support_proofs`:

* Object store: `EntriesWereWritten`, `SizeAccounted`, `TornExplained` and the types.
  The first two are one invariant: every list a process holds and the list in the index
  file has no repetition, names written keys only and is within the limit (`GoodList`);
  otherwise a process that loads the index of another would break them. Eviction removes
  the shortest prefix that makes room, which is a lemma about sums. `TornExplained` needs
  that no two names ever stand for one file (`NamesDistinct`) and that an open file has
  only the names of its writer's key (`WritersKnown`): a rename must not carry a
  half-written file to another entry.
* Executors: `AnswerJustified`, `NothingLeftBehind` and the types. What a call
  holds is what it leaked or what its stack of deferred clean-ups will remove
  (`HeldKnown`), the stack is one of four (`StackKnown`), and a workspace has one owner
  and only what is the owner's in it (`DirsKnown`) - also when two calls carry one task
  identifier, which is where a name made of the identifier alone would fail.
* Hub: `ChannelsMatchClients`, `NoEventMissed` and the types, for any
  viewers, events and capacities. A viewer that has not registered has a fresh channel
  (`WaitingIsFresh`) and finds every event kept so far (`KeptForWaiting`), which is why
  the order "keep, then broadcast" in the code matters.
* Learners: `PendingOwned`, for any sharing of identifiers - a vector must be known to
  lie under the identifier of its own dispatch - and `MeanOfOwnRewards`, that the
  incremental mean is the mean: adding one reward changes the sum over a finite set by
  that reward. `LearnerAssumption` asks of `Unit` and `Rewards` what makes each quotient an
  integer.
* Breakers and retries: `OneBreakerPerHost` (a caller past `getOrCreate` holds a real
  breaker, hence one that a creation cannot replace) and `RetryVerdict`, which needs how
  the error of an earlier attempt is remembered.
* Discovery: `FoundWasAnnounced` and `CallbacksBalance`, which counts callbacks and claims
  nothing of the order of two in flight. Everything in the channels of a
  search was announced while it ran, and a search that reads them was not preset
  (`FinderKnown`).
* Windows services: `StatusTruthful`, from which parts run at each place of `Execute`
  (`ServiceKnown`).
* Composition: `ComponentsCompose` proves that every behaviour of `MCSupport` is a
  behaviour of each component's own specification, a step of another component being a
  stutter; `TypesCorrect` (`TypesOK`) then follows from the components' theorems, and so
  does every property above for the composed module.

The computations, `Algorithms_proofs`:

* `ConfigAccepted`, for any settings in files and flags that have the type of their key
  (`ConfigAssumption`). For each section a lemma says which settings its errors name, so
  that `Validate` accepts exactly a configuration in which no section complains; that the
  programs can run with it is a separate definition (`Usable`). Blame: if a setting is
  named that the file did not make, and none of its causes, then the check compares
  defaults only, and the defaults pass.
* `GraphComplete`, for Makefiles and compilation databases of any length. The recursion of
  the parser is over its lines, one action per line, so no induction over data is needed:
  a logical line is closed or still being joined (`LinesOK`), and every closed rule has
  been drawn, is the one remembered, or was replaced by a later one (`MakeInv`), where the
  lines taken for rules are the rules and the assignments with `:=`. A rule with a recipe
  cannot be replaced.

* `MobileFaithful`, for any orders, projects, products of the tools and machines.
  `MobileAssumption` asks only that the order is for one of the two subcommands and that
  paths consist of strings; which own files are dropped is in the statement: those in a
  directory that tools write (`InOutputs`), and look-alikes (`LooksGenerated`). The
  invariant carries the request and the workspace from stage to stage (`MobileInv`); the
  rest is what normalising a word, joining output and mode in one text and taking it apart
  again, and the two exclusion lists do to any word and any path.

Command lines of any length, `Commands_proofs` and `CommandRuns_proofs`. The items a user
may write are a constant, of which `CommandAssumption` asks that each be a file, a flag, or a
flag with its value as gcc knows them (`IsItem`; a joined `-isystemdir` is not one, since it
changes places with `-I` on the way to the preprocessor).

* `OwnFlagsRemoved`: `filterHgbuildFlags` leaves exactly what is meant for the compiler.
* `CommandsFaithful`, where no unknown value looks like a file: the parser, the filters of the executors and of the fallback, and
  the translation for cl.exe, against gcc and cl.exe. All of them fold over arguments and keep a
  flag that waits for its value. Over items nothing waits, so the proof replaces each fold
  over arguments by one over items (`ParseItem`, `MeanItem`, `Translation`) and then relates
  two states at a time: `Tracks` says what the parser's state and gcc's have in common after
  the same items. What the parser keeps in its flags is itself made of items (`KeptItem`), a
  filter of an executor drops at most `-c` of them (`Harmless`), and the settings gcc finds
  in what is left are those of the whole line (`Asks`, `Serves`). For cl.exe, an item chooses
  an optimization level, an exception model, or neither (`Works`), later choices override
  earlier ones (`Override`), and the added `/EHsc` comes last only where nothing was chosen.
* `PreprocessFaithful`, where the parser knows every flag with a value: `buildPreprocessArgs` puts the arguments in another order, so two
  relations are needed: between the parser and the user's meaning (`UserSide`), and between
  the flags that are passed and the preprocessor's meaning (`SeenSide`, `SeesAll`), the part
  in front of the flags being computed on its own (`Begun`). The order of `-D` and `-U` does
  not matter where no macro has both (`Calm`), since then the map of macros is determined by
  the sets of names.

The inductions in these proofs are applications of `SeqGrows`: a set that holds the empty
sequence and is closed under appending holds every sequence. The claim is turned into the
set of the sequences for which it holds, and that a fold treats its last element last comes
from an instance of `FoldFacts` with the operator that is folded.

The theorems about computations are about `ConfigSpec`, `GraphSpec`, `MobileSpec` and
`CmdSpec`; the run `algorithms` takes the same actions, one computation per behaviour, on
small inputs.

Only model-checked, and why:

* All liveness (`EveryCallAnswered`, `DeadWorkerShunned`, `LiveWorkerTrusted`,
  `EveryInvocationEnds`, `WorkEnds`): the prover handles neither fairness nor ENABLED.
* `KeyTellsFlags` is not a theorem. It excepts lines that give a flag twice, lines with a
  flag whose value the parser does not know (it splits `-include a -U b` into four flags, the
  key sorts them, and `-include b -U a` gets the same key), and lines that name a language.
  The run compares a command line with all lines of two options from its set, which holds
  joined and separate values of one flag.

Hazards without a property. `PROJECT.json` lists them with the reason. `store.go:91` (the
unit of the limit) lies outside the store: `SizeAccounted` checks the limit the store was
given. `linucb.go:186` (a retry overwrites the vector of the attempt in flight) is what the
model does too; `PendingOwned` does not claim which dispatch's outcome consumes a vector.
`browser.go:205` (callbacks delivered in another order than the changes of the table) is
free in the model, and `CallbacksBalance` counts only.

## Not modelled

* Security (token, TLS, request validation): checks in front of a handler that keep no
  state.
* Tracing, metrics, the task log, latency statistics: written and never read by the
  modelled logic. The dashboard's HTTP handlers and `stats.go` format snapshots.
* The generic gRPC server, interceptors, generated protocol code, terminal output and the
  renderers of the graph: wiring and formatting.
* Capability probes other than Flutter's and Unity's: questions to the host, whose answer
  is the constant `Caps`.
* LinUCB's matrices and HEFT's averages as numbers: floating point.
* Two worker processes on one host, which would share an identifier
  (`cmd/hg-worker/main.go:204`): in the model an identifier is one process.

Left for later: the store as an abstract map that may forget, with `BuildClient` on top of
it; a refinement of the hub to a broadcast that loses only what a full buffer costs.
