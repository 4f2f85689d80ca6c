------------------------------ MODULE Discovery ------------------------------
(***************************************************************************)
(* Finding the coordinator and the workers on the local network            *)
(* (internal/discovery/mdns).                                              *)
(*                                                                         *)
(* hg-coord announces itself (CoordAnnouncer).  hgbuild looks at its flag, *)
(* at HG_COORDINATOR and then at the network; hg-worker looks at its flag, *)
(* at the network and then at HG_COORDINATOR.  CoordBrowser.Discover runs  *)
(* three goroutines: the browse, the reader of the entries and the caller, *)
(* joined by channels and a deadline.                                      *)
(*                                                                         *)
(* Browser keeps a table of the workers heard of, reports each as found    *)
(* and, after its time to live, as lost.  One goroutine reads the entries, *)
(* so that one found callback at a time is pending; a goroutine of an      *)
(* earlier Start that has not seen its context end may overlap with that   *)
(* of the next one, which is not modelled.                                 *)
(***************************************************************************)
EXTENDS Integers, Sequences, FiniteSets

CONSTANTS
  Coords,       \* coordinators on the network
  GrpcPort,     \* [Coords -> port]; the address is <<coordinator, port>>
  HttpPort,     \* [Coords -> port]
  Finders,      \* processes that need a coordinator
  Heard,        \* worker identifiers in mDNS announcements
  MaxCallbacks  \* bound on the callbacks of the browser

ASSUME DiscoveryAssumption ==
  /\ GrpcPort \in [Coords -> Nat] /\ HttpPort \in [Coords -> Nat]
  /\ \A c \in Coords : GrpcPort[c] # HttpPort[c]
  /\ MaxCallbacks \in Nat
  /\ "" \notin Heard              \* "" stands for no worker

EntryCap == 10                      \* capacity of the channel entries
NoAddress == <<>>
Configured == <<"configured">>      \* an address given by flag or environment
Settings == [program : {"hgbuild", "worker"}, flag : BOOLEAN, env : BOOLEAN]

VARIABLES
  announcing,   \* [Coords -> BOOLEAN], CoordAnnouncer.server # nil
  setting,      \* [Finders -> Settings]
  fpc,          \* [Finders -> where the search stands]
  browsing,     \* [Finders -> BOOLEAN], the resolver delivers entries
  entryCh,      \* [Finders -> Seq of coordinators], the channel entries
  resultCh,     \* [Finders -> Seq of addresses], capacity 1
  errCh,        \* [Finders -> BOOLEAN], an error is in errCh
  deadline,     \* [Finders -> BOOLEAN], discoverCtx is done
  found,        \* [Finders -> the address the search ended with]
  everUp,       \* [Finders -> coordinators that announced during the search]
  running,      \* Browser.running
  resolving,    \* the browse and cleanup goroutines of the browser run
  known,        \* Browser.workers: identifiers
  telling,      \* a found callback handleDiscovery is about to make, or ""
  callbacks     \* [Heard -> sequence of "found" and "lost"]

finderVars == <<announcing, setting, fpc, browsing, entryCh, resultCh, errCh,
                deadline, found, everUp>>
browserVars == <<running, resolving, known, telling, callbacks>>
discoveryVars == <<finderVars, browserVars>>

DiscoveryTypeOK ==
  /\ announcing \in [Coords -> BOOLEAN]
  /\ setting \in [Finders -> Settings]
  /\ fpc \in [Finders -> {"start", "search", "fallback", "done"}]
  /\ browsing \in [Finders -> BOOLEAN]
  /\ entryCh \in [Finders -> Seq(Coords)]
  /\ \A f \in Finders : Len(entryCh[f]) <= EntryCap /\ Len(resultCh[f]) <= 1
  /\ resultCh \in [Finders -> Seq(Coords \X Nat)]
  /\ errCh \in [Finders -> BOOLEAN]
  /\ deadline \in [Finders -> BOOLEAN]
  /\ found \in [Finders -> {NoAddress, Configured} \cup (Coords \X Nat)]
  /\ everUp \in [Finders -> SUBSET Coords]
  /\ running \in BOOLEAN /\ resolving \in BOOLEAN
  /\ known \subseteq Heard
  /\ telling \in Heard \cup {""}
  /\ callbacks \in [Heard -> Seq({"found", "lost"})]

DiscoveryInit ==
  /\ announcing = [c \in Coords |-> FALSE]
  /\ setting \in [Finders -> Settings]
  /\ fpc = [f \in Finders |-> "start"]
  /\ browsing = [f \in Finders |-> FALSE]
  /\ entryCh = [f \in Finders |-> <<>>]
  /\ resultCh = [f \in Finders |-> <<>>]
  /\ errCh = [f \in Finders |-> FALSE]
  /\ deadline = [f \in Finders |-> FALSE]
  /\ found = [f \in Finders |-> NoAddress]
  /\ everUp = [f \in Finders |-> {}]
  /\ running = FALSE /\ resolving = FALSE
  /\ known = {} /\ telling = ""
  /\ callbacks = [w \in Heard |-> <<>>]

-----------------------------------------------------------------------------
(* The coordinator's announcement. *)

\* CoordAnnouncer.Start; a failure to register is logged and ignored (hg-coord).
Announce(c) ==
  /\ ~announcing[c]
  /\ announcing' = [announcing EXCEPT ![c] = TRUE]
  /\ everUp' = [f \in Finders |-> IF fpc[f] = "search" THEN everUp[f] \cup {c}
                                  ELSE everUp[f]]
  /\ UNCHANGED <<setting, fpc, browsing, entryCh, resultCh, errCh, deadline,
                 found, browserVars>>

\* CoordAnnouncer.Stop, or the end of the process.
Withdraw(c) ==
  /\ announcing[c]
  /\ announcing' = [announcing EXCEPT ![c] = FALSE]
  /\ UNCHANGED <<setting, fpc, browsing, entryCh, resultCh, errCh, deadline,
                 found, everUp, browserVars>>

-----------------------------------------------------------------------------
(* The search. *)

EndsWith(f, address) ==
  /\ fpc' = [fpc EXCEPT ![f] = "done"]
  /\ found' = [found EXCEPT ![f] = address]
  \* The deferred cancel ends the browse.
  /\ browsing' = [browsing EXCEPT ![f] = FALSE]

\* What is configured and looked at before the network: hgbuild's flag and
\* environment, the worker's flag.
Preset(f) == setting[f].flag \/ (setting[f].program = "hgbuild" /\ setting[f].env)

UsePreset(f) ==
  /\ fpc[f] = "start" /\ Preset(f)
  /\ EndsWith(f, Configured)
  /\ UNCHANGED <<announcing, setting, entryCh, resultCh, errCh, deadline,
                 everUp, browserVars>>

\* Discover: the browse starts, or fails and leaves an error in errCh.
StartSearch(f, ok) ==
  /\ fpc[f] = "start" /\ ~Preset(f)
  /\ fpc' = [fpc EXCEPT ![f] = "search"]
  /\ browsing' = [browsing EXCEPT ![f] = ok]
  /\ errCh' = [errCh EXCEPT ![f] = ~ok]
  /\ everUp' = [everUp EXCEPT ![f] = {c \in Coords : announcing[c]}]
  /\ UNCHANGED <<announcing, setting, entryCh, resultCh, deadline, found,
                 browserVars>>

\* zeroconf.NewResolver fails: Discover returns the error at once.
NoResolver(f) ==
  /\ fpc[f] = "start" /\ ~Preset(f)
  /\ fpc' = [fpc EXCEPT ![f] = "fallback"]
  /\ UNCHANGED <<announcing, setting, browsing, entryCh, resultCh, errCh,
                 deadline, found, everUp, browserVars>>

\* The network: an announcement reaches the browse (at most once a search).
Deliver(f, c) ==
  /\ browsing[f] /\ announcing[c]
  /\ Len(entryCh[f]) < EntryCap
  /\ \A i \in 1..Len(entryCh[f]) : entryCh[f][i] # c
  /\ entryCh' = [entryCh EXCEPT ![f] = Append(@, c)]
  /\ UNCHANGED <<announcing, setting, fpc, browsing, resultCh, errCh, deadline,
                 found, everUp, browserVars>>

\* The port of the dashboard is taken for the coordinator's.
AddressOfDashboard(c) == <<c, HttpPort[c]>>

\* parseEntry on what buildTXTRecords wrote: the host of the entry with the
\* port of the grpc_port record.
AddressOf(c) == <<c, GrpcPort[c]>>

\* The reader takes one entry, offers it and returns.
ReadEntry(f) ==
  /\ entryCh[f] # <<>> /\ resultCh[f] = <<>> /\ fpc[f] = "search"
  /\ resultCh' = [resultCh EXCEPT ![f] = <<AddressOf(Head(entryCh[f]))>>]
  /\ UNCHANGED <<announcing, setting, fpc, browsing, entryCh, errCh, deadline,
                 found, everUp, browserVars>>

\* select: the result ...
TakeResult(f) ==
  /\ fpc[f] = "search" /\ resultCh[f] # <<>>
  /\ EndsWith(f, Head(resultCh[f]))
  /\ UNCHANGED <<announcing, setting, entryCh, resultCh, errCh, deadline,
                 everUp, browserVars>>

\* Only an error of the browse ends the wait.
WaitForError(f) ==
  /\ fpc[f] = "search" /\ errCh[f]
  /\ fpc' = [fpc EXCEPT ![f] = "fallback"]
  /\ browsing' = [browsing EXCEPT ![f] = FALSE]
  /\ UNCHANGED <<announcing, setting, entryCh, resultCh, errCh, deadline,
                 found, everUp, browserVars>>

\* ... an error, or the deadline.
GiveUp(f) ==
  /\ fpc[f] = "search" /\ (errCh[f] \/ deadline[f])
  /\ fpc' = [fpc EXCEPT ![f] = "fallback"]
  /\ browsing' = [browsing EXCEPT ![f] = FALSE]
  /\ UNCHANGED <<announcing, setting, entryCh, resultCh, errCh, deadline,
                 found, everUp, browserVars>>

\* DiscoverWithFallback for the worker; hgbuild has looked at its environment
\* before and is left without a coordinator.
Fallback(f) ==
  /\ fpc[f] = "fallback"
  /\ EndsWith(f, IF setting[f].program = "worker" /\ setting[f].env
                 THEN Configured ELSE NoAddress)
  /\ UNCHANGED <<announcing, setting, entryCh, resultCh, errCh, deadline,
                 everUp, browserVars>>

SearchDeadline(f) ==
  /\ fpc[f] = "search" /\ ~deadline[f]
  /\ deadline' = [deadline EXCEPT ![f] = TRUE]
  /\ UNCHANGED <<announcing, setting, fpc, browsing, entryCh, resultCh, errCh,
                 found, everUp, browserVars>>

SearchStep(f) ==
  \/ UsePreset(f) \/ NoResolver(f) \/ \E ok \in BOOLEAN : StartSearch(f, ok)
  \/ TakeResult(f) \/ GiveUp(f) \/ Fallback(f)

FinderNext ==
  \/ \E c \in Coords : Announce(c) \/ Withdraw(c)
  \/ \E f \in Finders :
       \/ SearchStep(f) \/ ReadEntry(f) \/ SearchDeadline(f)
       \/ \E c \in Coords : Deliver(f, c)

FinderFairness ==
  \A f \in Finders : /\ WF_finderVars(SearchStep(f))
                     /\ WF_finderVars(SearchDeadline(f))

-----------------------------------------------------------------------------
(* The worker browser. *)

\* Start; when the resolver cannot be made the error leaves running set, and
\* only Stop makes another Start possible.
BrowserStart(ok) ==
  /\ ~running
  /\ running' = TRUE
  /\ resolving' = ok
  /\ UNCHANGED <<known, telling, callbacks, finderVars>>

\* Stop ends both goroutines; the table stays.
BrowserStop ==
  /\ running
  /\ running' = FALSE
  /\ resolving' = FALSE
  /\ UNCHANGED <<known, telling, callbacks, finderVars>>

\* Every announcement is reported as found.
DiscoveryAlways(w) ==
  /\ resolving /\ telling = ""
  /\ Len(callbacks[w]) < MaxCallbacks
  /\ known' = known \cup {w}
  /\ telling' = w
  /\ UNCHANGED <<running, resolving, callbacks, finderVars>>

\* handleDiscovery under the lock: store or refresh the worker.
HandleDiscovery(w) ==
  /\ resolving /\ telling = ""
  /\ Len(callbacks[w]) < MaxCallbacks
  /\ known' = known \cup {w}
  /\ telling' = IF w \in known THEN "" ELSE w
  /\ UNCHANGED <<running, resolving, callbacks, finderVars>>

\* ... and the callback, after the lock is released.
TellFound ==
  /\ telling # ""
  /\ callbacks' = [callbacks EXCEPT ![telling] = Append(@, "found")]
  /\ telling' = ""
  /\ UNCHANGED <<running, resolving, known, finderVars>>

\* cleanup: workers not heard of for the time to live go, each with its
\* callback made under the lock.
BrowserCleanup(gone) ==
  /\ resolving /\ gone # {}
  /\ gone \subseteq known
  /\ \A w \in gone : Len(callbacks[w]) < MaxCallbacks
  /\ known' = known \ gone
  /\ callbacks' = [w \in Heard |-> IF w \in gone THEN Append(callbacks[w], "lost")
                                   ELSE callbacks[w]]
  /\ UNCHANGED <<running, resolving, telling, finderVars>>

BrowserNext ==
  \/ \E ok \in BOOLEAN : BrowserStart(ok)
  \/ BrowserStop \/ TellFound
  \/ \E w \in Heard : HandleDiscovery(w)
  \/ \E gone \in SUBSET known : BrowserCleanup(gone)

DiscoveryNext == FinderNext \/ BrowserNext

DiscoverySpec == DiscoveryInit /\ [][DiscoveryNext]_discoveryVars

-----------------------------------------------------------------------------

\* An address found on the network is the gRPC address of a coordinator that
\* announced itself while the search was going on, and it is used only when
\* nothing was configured that the program looks at earlier.
FoundWasAnnounced ==
  \A f \in Finders :
    fpc[f] = "done" /\ found[f] \notin {NoAddress, Configured} =>
      /\ ~Preset(f)
      /\ \E c \in everUp[f] : found[f] = <<c, GrpcPort[c]>>

\* How often the callback e was made for worker w.
Reported(w, e) == Cardinality({i \in DOMAIN callbacks[w] : callbacks[w][i] = e})

\* Counting a callback that is about to be made, a worker is in the browser's
\* table exactly when it was reported found once more than lost: nothing is
\* reported twice and nothing forgotten silently, over stops and restarts too.
\* The order in which two callbacks of one worker are delivered is not claimed.
CallbacksBalance ==
  \A w \in Heard :
    LET pending == IF telling = w THEN 1 ELSE 0
    IN Reported(w, "found") + pending - Reported(w, "lost") = IF w \in known THEN 1 ELSE 0

\* Every search for a coordinator ends, with an address or without, whatever
\* the network delivers.
SearchEnds == \A f \in Finders : fpc[f] = "search" ~> fpc[f] = "done"

=============================================================================
