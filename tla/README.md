# TLA+ models of Moth's build system and dev server

Moth is a compiler for a web language together with a build system, an HTML
project builder and a dev server. This directory holds TLA+ modules for the
parts of it whose correctness depends on *order*: threads and connections of
the dev server, invocations that share an output directory, the scheduler that
orders packages and compiles modules in waves under an error budget, the parallel
preparation of a module's files, and the worklist that brings generated functions
to a fixed point. TLC checks every module on
small instances, and TLAPS proves every safety property the passing runs check
for all values of the constants.

Paths below are relative to the repository root.

## 1. Inventory

| Component | Where | State it keeps | Operations |
|---|---|---|---|
| Watching and rebuild loop | `src/projects/dev_server/{watch,build_loop,server}.rs` | revision counter, wake channel of capacity one, watch scope, last seen revision | start a session, signal a change, wait and debounce, build until stable, restart on another scope |
| Publication and event streams | `dev_server/{state,build_loop,sse,http,dev_client}.rs` | `BuildState` behind a mutex, registered SSE clients, a thread per connection, the tab's injected build number | switch the state, broadcast, register, announce, keep-alive, answer a GET, reload |
| Runtime reports | `dev_server/{http,state}.rs` | the ledger of startup failures | accept, deduplicate, limit, start over |
| Static files, routing, error pages | `dev_server/{static_files,error_page}.rs` | none | resolve a URL, render a page |
| Output writing and manifest cleanup | `src/build_system/output/*.rs` | the output root, the manifest file | preflight, own, emit, remove stale, write the manifest |
| Project compilation scheduling | `src/build_system/create_project_modules/{compilation,compiled_boundary,module_artifact_store}.rs`, `compilation/canonical.rs` | provider slots, published packages, diagnostic budget, check-only jobs, stop flags | open a boundary, classify and admit jobs, refuse, finish, gate |
| Module dependency graph | `create_project_modules/project_module_graph.rs` | adjacency, sweep counters | add an edge, complete, compute waves, name a cycle |
| Source package ordering | `create_project_modules/compilation.rs`, `compiled_boundary.rs`, `diagnostics/boundary_accumulator.rs` | ready heap, package registry, source databases, staged warnings | order packages, name a cycle, publish, run the check-only lane, commit warnings |
| File preparation | `create_project_modules/module_preparation.rs`, `src/compiler_frontend/symbols` | forks of the string and path tables, result slots | plan chunks, prepare, merge forks, remap, report |
| Source discovery | `create_project_modules/` | none that outlives it | walk, discover imports |
| Generated-function convergence | `src/compiler_frontend/module_compilation/generated/` | requests and their states, installed summaries, worklist, sidecars | request, materialise, infer and propagate, validate, publish |
| Configuration, builder surface, CLI, scaffolding, timing | `src/build_system`, `src/builder_surface`, `src/projects` | parsed records | parse, validate, register |
| Compiler front end, HIR, borrow checker, back ends | `src/compiler_frontend`, `src/backends` | per-module data | sequential translations |
| HTML builder | `src/projects/html_project` | route claims | assemble pages |

**How they interact.** A command discovers the sources and builds a
`ModuleGraph`, preparing the files of every module in parallel
(`FilePreparation`). Packages are ordered and published (`SourcePackages`), and
inside each the graph's waves drive the scheduler (`WaveCompile`); compiling one
module ends by answering its generic requests (`Convergence`). What passes the
success gate is assembled by the builder and handed to the output writer
(`OutputManifest`). The dev server repeats this cycle: `DevWatch` decides when,
`DevPublication` switches the shared `BuildState` to the result, `DevServe`
tells the browsers, and the browsers' failure reports come back through
`DevReports`.

**What is hard here.** The watcher signals while the loop builds; the loop
compares a counter, then blocks; a session is replaced while its watcher is
still signalling; a build reads files one by one while they are edited. The
publication takes a lock twice and works without it in between; streams
register while a broadcast runs; answers captured before a publication arrive
after it; connections drop. The output root has no lock, is shared by profiles,
and its manifest is rewritten in place, so crashes and overlapping invocations
come between any two steps. The scheduler can be stopped by its budget at any
admission, and its later stages insist on facts (every module has an outcome,
every blocked module has a culprit) that have to survive that. Package indices
and registry ids are two counters that must agree. Workers intern names on forks,
and the ids they hand back are rewritten twice. The convergence worklist works on
summaries that are provisional until it is dry. `hazards` in
`PROJECT.json` lists each of these at its line.

## 2. Modules

| Module | Models | Correspondence |
|---|---|---|
| `DevWatch` | watch sessions, both backends, the build loop | `revision`, `wake` are the `WatchSession`'s counter and channel; `pc` is the position of `run_watch_build_loop`; `sig` is the gap between `fetch_add` and `try_send` in `signal_change` |
| `DevPublication` | `publish_build_outcome`, `prepare_static_response` | the fields of `BuildState`; two critical sections are two actions |
| `DevServe` | SSE threads, GET handler, injected script | `cpc[c]` is the position of a connection's thread, `tpc[t]` of a tab; extends `DevPublication` |
| `HotReload` | the abstract promise to a tab | implemented by `DevServe` under the mapping at the end of that module |
| `DevReports` | `handle_runtime_report` | extends `DevPublication`; one report is one step because the handler holds the publication lock |
| `OutputManifest` | `write_project_outputs` from preflight to manifest | one local state per invocation (`Writers`); a file is whoever wrote it last |
| `WaveCompile` | the compile loop over boundaries and waves | `slot` is `ProviderSlot`, `charged` the budget, `jobs`/`units` the check-only lane, `outcome` what the success gate returns |
| `ModuleGraph` | graph construction, `compile_waves`, the cycle walk | field for field |
| `SourcePackages` | `order_packages_by_dependency`, `package_on_dependency_cycle`, `compile_source_package_inventories`, the registry and the warning store | `ready`, `indegree`, `consumers` are the sweep's, `packages`/`providerIds`/`consumerIds`/`databases` the registry's fields |
| `FilePreparation` | the chunk plan, the workers, the merge, `prepare_header_syntax`'s verdict | each worker is a process with its own forks; the merge takes the chunks in order |
| `Convergence` | materialisation of requests, the summary worklist, deferred validation, publication | `stack` is the recursion of materialisation, `installed` the summaries each node holds of its callees, `report` what the last borrow check found |
| `MC*` | constants for TLC | |
| `*Proofs` | theorems | |

Operators named in comments as a mutant or fault are plausible bugs of the
operator that follows them; they are not part of any specification. Replacing
the operator by its faulty form makes the property listed with it in
`PROJECT.json` fail, which shows that the property depends on the code.

### Abstractions

* **DevWatch.** A file's content is the number of edits made to it; a
  fingerprint (length, time) tells contents apart. A polling scan is one step
  and a build reads each file once. Error results and queue overflows of the
  operating system's notification service are not modelled. A `notify` watcher
  that fails on a later target may leave a signalled change to the polling session
  that replaces it (`SessionStart`). The first build
  runs with no session, as in `server.rs`. The numeric time-outs become
  "no wake is pending".
* **DevServe.** One origin, one page per tab, no redirects. A tab that got a
  404 or lost its answer has no dev client and does nothing more; a manual
  reload of it is another tab. A write to a closed connection may succeed into
  a buffer or fail. The server's own write timeout on a connection that is still
  open (`sse.rs:83`) is not a step of its own: it ends the stream like a dropped
  connection, and counts among those faults.
* **OutputManifest.** No case folding or path syntax; a path
  keeps its kind (a file path is not another file's directory). Directories nest
  (`Above`), and cleanup walks up as far as it empties them. Which outputs a build
  manages is chosen per build: those with an extension of its policy, and any
  others it emits as raw bytes or as a deferred resource. A path tracked by an
  earlier build and then emitted *unmanaged* is stale to the code, so cleanup
  removes what the build just wrote; `CleanupKeepsOutputs` is about managed
  outputs. A symbolic link, or a path that cannot be resolved or inspected for any
  reason, appears only as a stale path that cleanup passes over (`IgnoreStale`):
  such a file stays on disk and is tracked by no later manifest, without a failure
  or a warning. The history variable `managed` gives it up at the same moment.
  Writing unchanged bytes is skipped in the code, which
  is the same step here. Both production callers pass a project root, so
  ownership is always checked. A version 3 manifest has no profile and is
  `kind = "builder"`; a builder or profile name that was cut short matches no
  owner, and the root stays refused until the manifest is removed.
* **WaveCompile.** Compiling one module is an arbitrary choice between success,
  one to `MaxErrors` errors and an infrastructure failure. The waves of each
  boundary and the order of the packages are constants, assumed to respect the
  dependencies (`WaveAssumption`); `ModuleGraph` shows where the first comes
  from (`WavesServeScheduler` proves it of every graph). A batch is charged whole even if that passes the threshold. `Classify`
  counts a provider without an outcome as an internal error even where the code
  would have met a failed provider first, so `NoInternalError` is shown for more
  than the code needs. The module allowance flag is modelled where the
  scheduler sets it, not inside the compilation of a module. Warnings and a
  facade that fails after the waves are left out. A package whose build
  configuration fails is `PackageFails` of `SourcePackages`, not a step here, and
  a failure of the packages that templates use implicitly appears only as
  `CompileBreaks`.
* **ModuleGraph.** The nodes are given; edges arrive in any order.
* **SourcePackages.** A package is its position in prefix order, which is its
  heap key. What compiling a package does inside is `WaveCompile`'s; here it
  stages warnings, fails, or is not admitted. Rows of generated declarations,
  which carry their package with them, are left out, and so are the warnings the
  end of the command stages after the packages (`compiled_boundary.rs:1642`).
* **FilePreparation.** Tokenizing and header parsing are reduced to the names and
  paths a file writes, in order, and to how its preparation ends. Span builders
  and the capacity of the string table are left out, and so is the incremental
  discovery of directory projects, whose retained outputs are inputs here. The
  numeric thresholds are constants, scaled down for TLC. A retained file is one
  whose preparation succeeded, so the paths of the retained files fit in the table
  preparation starts from (`DiscoveryFits`). A file prepared here is a Markdown or
  template source, and its last write is the path of the `content` constant the
  compiler adds to it. Where the path table overflows decides what is reported: in
  a worker, a path of the file's own is a diagnostic and its content path an
  infrastructure failure (`EndOf`); in the merge it is one diagnostic for the
  module, and the diagnostics collected so far are dropped. Hence only *whether*
  the module is accepted is independent of the plan then.
* **Convergence.** The borrow checker's result for a node is the least fixed
  point of a monotone transfer over the installed summaries. `writes` stands for
  every monotone borrow effect (mutation, return alias), `fails` for
  `escapes_builtin_failure`; `clash` marks bodies that fail the borrow check once
  a callee writes. Provider leaves are folded into a body's own facts. Private
  failure lanes, numeric proofs, the search for a witness to show in a
  diagnostic, imports from external packages and warnings are left out.

## 3. Runs

| Run | Instance | Shows |
|---|---|---|
| `DevWatch` | configuration file and page, two edits each, limit of two rebuilds, both backends, panics of the polling worker, a scope that shrinks and grows | the loop never blocks on a change without a wake on its way; it never waits for a revision behind the session's; a quiet loop has published what it watches; a change made while the loop waits is built |
| `DevWatch_settle` | as above with a fixed scope and `notify` | *violated*: an edit between the stability check and the recording of the seen revision is never built |
| `DevReports` | two pages, two page loads, three builds, ledger of two | a report is printed at most once, and only for a page of the current successful build |
| `DevServe` | one tab, two connections, three builds, one fault | no stream misses a generation; a stale tab has its reload under way; the system implements `HotReload` with its fairness; tabs come to rest |
| `OutputManifest` | two paths, one of them two directories down, two owners of one builder, two policies, one invocation at a time, crashes, failures, torn manifests, a user | removes only own paths and no file another owner wrote last, keeps the managed files it emitted, keeps explicit directories, loses track of nothing while nothing failed |
| `OutputManifest_cut` | one path spelled as a prefix of another | *violated*: a cut manifest makes the next build remove a file it never wrote |
| `WaveCompile` | two packages and a project, seven modules, three check-only units of which any subset exists, thresholds 0–3, allowances 0–2 | no internal error, success is complete and built on providers, stop flag true, blocked modules explained, one error total for all refusals |
| `ModuleGraph` | every graph of four modules | waves partition and respect the edges, a named module is on a cycle and the walk never gets stuck, the sweep ends |
| `SourcePackages` | every dependency relation on four packages, failures and cutoffs at every package | the order is the one canonical order of the relation; a named package is on a cycle; the registry never refuses a package; warnings reach the source database of their package; every package is answered |
| `Convergence` | two base functions and two generated functions, a family of programs with every call shape, failure boundary and published function | a node with an outdated summary is queued; at the fixed point summaries are exact; no internal error; recursion is reported exactly when there is one; verdicts are those of the final summaries; what is published links; the compilation ends |
| `FilePreparation` | modules of up to three files of seven kinds, two or three threads, a path table of nine nodes, an allowance of two errors | every id resolves to the name its file wrote; the merged tables and diagnostics are those of the sequential preparation; whether a module is accepted does not depend on the plan or the schedule |
| `FilePreparation_overflow` | three Markdown files, one or three threads, a path table with room for two of their content paths | *violated*: split over three workers the module is diagnosed, with one worker it is an infrastructure failure |

Every run ends within three minutes on two workers; the largest are
`OutputManifest` (1,691,225 states, up to exchanging the two owners),
`SourcePackages` (541,362), `DevServe` (466,170) and `DevWatch` (456,160).

**Why the bounds are enough.** Two edits per file let one edit race a build and
a second one race its repetition; two rebuilds reach the consecutive limit, and
the scope change makes a session restart with either backend. Two connections
per tab let a new stream start while the old thread is still leaving; three
builds let a tab be two generations behind. In `OutputManifest` every
interleaving recurs with two paths: one current and one stale, in the root and
below two directories, of which either may be explicit or still in use; invocations are not counted, the state space is finite without it. Seven
modules give a facade over a module, a package over a package, and project
modules over both; the thresholds stop the scheduler before, inside and after
every boundary. On four modules, and on four packages, a cycle of two or three can have others
ahead of it and behind it. Two generated functions under two base functions give
mutual recursion, a shared callee and a caller that is visited before and after
its callee changed. Three files make up to three chunks, so that a later fork
repeats, shifts or extends what an earlier one interned, and a table of nine
nodes fills up in a fork for some modules and only in the merge for others.

**Deadlock** is checked for the scheduler, the graph, the packages, the
convergence, the preparation of files and the output writer
(a finished command is an explicit `Terminated` step). The dev server models
stop when their bounds on edits, builds and reports are used up, so their runs do
not check it; that waiting ends is what their liveness properties say.

**Fairness.** `DevWatch`: weak fairness of the watcher as a whole (events are
delivered, the polling worker keeps its interval) and of the loop's thread;
none of edits or panics. `DevServe`: weak fairness of publishing, of
broadcasting, of each connection's thread and of each tab's event loop; none of
builds, visits or faults. `ModuleGraph`: `compile_waves` is a plain call, so
once entered its steps are taken. `SourcePackages` and `Convergence` are each one
thread that runs until it returns: weak fairness of its next step. Everything else is checked without fairness.

## 4. What the repository says and the code does not

Each is a run expected to fail, with the quotation in `PROJECT.json`.

1. `build_loop.rs` records the *current* revision when it leaves the build
   loop, not the one its last build started from. A change signalled in between
   is counted as seen. `QuietLoopIsFresh` carries exactly that as its
   hypothesis: whenever the two revisions agree, nothing is missed.
2. The manifest is rewritten in place and its last record is unterminated, so a
   cut record can name another path.
3. A path table that runs out is called a deterministic rejection, but for the
   `content` path of a Markdown or template source it is an infrastructure failure
   in a worker and a diagnostic in the merge, so the verdict's kind depends on the
   number of threads. With the real capacity of nearly 2^32 nodes this is a
   matter of principle.

The models also show limits about which the repository promises nothing. The
first build precedes the first watch session, so an edit in between is not built
until another change. The ownership check of the output root is not atomic with
the writes after it, so two overlapping builds may both claim a fresh root
(what holds then, and what only without overlap, is said with the theorems). The
manifest is written after the batch, so a batch that fails leaves files in the root
that no manifest tracks; the code documents that it keeps them. A polling fingerprint is a
time and a length, so an edit that keeps both is not seen. A tab that received a
404 has no dev client and stays on it. A manifest cut inside its owner line keeps
the root refused until the file is removed.

## 5. Proofs

There are eight proof modules. Each extends its component and rests only on the
named assumptions about the constants in that component (sizes are natural
numbers, tables have their type, programs are well formed); what a theorem assumes
beyond that is in its statement. In each an inductive invariant is the conjunction
of the type invariant `TypeOK` and named parts, one lemma per action or group of
actions shows that it is preserved, and the properties of the runs follow from it.
`TypeOK` is a theorem of its own (`TypeCorrect`) in `DevWatchProofs`,
`OutputManifestProofs`, `WaveCompileProofs` and `FilePreparationProofs`, and a part of the theorem
`Invariance` in the others; the runs leave it to the proofs.

**`DevWatchProofs`** (from `WatchAssumption`): `WaitNeverStranded`,
`SeenNeverAhead`, `QuietLoopFresh`. None of them is inductive. `IndInv` adds
`SessionInv` (until a polling worker has looked, the loop waits at the revision its
session started with, so that worker cannot be the backend of a build), `RevisionInv` (no counter is
ahead of the session's) and `FreshInv`: while the revision has not moved since the
build began, the backend has accounted for nothing newer than what the build has
read. That last one is why reading the start revision *before* the files matters.

**`DevServeProofs`** (from `PublicationAssumption`, `ServeAssumption`):
`GenerationsReachStreams`, `StaleTabsReload`, and `KeepsPromiseSafely`, that every
behaviour of server and tabs is one of `HotReload`: the initial states map to initial
states, and each step to a step of the abstract specification or a stutter.
`PublicationInv` relates the error and the served build to the version, `StreamInv`
the registration of a stream to the position of its thread and each tab to the
stream it holds, `TabInv` what a tab shows or is about to show to the version. The
argument turns on the order *register, then read the version*: a stream that read an
older version is already registered, so the broadcast wakes it.

The last section of the module (from `PublicationAssumption`, `ReportAssumption`) is
about `DevReports`: `OnlyServedPrinted`, `PrintedOnce`. `printed` counts how often
each report was printed, whatever the ledger holds. The ledger forgets its keys
when a newer build is reported, so "printed once" is not about the ledger alone.
`LedgerInv` says that a printed key is of the ledger's build and still in it, or of
an older build; `LedgerPublicationInv` that what is served now is on record. A report
that passes the check for the current build is then either in the ledger or new.

**`OutputManifestProofs`** (from `OutputAssumption`). Two theorems hold for any
number of overlapping and crashing invocations. `OnlyOwnPathsRemoved` needs that no
output path is a prefix of another (`NoCuts`; run `OutputManifest_cut` shows that
the condition is needed). It comes from `TracksOnlyWritten /\ JobsOwnPaths`: the
manifest tracks, and each invocation will remove or record, only what the owner
wrote, apart from outputs still to be emitted. `OutputsSurviveCleanup` needs no
condition and comes from `StaleOrKept`: a path a build is about to visit is not one
of its managed outputs. Three need invocations that do not
overlap (`OneWriter`, which nothing in the code enforces). `ForeignFilesSpared`,
under `NoCuts` too, comes from `NoForeignTracked`: whatever crashes, torn manifests
and removed manifests let a second owner write over, a path that a complete manifest
tracks, or that the build at work will visit, was last written by its owner or by
nobody. The other two are `ExplicitDirectoriesKept`, and `FilesStayTracked`, from
`NotLost` (as long as every build came to its end under one policy, a managed file
on disk that was not given up is in the manifest or recorded by the build at work).

**`WaveCompileProofs`** (from `WaveAssumption`): `InternalErrorsUnreachable`,
`SuccessIsWhole`, `ProvidersFirst`, `BlockedHasCause`, `RefusalsSeeOneTotal`,
`StopFlagIsTrue`, for every graph, package order, threshold, allowance, set of
check-only units and pattern of failures. `IInv` relates the budget to what was
charged and retained (`BudgetInv`), the position of the loops to what has been
published and visited (`OrderInv`, `VisitInv`), the check-only lane to its jobs
(`LaneInv`), each compiled module to its providers (`ProviderInv`) and the outcome to
the state it was taken in (`OutcomeInv`). The lemmas `WaveIsReady`,
`OnlyExhaustedRefuses`, `FinishedIsComplete` and `GateIsSound` are the reasons the
four groups of internal errors cannot occur. For the stop flag, `FlagInv` adds that
nothing is visited after it is set, that something is left behind when it is, and
that a boundary left unpublished or a unit dropped goes back to it.

**`ModuleGraphProofs`** (from `GraphAssumption`): `ProvidersInEarlierWaves`,
`WavesHoldEachModuleOnce`, `WitnessIsOnCycle`, for every graph. A counter of the
sweep is the number of providers in no wave yet and the ready set is the set of
modules with none left (`SweepInv`; the two directions of the adjacency agree,
`AdjacencyInv`); a wave is closed under providers and no two share a module
(`PlacedInv`); the walk moves along provider edges, so the module it is at can be
reached from each it passed (`WalkInv`). `WavesServeScheduler` states the same as the
scheduler assumes it: the waves of an accepted graph number its modules, and a
provider's number is less than its consumer's (the clause of `WaveAssumption` about
`WaveOf`). The lemma `BlockedHasBlockedProvider` says
that the walk never gets stuck. That a non-empty set of modules has a least one
comes from the well-founded order of the subsets of a finite set.

**`SourcePackagesProofs`** (from `PackagesAssumption`): `CanonicalOrder`,
`WitnessIsOnCycle`, `NothingIsRefused`, `WarningsRendered`. Sweep and walk have the
same invariants as above; `OrderInv` adds that each place of the order has the least
package that could stand there, and the lemmas before `CanonicalOrder` show that
this determines the order. `RegistryInv`, `EdgeInv` and `WarningInv` keep package
ids, boundary indices, deferred work and databases aligned.

**`ConvergenceProofs`** (from `SizesAssumption`, `ProgramsAssumption`), for every
well-formed program: `StaleNodesWait`, `WorklistComputesExact`,
`InternalErrorsUnreachable`, `RecursionIsReal`, `VerdictsAreExact`,
`PublicationLinks`. First come lemmas about the least fixed point (it is closed, the
smallest, and monotone in what it is given). Then: no summary claims what is not so,
and nothing is installed that is not reported (`SoundInv`); a node's writes are the
least fixed point over what is installed in it, and its failures are below theirs
(`LocalInv`) and equal to it unless the node is queued (`WorkInv`). With an empty
queue the union of the local fixed points is closed under the whole program, hence
above its least fixed point, and by `SoundInv` below it. `RequestInv` (completed
requests form no circle) and `StackInv` (each frame was asked for by the one below)
give that recursion is reported exactly where there is a circle.

**`FilePreparationProofs`** (from the assumptions of `FilePreparation`):
`OutputsResolve`, `SplittingNeverShows`, `AcceptanceStable`, for modules of any number
of files and writes, any pool, any capacity and any order in which the workers
finish. What a file interns is a recursion over its writes, so the proof needs
induction over data. The library's induction theorems have an operator parameter
that the provers cannot instantiate; here the induction hypothesis is a *set* of
indices (`Induct`, from a least element of a set of naturals, which in turn comes from the
well-founded order of the subsets of a finite interval), and the model's recursions
are recursive functions on an interval, which `Runs` unfolds.

1. *Tables.* Interning keeps a table sound (no duplicates, parents before children)
   and only extends it, so an id once handed out keeps its text.
2. *Embedding.* The remaps of a merge embed the fork's tables in the merged ones:
   every id goes to an id of the same text, whether or not an earlier chunk interned
   it. That is why rewriting an output is right, and why a remap that is the
   identity can be skipped.
3. *Lockstep.* A worker starts from the base tables, the sequential run from all
   that came before the chunk. Merging the worker's fork onto the tables the
   sequential run had at the start of the chunk gives, after every write, the
   tables the sequential run has after the same write. If the worker's fork
   overflows then so does the sequential run. A worker that overflowed has a file
   that failed, diagnosed or not, which is all acceptance depends on.
4. *Collection.* The plan partitions the files into consecutive ranges, the merge
   takes them in that order whatever order they arrived in, and `Collecting` over
   the first chunks is the collection over the first files.

`IInv` says this of a state: the base is what discovery left (`Setup`), each worker's
forks and results are those of its files so far, in lockstep (`Forks`), chunks arrive
once and complete (`Arrivals`), and the merged tables, outputs, warnings and errors are
the sequential run's up to the last merged chunk (`Merging`). TLC found these parts to
hold on the instance of the run before they were proved.

**Model-checked only.** Liveness under fairness, which the prover does not reach:
`ChangeWhileWaitingIsBuilt`, `TabsSettle`, `SweepEnds`, `PackagesAnswered`,
`CompilationEnds`, and the fairness part of `KeepsPromise`. Every invariant and every
safety action property of the passing runs is a theorem. The runs that expect a
violation are counterexamples and need no proof.

## 6. Not modelled

* Tokenizer, AST, type checking, templates, HIR, JavaScript and WebAssembly back
  ends: sequential translations over rich data, without shared state. They are
  most of the repository's lines; what can go wrong in them is in the data, which
  a small finite instance does not represent.
* The borrow checker: a data-flow analysis of one function at a time.
  `Convergence` uses what it promises, a monotone summary.
* Source discovery: a walk over the file system whose result is the input of
  `ModuleGraph` and `FilePreparation`.
* Public interfaces, and the merge of the tables of modules into a boundary.
* Configuration, builder registration, command line, scaffolding, timing: pure
  parsing or one-shot sequences of calls.
* Static-file routing, error pages, route claims of the HTML builder: functions of
  their input.
* Benchmarks, test harness and tooling are not part of the program.

## 7. Plan

Done, in this order: `DevWatch`, `DevPublication`, `DevReports`, `DevServe`
with `HotReload`, `OutputManifest`, `WaveCompile`, `ModuleGraph`; proofs of
`DevWatch`, `OutputManifest`, `WaveCompile`; `SourcePackages`, `Convergence`,
`FilePreparation`; proofs of `DevReports`, `ModuleGraph`, `SourcePackages`,
`DevServe` with the safety part of its refinement, `Convergence`, and the remaining
safety properties of `OutputManifest` and `WaveCompile`; proofs of `FilePreparation`.

To extend the model:

1. A composition in which the waves of `ModuleGraph` and the order of
   `SourcePackages` are those `WaveCompile` uses. `WavesRespectProviders`,
   `WavesPartition` and `OrderIsCanonical`, now proved, are what `WaveAssumption`
   takes for granted about them.
2. Request routing and route claims of the HTML builder as operators checked
   against a reference definition.
3. The incremental syntax discovery of directory projects before
   `FilePreparation`.

To prove more: that the order `SourcePackages` publishes in satisfies the clause of
`WaveAssumption` about package indices, as `WavesServeScheduler` does for the waves.
