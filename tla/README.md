# TLA+ models of the Pike language server

This directory holds the TLA+ models of the stateful core of the Pike language
server (`src/server/src`, `src/client`), the TLC configurations that check
them on small instances, and TLAPS proofs of what should hold for every size.
`PROJECT.json` relates every definition to the lines it models, every run to its
properties and every property to a bug it would catch.

Run everything from this directory:

    tlasany PikeWorker.tla
    tlc -workers 2 -config worker_faults.cfg PikeWorker
    tlc -workers 2 -config session.cfg MCSession
    tlapm PikeWorkerProofs.tla

## 1. The system

The server is one JavaScript process: callbacks run to their end, one at a
time, and everything that can go wrong is a matter of which callback comes
next and of what a callback read before an `await`. It owns one child process,
the Pike compiler in a worker loop (`server/pike/worker.pike`), and is itself
started, restarted and stopped by the language client of the editor.

| Component | State | Operations | Talks to |
|---|---|---|---|
| PikeWorker (`pikeWorker*.ts`) | current child, three priority sub-queues, pending map, one timeout per request, idle timer, crash counter and backoff deadline, `sending` flag | enqueue, drain, write completion, response, timeout, cancellation, stop, restart, exit, error, idle eviction | child (stdin/stdout/signals), DiagnosticManager, hover/completion, hibernation |
| DiagnosticManager (`diagnosticManager.ts`) | per document: debounce timer and the version it is for, in-flight flag, stale-notice timer, last problems, propagation chain; verdict cache by content hash; mode, disposed | change, save, close, debounce, dispatch, answer, publish, propagate, stale notice, mode switch, dispose | PikeWorker, WorkspaceIndex (dependents), client |
| WorkspaceIndex (`workspaceIndex*.ts`, `workspaceLifecycle.ts`) | file entries and their state, forward and reverse dependency edges | upsert (awaits a parse), upsert from background or cache, invalidate with dependents, demote, rehydrate, remove, clear | parser, module resolver, cache, memory governor |
| Document handler and repair (`serverDocumentHandler.ts`, `openDocumentRepair.ts`) | open documents, stale flags, repair round | open, change, close, walk over dependencies, repair rounds | WorkspaceIndex, DiagnosticManager |
| Background indexing, global queries (`backgroundIndex.ts`, `globalQueryPrep.ts`) | batch position, cancellation token, "prepared" mark | discover, read, parse, index, yield | WorkspaceIndex, memory governor |
| Watched files (`serverFileWatchHandler.ts`) | - | created, changed, deleted, renamed | WorkspaceIndex, DiagnosticManager, hibernation |
| Module resolver (`moduleResolver*.ts`) | cache of answers, null answers included | resolve module, inherit, import, include; warm; invalidate | file system, WorkspaceIndex |
| Persistent cache (`persistentCache.ts`, `cacheManifest.ts`) | files under `.pike-lsp` | save, prune, load, stubs, hydrate | WorkspaceIndex, file system |
| Hibernation (`hibernation.ts`) | active / hibernating / hibernated, idle clock | activity, idle check, hibernate, wake | PikeWorker, cache, WorkspaceIndex |
| Memory governor, resource state | state, pressure level | transition, evict, cancel background work | WorkspaceIndex, PikeWorker |
| Server lifecycle (`serverLifecycle.ts`, init, shutdown) | phases of startup and shutdown | initialize, initialized, shutdown, exit | all of the above |
| Client restart policy (`client/restartPolicy.ts`) | attempts, stable timer | state changes of the language client | language client |
| Parser and tree cache (`parser.ts`, `lruCache.ts`) | parse trees in the WASM heap, an LRU cache that owns them | parse, borrow, close, pressure, shutdown | every feature |
| Symbol table, cross-file resolution, rename, type hierarchy, semantic tokens | scopes and references; the last answer's tokens | resolve, complete, search along inherits, edit, delta | WorkspaceIndex, client |

### Which behaviours are hard

* *Replaced processes.* The worker drops its child at once (`stop`, a timeout,
  a ceiling) and the child's remaining answers, exit event and unfinished
  writes arrive afterwards, when another child is current.
* *Timers racing events.* Request timeouts, the idle timer, the grace timer
  and the backoff deadline fire in any order relative to answers and exits.
* *State read before an await.* Upserts, walks, wake and hibernate, hydration,
  diagnosis, searches and repair all read, await, then write.
* *Partial failure.* Spawns fail at once or later, writes fail, streams
  desync, saves stop half-way and overlap the next one.
* *Two directions of one relation.* Forward and reverse dependency edges,
  parents and children of a class, resolution and completion, definition and
  references are computed by different code and must agree.
* *Ownership.* A parse tree has to be freed exactly once, and not while a
  handler suspended over an await still reads it.

### What makes each component correct

* PikeWorker: every accepted request settles exactly once; a caller only ever
  waits for the process that was asked; the queue never sleeps; no child is
  forgotten while it runs; one priority is served in order; timers and
  backoff do not hurt healthy processes.
* DiagnosticManager: when nothing is left to happen the editor shows the
  problems of the text in it and of its imports; a cached verdict is that of
  its content; nothing is shown for a closed document or after shutdown; a
  notice that diagnostics are being updated does not outlive the update; an
  import cycle does not keep the worker busy.
* WorkspaceIndex, documents, repair: an invalidation of a dependency reaches
  what was built from it; an entry of the version of an edited document holds
  its text; open documents get their tables back; dependencies are repaired
  first.
* Scans: a prepared index covers what was found; dependents are diagnosed
  again; memory is relieved while it is short.
* Session: a table is filed under the hash of its text, whatever dies; what a
  request got is what the file holds; whole saves leave whole caches; crash
  loops end.
* Support: eviction is least-recent-first; borrowed trees stay alive; a search
  finds what is reachable; the editor's token array is the server's; the two
  directions of each relation agree.

## 2. Modules

| Module | Models | Kind |
|---|---|---|
| `PikeWorker` | `pikeWorker.ts`, `pikeWorkerProcess.ts`, `pikeWorkerHealth.ts`, `pikeWorkerLifecycle.ts`, `pikeWorkerSpawn.ts`, response dispatch | detailed specification |
| `RequestService` | what the worker promises its callers | abstract specification |
| `DiagnosticManager` | `diagnosticManager.ts`, `diagnosticPropagation.ts`, the document and file-watch handlers and the index's edges as far as diagnosis depends on them | detailed specification |
| `WorkspaceIndex` | the methods of the index, from an index to an index | operators |
| `DocumentIndexing` | document handlers, the walk over dependencies, repair, on-demand indexing, lazily resolved dependencies, queries, watched files | detailed specification over `WorkspaceIndex` |
| `WorkspaceScan` | `backgroundIndex.ts`, `globalQueryPrep.ts`, watched files, memory governor, resource state | detailed specification over `WorkspaceIndex` |
| `PersistentCache` | the cache on disk, its manifest, what restoring makes of an index | operators |
| `RestartPolicy` | `client/restartPolicy.ts` and its use in `client/extension.ts` | specification |
| `Session` | client, server processes, startup, hibernation, saves, shutdown | composition of `RestartPolicy`, `PersistentCache`, `WorkspaceIndex` |
| `TreeCache` | `lruCache.ts` and the trees of `parser.ts` | detailed specification |
| `CrossFileResolution` | `workspaceResolution.ts` | algorithm with its awaits, against a reference definition |
| `SemanticTokens` | full answers and deltas of semantic tokens | detailed specification |
| `SymbolScopes` | declaration pass, inheritance wiring, `resolveName`, `getSymbolsInScope` | algorithms against a reference definition |
| `ModuleResolver` | `moduleResolver*.ts`, edges, renamed files | detailed specification against a reference definition |
| `Rename` | definitions, references, edits of a rename over two files | algorithm against a reference definition |
| `TypeHierarchy` | supertypes and subtypes over the tables of `Rename` | algorithm against a reference definition |
| `PikeWorkerClaims`, `DiagnosticClaims` | statements the code does not keep | properties |
| `MCDiagnostics`, `MCDocuments`, `MCScan`, `MCSession`, `MCSupport` | small instances; the last three and `MCDocuments` also hold statements the code does not keep | model checking |
| `PikeWorkerProofs`, `ServiceProofs`, `DiagnosticProofs`, `WorkspaceIndexProofs`, `DocumentProofs`, `ScanProofs`, `SessionProofs`, `SupportProofs` | see section 5 | proofs |

Each module's header says what it models and what it abstracts from. The
components meet in few promises. DiagnosticManager sees the worker as a queue
that answers in the order of the requests (all diagnoses have one priority, so
`SamePriorityFIFO` applies) and settles each of them (`EveryRequestSettles`),
perhaps with a failure. `DocumentIndexing`, `WorkspaceScan` and `Session` share
the operators of `WorkspaceIndex`; each has in full what the others reduce to
one step. `MCSupport` instantiates seven independent parts: a behaviour is of
one of them, and what is not under study is as small as it can be.

### PikeWorker: state and actions against the code

The object's fields keep their names. Differences, each an abstraction:

* `queues` is the set `queued` plus `priority[i]`: ids only grow and items are
  only ever pushed at the end, so order in a sub-queue is order of ids.
* `pending` is its key set; the timer handle of an entry is membership of
  `timers`; the promise of a request is `outcome[i]`.
* The child is `os[p]`, its signals `sigterm` and `sigkill` (`proc.killed` is
  "in either") and `pipe[p]`, one sequence for stdin, the child and stdout: the
  worker program answers in order. A response can be delivered after the exit
  event, as Node allows.
* `Junk` in a pipe stands for a chunk that desyncs the stream (five malformed
  lines, or a megabyte without a newline). Partial lines are not modelled;
  neither is that `processBuffer` (`pikeWorkerProcess.ts:448`) stores the rest
  of an old chunk after a restart within it, nor that malformed lines are counted
  per chunk (`pikeWorkerResponseParser.ts:58`).
* `backoff` is `Date.now() < crashBackoffUntil`; `BackoffExpires` is the clock.
* `restarting` is set and reset inside one callback and so never observed; the
  pings of `restart()` are later `Enqueue` steps. `warmUp()` is `start()`
  followed by such a step, called once at startup.

Methods are operators from the object to the object (`Stop(s)`,
`AbandonWorker(s)`, `DrainQueue(s)`), handlers are actions that compose them:
`Enqueue` (enqueue, prepareRestart, start, drain), `WriteDone`/`WriteFail` (the
two continuations of a write), `Deliver`/`DeliverJunk` (stdout), `Timeout`,
`IdleFire`, `GraceTimer`, `StopWorker`, `Exit`, `SpawnError`. `Ready`, `Garble`
and `Cancel` belong to the environment, limited by `Faults`.

Left out: the typeof and resolve result caches, the heartbeat monitor (nothing
in production calls `startHeartbeat`), a `start()` that throws because Node
returned a child without streams, stderr and path helpers.
`assertPikeRuntimeReady` never throws once a child was started, since it asks
constants of the module load and a memoised directory; `restart()` and
`prepareRestart()` only run after that, so that `restarting` is always reset.
Before the first start its throw turns the request away and changes nothing.

### DiagnosticManager: state and actions against the code

One action is one callback up to its first `await` or to its end; what it keeps
across the `await` is in the record of the run (`runs`) or the timer.

| Action | Code |
|---|---|
| `Open`, `Edit` | `didOpen`, `didChange` and the handler of `onDidChangeContent` up to its upsert |
| `ContentHandled`, `ContentFails` | the same handler after the upsert: `onDidChange`, or after content that was refused or could not be indexed |
| `QueryBegins`, `QueryEnds` | any other upsert of a document: a feature request, a repair round, an on-demand look-up |
| `IndexRefresh` | `indexWarmRefresh.ts`, the refresh of open documents after background indexing |
| `Save`, `Close` | `onDidSave`, `onDidClose` with the eviction and `removeFile` of the close handler |
| `DebounceFires` | the debounce timer, `dispatchDiagnose`, `runDiagnose` up to the worker |
| `StaleFires` | the two-second timer of `runDiagnose` |
| `Answer`, `Fail` | `diagnoseWithPike` and `runDiagnose` after the worker answered, propagation included, and its `catch` and `finally` |
| `SetDiagnosticMode`, `Dispose` | the methods of these names |
| `FileChanged`, `FileReindexed`, `FileDeleted` | `serverFileWatchHandler.ts`; the file is indexed again or cannot be |

The points where the model says more than the code's text:

* *Documents.* `TextDocuments` updates a `TextDocument` in place, so a callback
  that kept `doc` reads the newest version from it. A closed and reopened
  document is a new object: `session` tells objects apart, `version[u][s]` is
  the version of object `s`. The version gate of `publishDiagnostics` therefore
  rejects only what was kept from an earlier session.
* *Verdicts.* What Pike says is abstracted to what it was computed from:
  `world`, the content of the document and of every open document it needs
  (closed ones come from disk, `NoText`). `checked` is FALSE for the empty list
  that stands for "not asked". `shown[u]` is what the client was last sent: the
  text whose parse problems, the verdict and the notice it contains.
* *Dropped states.* `fileStates.delete` leaves runs and armed timers holding the
  old object; they carry an `orphan` flag, and a timer keeps the object's last
  problems in `last`.
* *Leaked timers.* `staleTimers` holds every armed timer, `state[u].staleTimer`
  the handle the code keeps. They differ when two runs overlap.
* *The index.* `dependents` are the reverse edges. `upsertFile` removes those
  of the old entry before it awaits and registers the new ones after;
  `removeFile` drops the edges from and to the file. Which symbol tables a
  memory eviction dropped is not modelled, so a query may index any document.
  A watched file's importers are captured before its edges are dropped
  (`refreshing`).
* *The worker.* Verdicts arrive in request order, failures at any time. Under
  `WorkerIsFast` the diagnose of a file is answered before that file's next
  debounce fires; decision 0031 measures a warm diagnose at well under a
  millisecond against a debounce of 500 ms. Runs that need no such assumption
  set it to FALSE.

Left out: how problems are computed, merged, truncated, worded and linted;
telemetry; the size bound of the verdict cache; the cap of 64 overlay files; the
exception of a closed connection, which disposes the manager; contents that
change what a file imports (`Imports` is fixed); renamed files.

### WorkspaceIndex and DocumentIndexing

An index is a record of `files` (a function on the files that have an entry)
and `dependents`, the set of pairs `<<d, f>>` of the reverse map. A symbol table
is the set of `<<file, text>>` whose declarations it holds, because a table is
merged with those of what the file includes and inherits; the empty set is
`null`. A content hash is the text it hashes. `deps` are the forward edges,
`resolved` says whether they are known (`dependenciesResolved`).

An upsert is two steps with other callbacks between them: `StartUpsert` (the old
edges go, the parse starts) and then `UpsertBuild` and `UpsertInstall` after its
awaits, with the version checks the code makes there. A continuation of a
handler runs to its next await on I/O, a timer or another task.

| Action | Code |
|---|---|
| `Open`, `Edit`, `Save`, `Close` | the events of `serverDocumentHandler.ts` |
| `HandleOpen`, `HandleContent` | their handlers, which run later (`notices`, `handlers`) |
| `Ask`, `AskAgain` | `getSymbolTable` of `serverContext.ts`, which joins an upsert in flight |
| `OnDemandIndex` | the on-demand indexer of `serverInitHandler.ts` |
| `Resolve`, `ResolveEnds` | `ensureDependenciesResolved` |
| `ClosureResolve`, `ClosureDeps`, `ClosureRead`, `ClosureInstall` | the walk over the dependencies of a file just opened; a dependency may be opened between its reading and its installation |
| `FileChanged`, `WatchRead`, `FileDeleted` | `serverFileWatchHandler.ts` |
| `RepairStarts`, `RepairReindex`, `RepairInstalls`, `RepairRoundEnds` | the rounds of `openDocumentRepair.ts`, with `OrderByDependenciesFirst` |

A document is opened at most once, with any text, saved or not; the parser is
loaded; the caps on the walk are not reached; the on-demand indexer and a
watched file are read and indexed in one step; only files nobody has open are
written on disk. The second pass of a repair round installs
documents without looking whether they are still open: a document closed
meanwhile is indexed again, which `RestIsRepaired` leaves aside (it speaks of
runs where nobody closed a document).

### WorkspaceScan

`scans` holds the scan after startup (slot 0) and those of global queries, each
in a phase (`discover`, `filter`, `read`, `yield`) with the file it awaits.
`prepared` is the mark that later queries skip the scan; `owed` is what the scan
that set it had found and has not been taken out since. `Watch`, `Open`,
`Close`, `Clear` (hibernation) and `Relieve` (pressure) happen between any two
steps. Limits on number and size of files, progress and edits of documents are
left out. No caller of `prepareGlobalQuery` passes `isDegraded`, and
`discoverFiles` skips directories it cannot read without saying so; both are as
in the code.

### RestartPolicy, PersistentCache, Session

`client` is the language client with its policy: attempts, restart timers, and
those of a client that was replaced (`orphans`). Time is abstracted to whether a
session has lasted `stableMs`; that the delays are over by then
(`maxAttempts` times 2 s against 60 s) is in the guard of `StaysUp`.

`cache` is what is below `.pike-lsp`: the entry files, each named by a hash, the
index and the manifest. A file is written to a temporary file and renamed, so
one write is one step; temporary files a crash leaves, the migration of the
legacy directory and the caps on what is loaded are left out.

A save (`saves[s]`) is its file operations in order, each a step at which the
process may die (`ServerCrashes`), the editor may write, or another save may
run: the hibernation's own deadline and that of a shutdown abandon a save that
goes on. Startup restores stubs from the manifest, or entries from the cache
index, then refreshes. A request demands a file (`Request`), hydrating its stub
in two steps (`HydrateEnds`) or reading it (`DemandEnds`); document handlers are
reduced to the upsert that ends them (`ChangeEnds`). A process may start with
documents open. Startup ends `degraded` when the heap is over its budget, and
then restores nothing of what it loaded. The refresh reads a file
(`RefreshReads`) and indexes what it read (`Refreshes`), whatever became of the
entry between. `TimerHasManager` is FALSE as `server.ts` wires it, and TRUE as the
tests of hibernation drive it; `session` uses TRUE, which allows more: the saves
of a hibernation beside those of a shutdown, the only ones there are without a
manager. `overtaken` is history: texts an entry
had when it was overtaken while its cached table was being read.

Left out: sustained activity, pausing of background work (production wires
nothing to it), parser readiness, `deactivate()`; that the memory timer and the
background scan of the literal context in `server.ts` are never cleared.

### The support modules

* `TreeCache`: a tree is a number in the WASM heap (`live`), freed exactly once.
  The cache's Map is a sequence. `LruGet`, `LruSet`, `LruDelete`, `EvictOldest`
  and `LruClear` are the methods; `Edit`, `Request`/`RequestEnds` (the borrow
  over an await), `Close`, `TreesRelieved`, `ShutdownTrees` are the uses. Trees
  parsed without a URI (`backgroundIndex`) are left to the garbage collector.
* `CrossFileResolution`: the depth-first search as a stack of frames that
  awaits at every hop while `IndexMoves`, which replaces or removes a table,
  inherits included. An inherit may come to nothing (`LoseInherit`: not
  resolved, not indexed, or indexing it failed); `lost` is history, the inherits
  this happened to, and the reference definition is asked with and without
  them. The code marks a file as seen before
  it tests the depth and does not retry a search that found nothing.
* `SemanticTokens`: result ids, one cached answer, deltas by common prefix and
  suffix, and an editor that has asked again and drops the answer.
* `SymbolScopes`: scopes from a small syntax tree, `wireInheritance` for a class
  of the same file and of another, the two searches. Positions are offsets.
* `ModuleResolver`: probes on disk in their order, the cache with its eviction
  of a quarter, warming, the edges, and the handler of renamed files. One
  upsert of a file at a time, a lookup looks at the disk once when it ends.
  Left out: which paths are allowed (`normalizeAndCheck`), absolute paths, Roxen
  modules, the `#pike` version path (which the code appends after the module
  paths where its comment at `moduleResolver.ts:449` says before).
* `Rename`: two files, the application inherits the library; members are
  methods, receivers are local variables. A rename may be asked on an inherit
  clause, which names a class and is no occurrence of it. Left out: includes, nested classes,
  `this`, indexed and chained receivers, `prepareRename`, the check of the new
  name, the workspace edit.
* `TypeHierarchy`: both directions over the same tables.

## 3. Runs

Passing runs explore their instance completely. Every one sets
`CHECK_DEADLOCK FALSE`: the bounds on requests, versions and sessions end every
behaviour, and a system without users has nothing to do.

| Run | Question | States |
|---|---|---|
| `worker_lifecycle` | Does one priority stay in order, does a timeout ever outlive its request, is a stop, a restart or a timeout ever counted as a crash? Three requests of two priorities, three processes, stop, crashes, ceiling restarts, failing spawns | 1.9 M |
| `worker_faults` | Under every fault at once: does a caller ever wait without a timeout or for a replaced process, does the queue sleep, is a child forgotten, does the worker implement `RequestService`, does every accepted request settle? | 280 k |
| `diag_text` | Is the text at rest the text whose problems are shown, through two sessions, refreshes, queries, failures, backoff, late notices? | 54 k |
| `diag_faults` | Importer and import, saves, closes, mode switches, changes on disk, content that cannot be indexed, shutdown: does anything reach a closed document or a disposed connection, is a verdict filed under the wrong text? | 1.5 M |
| `diag_importers` | Where only edits happen: is an importer's verdict at rest one on the current text of its imports, and does the wave of re-diagnoses end in a cycle? | 80 k |
| `index_documents` | Every interleaving of opening, editing, asking, watching and walking, up to three at once: does an invalidation always reach who depends on a file, is an entry of the version of an edited document of its text? | 3.1 M |
| `index_repair` | Two open documents that import each other: do they get their tables back, are dependencies repaired first? | 0.9 M |
| `session` | Server processes that start (or give up over their budget), refresh what changed, hibernate, save, stop and crash at any step: are tables filed under their text, is what a request got what the file holds, does a whole save leave a whole cache, does a crash loop end? | 2.1 M |
| `scan` | The scan after startup and two queries: does a prepared index cover what was found, are dependents diagnosed again, is memory relieved? | 0.9 M |
| `support` | The seven support parts, one at a time | 2.2 M |
| `claim_refresh`, `claim_rename` | two statements the code does not keep, section 4 | - |

Every property of the passing runs has a mutant in `PROJECT.json`: a definition
of the model with a plausible bug (a dropped gate, a timer not cleared, an edge
not registered), defined beside the original and refuted under the same
configuration.

### Bounds, and why they are enough

* `MaxId`: requests in a behaviour. Two show a request behind another; three
  add two in the queue, hence order and cancellation from the middle.
* `MaxProcs`: processes spawned. Two show the late events of a replaced
  process beside its successor, three a replaced successor. When the bound is
  reached, further spawns fail as transient errors, which the code also does.
* `CrashThreshold` is 2 where the code has 3: the same branch with fewer
  crashes. `MaxRequestsBeforeRestart` is 3 in `worker_lifecycle` so that a
  ceiling restart happens inside the run; `AgeCeiling` is the other ceiling.
* `IdleOutlastsTimeouts` is TRUE for the defaults (5 minutes against 30
  seconds) and FALSE in `worker_faults`, where the idle timer may fire first.
* `MaxVersion` 2 or 3: a text, another and perhaps the first again (an undo).
  `MaxSessions` 2: one reopening. `MaxRuns`: diagnoses in flight; a save beside
  a dispatched one needs two. In `diag_importers`, `OthersRest` lets only one
  document be edited: edits of several inside a cycle break the property (section 4). In
  `diag_faults`, `QuietImporter` keeps the importer unedited; its three
  properties are theorems for all faults.
* `Files` is a pair: one that depends on the other, on itself in a cycle, or on
  nothing any more after an edit (`ADropsB`). `Slots` bounds upserts, saves or
  queries at once; `AtMostThree` and `AtMostTwo` bound all that is under way
  in `index_documents` and `session`. Two tasks that overtake each other and a
  third that changes what both read are what the properties can tell apart; what
  they state is proved without the bounds (section 5). `session_deep.cfg` is
  `session` with four events and without `AtMostTwo`, run by hand.
* `MaxEvents` bounds what users and the environment do. `MaxAttempts` 1 makes
  every second crash the last. `Swap` exchanges the two files of `index_repair`,
  whose imports are symmetric.
* `Trees` 1..5, three URIs, `MaxEntries` 2: an eviction while two handlers hold
  trees. `MaxIds` 3: an answer, one that overtakes it and one that builds on it.
* `Faults` limits the environment per run; a run without a fault asks a
  narrower question, and section 4 says what the fault would do.

### Fairness

* PikeWorker's `TimeoutSpec`: request timeouts fire. `EveryRequestSettles`
  needs nothing else: a child may hang for ever. `FairSpec` adds the idle,
  grace and backoff timers, and that the kernel reports a spawn's fate and
  reaps a child sent SIGKILL. No fairness is assumed of a child that runs.
* DiagnosticManager's `FairSpec`: handlers return from their upsert, debounce
  timers fire, the worker settles what it was asked (`EveryRequestSettles`, or
  the answer). Users owe nothing: `PropagationEnds` says that when they stop,
  the wave ends.
* WorkspaceScan's `FairSpec`: its timers fire (`Flush`, `Relieve`, `Recover`).
  Session's: a deadline fires. DocumentIndexing's: what can continue does. These
  are promises of the event loop; nobody is obliged to edit, ask or read.

## 4. Statements the code does not keep

Each has a configuration under which TLC finds a shortest counterexample, run as
the passing ones. `claim_refresh` and `claim_rename` are in `PROJECT.json`; the
others are kept beside them.

| Configuration | Module | Property | Statement, and what happens |
|---|---|---|---|
| `claim_refresh` | MCSession | `RefreshedIsCurrent` | `serverLifecycle.ts:120` "Reads each cached file, hashes it, re-indexes changed files"; a restored entry is marked `DidOpen`, and those are skipped. The trace is of the program as `server.ts` wires it (`TimerHasManager` FALSE): a shutdown saves the cache, the file changes, the next process restores the entry |
| `claim_rename` | MCSupport | `RenameReachesItsReceivers` | `rename.ts:143` "we want to include d->bark where d is a Dog"; the owner of a member is taken to be the first class of its scope, so receivers of a second class are left out |
| `claim_backoff` | PikeWorkerClaims | `NoRespawnInBackoff` | `pike-worker-liveness.md:38` "Crash-loop backoff still prevents rapid repeated respawn"; an answer a dead process had flushed resets the crash counter and the pause with it (and with `"junk"`, a desynced stream restarts the worker within the pause) |
| `claim_idle` | PikeWorkerClaims | `IdleWorkerEvicted` | `pikeWorker.ts:10` "Idle eviction: kill after N minutes of no requests"; the late exit of a killed process clears the idle timer of its successor |
| `claim_covers` | MCDiagnostics | `RestShowsCurrentText` | `diagnosticManager.ts:246` "Don't queue if already in flight (the result will cover this version)"; with a worker slower than the debounce the result is that of the older text, and no run follows |
| `claim_reopen` | MCDiagnostics | `RestShowsCurrentDependencies` | decision 0031:146 "when A changes, B (which inherits A) should be re-diagnosed"; closing A removed the reverse edges, reopening does not restore them |
| `claim_notice` | MCDiagnostics | `StaleNoticeMeansRunning` | decision 0031:77 "When diagnose completes, replace previous diagnostics"; a save's run overwrites the handle of the first stale timer, which then fires after everything was answered |
| `claim_verdict` | MCDiagnostics | `BackoffIsNotAVerdict` | `pikeWorker.ts:225` "surface as a special result"; the empty list of a diagnose that was refused is cached and shown as a clean verdict |
| `claim_version` | MCDocuments | `OpenDocumentsAreAuthoritative` | `serverContext.ts:411-414` "Open documents are authoritative. Returning an older indexed table ..."; a file that is opened after a walk read it and before the walk installs it gets the text on disk as version 1, over its own version 1, and keeps it when everything has come to rest |
| `claim_saved` | MCDocuments | `RestHoldsBuffer` | `restoreLiveEntries.ts:14-19` "For a file the user has open that is not a delay, it is a wrong answer"; a save re-reads the file from disk over the buffer's entry (so do an edit and a demand, with `Faults {"edit","demand"}`) |
| `claim_prepared`, `claim_watched` | MCScan | `PreparedIsComplete` | `globalQueryPrep.ts:76` "results must be complete -- never partial"; closing a document, or a watched change while a scan runs, drops an entry and leaves the mark |
| `claim_edges` | MCSession | `RestoredEdgesAreKnown` | `persistentCache.ts` saves forward edges "so the reverse-dep graph can be reconstructed"; those of a scanned file are not known yet, are saved as none and come back as resolved |
| `claim_hydrated` | MCSession | `HydrationIsNotStale` | `cacheHydrate.ts:22-27` "only on a successful, non-stale hydration"; it compares the entry before it reads the cached file |
| `claim_stop` | MCSession | `StopIsNoCrash` | `restartPolicy.ts:60` "Stopping from Starting, or an explicit shutdown, is not" a crash; a shutdown is reported as Running to Stopped and counted |
| `claim_timer` | MCSession | `IdleServerHibernates` | decision 0033 "the server enters hibernation"; the memory timer asks the manager of a context that has none (`server.ts:87-107`) |

Further ones are obtained from a configuration above by the change named:

* `OneRequestInFlight` (`pikeWorker.ts:8` "exactly one request in flight at a
  time"): the next request is written when the write completed. Any
  configuration of `PikeWorkerClaims`.
* `OneWriteAtATime` (`pikeWorkerProcess.ts:63`): a late failure of a write to a
  replaced process clears `sending` for its successor. `Spec`, `MaxId` 3,
  `MaxProcs` 2, `MaxRequestsBeforeRestart` 5, `Faults {"writeError"}`.
* `StoppedChildDies` (`pikeWorkerProcess.ts:224` "SIGTERM then SIGKILL after 3s
  to prevent zombies"): the force timer tests `!dying.killed`, true since
  SIGTERM was sent. `FairSpec`, `MaxId` 1, `MaxProcs` 1, `Faults {"stop"}`.
* `ZeroDisablesCeiling` (`extension.package.json:240` "Set to 0 to disable"):
  with `MaxRequestsBeforeRestart` 0 every request that finds a process replaces
  it.
* `NoStaleTimer` with `"writeError"`.
* `OffAsksNothing` (decision 0031:161, mode `off`), `StaleKeepsPrevious`
  (0031:76 "alongside the previous diagnostics": the list was emptied when the
  diagnosis began): `diag_faults` with that property.
* `RestShowsCurrentDependencies` beyond `claim_reopen`: an undo is answered from
  the cache, and that path does not propagate (`MaxVersion` 3); in a cycle
  another wave takes over an edit's debounce and marks it as propagated (drop
  `OthersRest`); an answer that arrives while a query indexes the importer finds
  its reverse edges missing (`"query"`); so does a background refresh of an
  edited importer, whose run then reads the import's old text, unreached by its
  wave, and is what the later debounce finds cached (`"reindex"`). With `"watch"` this and
  `RestShowsCurrentText` fail, with `"save"` this and `StaleNoticeMeansRunning`.
  `"fail"` (a failed diagnosis propagates nothing), `"mode"`, a Roxen text and
  `WorkerIsFast` FALSE break it as well.
* `RestIsRepaired`: `index_repair` with `MaxRepairRounds` 1, fewer rounds than open
  documents, drops a request; with `"save"` a watched change removes the entry of
  an open document on which nothing depends, and nothing asks for it again.
* `RestIsWired` (`dependentsInvalidator.ts:4-8`), in MCDocuments.
* `OpenPreventsHibernation`, `MarkedSaveIsWhole`, `AbandonedSaveKeepsCache`,
  `HydratedIsOfItsFile`, `HydratedImportsAreCurrent`, in MCSession, each with the
  comment it contradicts.
* `ScannedIsCurrent`, and `DegradedEnds` with `Touched <- JustA`, `Slots {1}`,
  `MaxEvents` 2, `Faults {"overBudget","memory"}`, in MCScan.
* `XIsOfferedAsResolved`: scopes cloned from another file are searched by
  positions of that file (`scope-helpers.ts:293-317`; `query.ts:8-17` says they
  must not be). It holds only where the clones lie past the end of the file.
* `ChildrenInheritTheClass`, `RenamesAreFollowed` (the resolver's cache is never
  cleared), `BuilderSeesTheEdges` (an eviction inside one upsert hides a clause
  from the table builder): `support` with one of these four properties.

The passing runs are chosen where the same properties do hold, and the tables
name the difference.

## 5. Proofs

Every theorem holds for all values of the constants that satisfy the named
assumptions of the modules (`PikeWorkerAssumption`, `DiagnosticAssumption`,
`DocumentAssumption`, `ScanAssumption`, `SessionAssumption`, `CacheAssumption` and so on): bounds
are naturals, `Faults` is any subset of what the environment may do, `Imports`
any relation on any set of documents. Where a theorem needs more, it is an
`ASSUME` of the theorem and named below.

All proof modules have the same layout. A lemma for each *method* says what the
operator does to any object that satisfies the invariant; a step for each
*handler* composes the methods it calls; each theorem is one temporal step.
Invariants were checked by TLC on small instances before they were proved.

### PikeWorkerProofs

`TypeCorrect`, `NeverStranded`, `AlwaysWaitsOnCurrent`, `NeverLosesWakeup`,
`NeverOrphans`. The checked invariants are not inductive. `IInv` is
`Invariant(Here)` with `cancelRequested \subseteq Ids`, and `Invariant(s)` is
`Sound(s)` with "a non-empty queue implies `sending`". `Sound` links the pieces
that methods change one at a time: an unsettled request is pending with its
timer, and queued or in the pipe of the current process; what is queued is
unsettled and was not yet asked of any process; `sending` implies an unfinished
write to the current process; a child that runs is current or signalled, and
the current one is not signalled. The split matters because the middle of a
handler breaks the second part (an item was pushed, the queue not yet drained)
and never the first. `drainQueue`'s choice of the first live item needs that a
finite, non-empty set of requests has a least one by priority and id, which
follows from the well-foundedness of the order.

### ServiceProofs

* `ImplementsTheService` (`ImplementsService`): the worker implements
  `RequestService`. Beyond `IInv` the refinement needs only `Numbered`, "a request
  has an outcome exactly when its number was given out". Most handlers settle
  some requests or none; the hard case is `Enqueue`, which may restart a process
  first: either a live process loses nobody old and the new request is accepted,
  or no old request stays open.
* `KeepsOrder` (`SamePriorityFIFO`): whatever waits was not overtaken, that is,
  every id in any process's pipe is below every queued id of its priority.
* `NoTimerOutlivesItsRequest` (`NoStaleTimer`): timers are those of open requests.
  Assumes `"writeError" \notin Faults`; with it the statement is false (section 4).
* `OnlyCrashesAreCounted` (`OnlyCrashesCount`): the crash counter is at most the
  number of children that died by themselves, and a pause means that there were
  enough of them, under every fault. `Honest` adds what makes it inductive: a
  child that is gone was spawned, and the current one is not gone, so that the
  exit that is counted is of a child not counted before. That the pause then
  *lasts* is not so (`claim_backoff`).

### DiagnosticProofs

* `TypeCorrect`, `ClosedStaysSilent`, `VerdictsFiled`, `SilentAfterDispose`. `IInv` is
  `EnvOK /\ Good(Here, open)`, where `Good(m, S)` is: `m` is well typed;
  `Filed(m)`, cached verdicts *and those that runs will bring* belong to their
  text; `Clean(m, S)`, nothing is shown outside `S` unless the manager is
  disposed. An answer caches what was captured at the request, however the
  document changed meanwhile, so the runs are the strengthening. The set of open
  documents is a parameter so that `OnDidClose` can be stated with the closing
  document removed. No assumption on the worker's speed, every fault.
* `NoticesEnd` (`StaleNoticeMeansRunning`). `NoticeInv` is `Tracked`, at most one run
  of a document is not orphaned, it is the one `inFlight` tells of and every
  armed stale timer is its own, and `Noticed`, such runs are of the current session
  of an open document and a notice comes with one. Hence the run's end passes
  the gate of `publishDiagnostics` and replaces the notice. Assumes
  `"save" \notin Faults`: a save starts a second run, which is `claim_notice`.
* `TheShownTextIsCurrent` (`RestShowsCurrentText`). `CurrentInv`: each open document
  none of whose handlers is suspended has its debounce armed for the live
  version, or its text is shown, or its one run, which is not orphaned, asks
  about it. Assumes `Undisturbed`: `WorkerIsFast` and no save, mode switch or
  watched file. Each of these alone breaks the property (section 4).
### SessionProofs

* `ClientRestartsBounded` and `RestartsBounded` (`CrashLoopBounded`): the invariant
  counts what may still restart, "streak and armed timers are within the
  attempts; after a stable period both are none; while stopping, orphans and
  timers are within `MaxOrphans`". Each step of a session is a step of its client
  or none, which carries the bound over.
* `SessionInvariant`, `SessionTypeCorrect` (`TypeOK`), `TablesFiled`
  (`TablesAreOfTheirText`). The content needs who may be alive when: a client that
  is starting or has stopped has no process; a process that has restored nothing
  has only full entries and hydrates nothing; what a refresh has read is the
  text on disk; the entry a hydration is for has
  the text the task read, or was overtaken.
* `DemandsAreCurrent` (`DemandedIsCurrent`): files change on disk only while no
  process runs, so the text of a demand, of a scanned entry and of a hydrated
  stub is the disk's.
* `CleanSavesAreWhole` (`SavedCacheIsWhole`): a save that is clean so far is alone,
  its entries have distinct files, and the cache directory holds, by the phase
  of the save, at most its hashes and what is left to prune, all but what is
  left to write, exactly its hashes.

### WorkspaceIndexProofs, DocumentProofs

`WorkspaceIndexProofs` has the lemmas on the methods of the index that both
compositions use. `DocumentInvariant`, `EdgesStayRegistered` (`EdgesRegistered`) and
`VersionsIdentifyTexts` (`VersionIdentifiesText`) rest on `DocInv`: types, edges, and
`Versions`, "no upsert is of a version of its document yet to come, nor is an entry,
unless a walk installed it as version 1; an upsert of the current version has the
current text, and so has an entry, of a document that was edited". A walk
installs what it read two awaits ago as version 1, which an open document may
have with another text; from version 2 on, versions are the editor's alone. `Only`, `Same` and `Written` say what each method leaves
alone; `Waits(g, d)` lists the reasons an edge may be missing: `g` is being
indexed, `d` is being handled, or `d` was opened and closed.

Two of the properties are weaker than they were first written, because TLC
refuted what the proof attempt could not show: an edge to a file that was opened
and closed is gone (`Close` removes the file with the edges to it, the cause of
`claim_reopen`), and a document that was never edited may have the entry of
another text (`claim_version`).

* `RoundsForEveryDocument` (`RestIsRepaired`). `MendInv` says of each open document
  that it is *entered*, it has an entry or is about to get one, and *served*: its
  entry is not stale, or an upsert of it runs, or a pass of the repair is *due*
  (a handler, the upsert of an opening or a walk has yet to ask for one; one waits,
  is looking at stale entries, or was asked to run again), or it is on the list of
  the pass that installs. At rest only the first is left, and `Tabled`, "an
  entry without table is stale", is the property. When a pass comes to
  its second half it is no longer due, and its list takes over, hence
  `StaleOpenFinds`: the list has every open document that is stale and not
  being indexed. `OpenedOnce` and `UpsertsPlaced` keep apart who asks: an
  opening has one handler and one upsert, which asks when it ends, and a pass
  waits for its one upsert. That no request is dropped (`RoundsSuffice`) is not
  assumed but proved: `Counted`, the documents whose walk has yet to ask, those
  whose first upsert has, and the requests the repair has used up are together at
  most twice the number of documents. Two rounds for each document are therefore
  enough, so that the four rounds of the code (`MAX_REPAIR_ROUNDS`,
  `features/openDocumentRepair.ts:40`) always serve two documents. Assumes
  `Unedited`: nothing is edited, saved or written to disk while the documents are
  opened. With more documents than rounds, and with saves, the statement is
  false (section 4); documents that are edited as they are opened are not covered.

The list of a pass and what an invalidation reaches are recursive functions.
`IterationExists` in `WorkspaceIndexProofs` shows that such a function exists and
meets its equation, `ReachedSelf` that an invalidation reaches the file it starts
from.

* `RepairsInOrder` (`RepairOrder`): `orderByDependenciesFirst` is right on every graph.
  It is a loop over a stack; `LoopExists` in `WorkspaceIndexProofs` shows that a
  loop whose steps make its state smaller has a result, and `VisitShrinks` that
  this one does: it enters a file it had not entered, or drops a frame. `WalkOK`
  is its invariant. `OnThePath`, the expanded frames are the files of `onPath`, each
  once, and reach every frame above them; `Awaits`, what a file on the path
  depends on was left, leads back to it, or waits above it; `Emitted`, what was
  left is in the result once, after what it depends on. The last frame has
  nothing above it, so that what it depends on was left when it is. The list the
  loop starts from has each document once because `documents.all()` has
  (`OpenListed`, the one part that needs the behaviour of the handlers).

### ScanProofs

`ScanInvariant` and `PreparedIndexCovers` (`PreparedCoversFound`). The property is
about a scan that has ended; `Covered` says what each phase of a running one has
achieved: nothing is found before it lists the workspace; at a yield, what was
found has an entry or is still pending; while a batch is read, has an entry, is
pending, or is in the batch, unless the disk has lost it. A file that is
forgotten while the scan runs (deleted, or closed unsaved) counts as unfound.
`OrdersCover` carries the files through the priority order of the background
queue, of which only the range matters. The results of a batch are filed one
after another, a recursive function over the batch: `RunExists` shows that there
is a function with its equation (well-founded recursion on the naturals, cited
from the library) and `BatchCovers`, by induction along it, that every file of
the batch that could be read has its entry at the end, whatever the memory
governor compacts on the way.

### SupportProofs

Stated of `TreeSpec`, `TokensSpec`, `HierarchySpec` and `ResolutionSpec`, which
`MCSupport` runs side by side.

* `BorrowsSurvive` (`BorrowedTreesLive`) and `HeapIsBounded`: the cache owns distinct
  trees, every borrowed tree is owned by one handler and not in the cache, and
  the live trees are both together. `Owns(c, T)` says that a cache value holds or
  has freed exactly `T`; every operation conserves it. The bound on the heap adds
  that the loops of `set()` make room before they store.
* `CacheEvictsLeastRecent` (`EvictsLeastRecent`): `LruOK(c, us)` says that the entries
  are in the order of last use `us` and the total is their sum, `Within(c)` that a
  ceiling is exceeded only by one entry alone; one lemma per operation. A sum
  over a sequence is a recursive function: `SumOf` shows that whatever counts the
  entries one by one is the sum, and the sums of prefixes, rests and
  removals follow by giving such a count.
* `DeltasReachTheClient` (`ClientHoldsWhatWasSent`): the id a request names is the
  editor's, and what the server remembers for it is what it sent. The key lemma
  is `DiffApplies`: a common prefix and suffix cut from two arrays, the edit in
  between turns the one into the other, for arrays of any length.
* `HierarchyAgrees` (`HierarchyIsMutual`): a class is listed among the subtypes of
  another exactly when that is listed among its supertypes, for any files and
  programs. Assumes `WellNamed`, no two classes of one file of one name, which
  the search by name needs.
* `FindsWhatIsReachable` (`ResolvesWhatIsReachable`) and `AnswerIsCurrentAfterAMove`
  (`AnswerSurvivesAMove`). `ResolutionInv` says of an attempt during which the index
  did not move, but by its own indexing on demand: it is `Sound`, whatever it saw
  is in every set of files closed under what the index leads to; and `Thorough`,
  what a frame on the stack has followed already, and all that a file off the stack
  leads to but for the inherits that came to nothing (`lost`), was seen and is
  silent. When the stack is empty and nothing was found,
  the silent files are therefore closed and contain everything reachable.
  Indexing on demand only adds edges to the file that is entered next
  (`IndexGrows`). Assumes finitely many `Files` and, of the behaviour,
  `[]Shallow`: at most `MaxDepth + 1` files can ever be reached from the asking one,
  whatever the files come to inherit, so that no chain is cut off. (A file too deep is marked as seen and not looked at again over a
  shorter chain, so the cut-off can hide files that are near.) `Reachable` is
  a recursive function: `ChainExists` shows that there is a function with its
  equation, `ReachableIsLeast` that it is the least closed set, since a step of the
  recursion either adds a file or changes nothing.

### Only model-checked

* `RestShowsCurrentDependencies`: it needs every hypothesis of `diag_importers`, and
  TLC refutes it without them, one at a time (section 4). A theorem that assumed
  them all would say little more than the run.
* Liveness (`EveryRequestSettles`, `PropagationEnds`, `DependentsAreRefreshed`,
  `PressureIsRelieved`): fairness and ENABLED are outside the prover.
* What a fold, a filter or a chosen element computes, since the prover cannot
  instantiate an induction theorem: `RenameErrsOnTheSafeSide`, `EdgesFollowTheDisk`
  and the properties of `SymbolScopes`.

## 6. Not modelled

`PROJECT.json` gives each component's status and what is left out of it;
section 2 says so per module. Without a model of their own are:

* the worker program `server/pike/worker.pike`: external, it answers each line in
  order, or hangs, dies or writes junk;
* the error log: a ring of 200 entries that is written and never read back by
  the server;
* language features that are functions of one tree or one table (completion,
  hover, folding, inlay hints, formatting and their like): without state or an
  `await` that separates a read from its use;
* tests, tools, the harvest and manifest scripts, documentation.

## 7. Plan

1. `PikeWorkerStream`: lines split over chunks and the malformed-line counter.
2. The access resolver, as an algorithm beside `SymbolScopes`.
