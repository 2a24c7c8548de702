---------------------------- MODULE DocumentIndexing ----------------------------
(*****************************************************************************)
(* How open documents and files on disk get into the workspace index: the    *)
(* document handlers, the walk over the dependencies of a file just opened,  *)
(* the repair of open documents left without a table, the on-demand indexer, *)
(* lazily resolved dependencies, queries and file watching.  They all write  *)
(* the same index and interleave at every await.                             *)
(*                                                                           *)
(* A document is opened at most once.  The parser is loaded and parsing is   *)
(* total; the walk over the dependencies is not cut off by its caps.         *)
(*****************************************************************************)
EXTENDS WorkspaceIndex, Sequences, SequencesExt

CONSTANTS
  Start,           \* bound: what the files hold at first
  Documents,       \* bound: the files the editor opens
  MaxVersion,      \* bound: versions of one document
  MaxEvents,       \* bound: saves, closes, queries and writes to disk
  Slots,           \* bound: upserts running at once
  MaxRepairRounds, \* MAX_REPAIR_ROUNDS
  Faults           \* what may happen besides opening: see FaultNames

FaultNames ==
  {"edit",       \* documents are edited
   "save",       \* and saved
   "close",      \* and closed
   "disk",       \* something else writes or deletes files
   "query",      \* getSymbolTable is called
   "demand",     \* a sweep or a cross-file query asks for a table
   "resolve",    \* ... or for the dependencies of an entry
   "unreadable"} \* a file cannot be read

ASSUME DocumentAssumption ==
  /\ IsFiniteSet(Files) /\ Documents \subseteq Files /\ Start \subseteq Texts
  /\ MaxVersion \in Nat \ {0} /\ MaxEvents \in Nat /\ MaxRepairRounds \in Nat \ {0}
  /\ Slots \subseteq Nat \ {0} /\ Faults \subseteq FaultNames

VARIABLES
  ix,          \* the WorkspaceIndex
  disk,        \* the text of each file on disk
  notices,     \* files that changed on disk, until the watcher says so
  buffer,      \* documents: [was, open, version, text] of each file
  opened,      \* documents.all(): the open documents in the order they were opened
  handlers,    \* onDidOpen and onDidChangeContent calls that wait in refreshRoxenActivation
  justOpened,  \* justOpenedDocuments
  upserts,     \* the upsertFile calls that are running, by slot
  inFlight,    \* upsertInFlight: the slot of the upsert recorded for f, or None
  asked,       \* asked[f]: the upsert getSymbolTable(f) waits for
  resolving,   \* the ensureDependenciesResolved calls that are running
  closures,    \* the dependency walks that are running, by the file opened
  watched,     \* watched[f]: the dependents of a changed file while it is read again
  events,      \* how many saves, closes, queries and writes to disk there have been
  repair       \* indexRepair, and how far its pass has come

docVars  == <<buffer, opened>>
diskVars == <<disk, notices>>
vars == <<ix, disk, notices, buffer, opened, handlers, justOpened, upserts, inFlight, asked,
          resolving, closures, watched, events, repair>>

Gone == "gone"   \* instead of the text of a file that does not exist
None == 0
Resumed == -1

\* Who called upsertFile.
Indexing == {"change", "open", "repair"}      \* parseAndIndexDocument
Recorded == Indexing \cup {"query"}           \* callers that set upsertInFlight
Callers  == Recorded \cup {"install", "demand", "watch"}

Upsert == [file : Files, version : 0..MaxVersion, text : Texts, table : Tables, by : Callers,
           phase : {"warm", "extract"}]

\* One call of ensureDependenciesResolved: for a dependency walk or for a
\* query; `live` while the entry it read is the one in the index.
Query == "query"
Resolution == [owner : Files \cup {Query}, file : Files, text : Texts, live : BOOLEAN]

\* `queue` holds the files to go through, `deps` what is left of the
\* dependencies of its head, `at` the one being read, `text` what was read.
Closure == [phase : {"await", "resolve", "deps", "read"}, awaits : Slots \cup {None},
            queue : Seq(Files), deps : SUBSET Files, visited : SUBSET Files, at : Files,
            text : Texts \cup {Gone}]

\* The set kept for an indexed file is cut loose when the file is removed; that
\* of a file that is not indexed stays in the index.
Watch == [cut : BOOLEAN, dependents : SUBSET Files]

Repair == [phase : {"idle", "delay", "reindex", "install"}, rerun : BOOLEAN,
           round : 0..MaxRepairRounds, todo : Seq(Files), busy : BOOLEAN]
NoRepair == [phase |-> "idle", rerun |-> FALSE, round |-> 0, todo |-> <<>>, busy |-> FALSE]

IsOpen(f) == buffer[f].open
Running(f) == \E s \in DOMAIN upserts : upserts[s].file = f
Doing(by) == \E s \in DOMAIN upserts : upserts[s].by = by

TypeOK ==
  /\ IsIndex(ix)
  /\ disk \in [Files -> Texts \cup {Gone}] /\ notices \subseteq Files
  /\ buffer \in [Files -> [was : BOOLEAN, open : BOOLEAN, version : 0..MaxVersion, text : Texts]]
  /\ opened \in Seq(Files)
  /\ handlers \in [Files -> [open : BOOLEAN, content : 0..MaxVersion]]
  /\ justOpened \subseteq Files
  /\ DOMAIN upserts \subseteq Slots /\ \A s \in DOMAIN upserts : upserts[s] \in Upsert
  /\ inFlight \in [Files -> Slots \cup {None}]
  /\ asked \in [Files -> Slots \cup {None, Resumed}]
  /\ resolving \subseteq Resolution
  /\ DOMAIN closures \subseteq Files /\ \A f \in DOMAIN closures : closures[f] \in Closure
  /\ DOMAIN watched \subseteq Files /\ \A f \in DOMAIN watched : watched[f] \in Watch
  /\ events \in 0..MaxEvents
  /\ repair \in Repair

Init ==
  /\ ix = EmptyIndex
  /\ disk \in [Files -> Start] /\ notices = {}
  /\ buffer = [f \in Files |-> [was |-> FALSE, open |-> FALSE, version |-> 0, text |-> disk[f]]]
  /\ opened = <<>>
  /\ handlers = [f \in Files |-> [open |-> FALSE, content |-> 0]]
  /\ justOpened = {}
  /\ upserts = [s \in {} |-> {}]
  /\ inFlight = [f \in Files |-> None]
  /\ asked = [f \in Files |-> None]
  /\ resolving = {}
  /\ closures = [f \in {} |-> {}]
  /\ watched = [f \in {} |-> {}]
  /\ events = 0
  /\ repair = NoRepair

(*****************************************************************************)
(* Pieces shared by the actions                                              *)
(*****************************************************************************)

With(fn, k, v) == [x \in DOMAIN fn \cup {k} |-> IF x = k THEN v ELSE fn[x]]
Without(fn, k) == [x \in DOMAIN fn \ {k} |-> fn[x]]

\* What the calls of ensureDependenciesResolved look like once f has a new entry.
Orphaned(f) == {IF r.file = f THEN [r EXCEPT !.live = FALSE] ELSE r : r \in resolving}

\* upsertFile up to its first await, on an index that is now `i`.
StartUpsert(i, f, v, t, by) ==
  \E s \in Slots \ DOMAIN upserts :
    /\ \A r \in Slots \ DOMAIN upserts : s <= r
    /\ ix' = RemoveDependencies(i, f)
    /\ upserts' = With(upserts, s, [file |-> f, version |-> v, text |-> t, table |-> NoTable,
                                    by |-> by, phase |-> "warm"])
    /\ inFlight' = IF by \in Recorded THEN [inFlight EXCEPT ![f] = s] ELSE inFlight

\* parseAndIndexDocument up to its first await.
ParseAndIndex(f, by) ==
  StartUpsert(InvalidateWithDependents(ix, f), f, buffer[f].version, buffer[f].text, by)

\* scheduleIndexRepair.
Requested == IF repair.phase = "idle" THEN [NoRepair EXCEPT !.phase = "delay"]
             ELSE [repair EXCEPT !.rerun = TRUE]

\* Something from outside happens, of a kind and as often as the bounds allow.
Event(kind) == kind \in Faults /\ events < MaxEvents /\ events' = events + 1

Unreadable(f) == disk[f] = Gone \/ "unreadable" \in Faults

(*****************************************************************************)
(* The editor and the disk                                                   *)
(*****************************************************************************)

\* A document is opened: onDidOpen and onDidChangeContent both run to their
\* first await.  The editor may hold a text that was never saved.
Open(f, t) ==
  /\ f \in Documents /\ ~buffer[f].was
  /\ buffer' = [buffer EXCEPT ![f] = [was |-> TRUE, open |-> TRUE, version |-> 1, text |-> t]]
  /\ opened' = Append(opened, f)
  /\ justOpened' = justOpened \cup {f}
  /\ handlers' = [handlers EXCEPT ![f] = [open |-> TRUE, content |-> @.content + 1]]
  /\ UNCHANGED <<events, ix, diskVars, upserts, inFlight, asked, resolving, closures, watched, repair>>

Edit(f, t) ==
  /\ "edit" \in Faults
  /\ IsOpen(f) /\ buffer[f].version < MaxVersion
  /\ buffer' = [buffer EXCEPT ![f].version = @ + 1, ![f].text = t]
  /\ handlers' = [handlers EXCEPT ![f].content = @ + 1]
  /\ UNCHANGED <<events, ix, diskVars, opened, justOpened, upserts, inFlight, asked, resolving, closures,
                 watched, repair>>

Save(f) ==
  /\ Event("save")
  /\ IsOpen(f)
  /\ disk' = [disk EXCEPT ![f] = buffer[f].text]
  /\ notices' = notices \cup {f}
  /\ UNCHANGED <<ix, docVars, handlers, justOpened, upserts, inFlight, asked, resolving,
                 closures, watched, repair>>

\* Something else writes a file that is not open, or deletes it.
WriteDisk(f, t) ==
  /\ Event("disk")
  /\ ~IsOpen(f) /\ t # disk[f]
  /\ disk' = [disk EXCEPT ![f] = t]
  /\ notices' = notices \cup {f}
  /\ UNCHANGED <<ix, docVars, handlers, justOpened, upserts, inFlight, asked, resolving, closures,
                 watched, repair>>

\* handleDidClose.
Close(f) ==
  /\ Event("close")
  /\ IsOpen(f)
  /\ buffer' = [buffer EXCEPT ![f].open = FALSE]
  /\ opened' = RemoveAt(opened, CHOOSE n \in 1..Len(opened) : opened[n] = f)
  /\ ix' = RemoveFile(ix, f)
  /\ justOpened' = justOpened \ {f}
  /\ resolving' = Orphaned(f)
  /\ UNCHANGED <<diskVars, handlers, upserts, inFlight, asked, closures, watched, repair>>

(*****************************************************************************)
(* Document handlers                                                         *)
(*****************************************************************************)

\* handleDidOpen: the fast path, then the walk over the dependencies, after the
\* full upsert of the same document if one is running.
HandleOpen(f) ==
  /\ handlers[f].open
  /\ handlers' = [handlers EXCEPT ![f].open = FALSE]
  /\ \E warm \in SUBSET Imports[<<f, buffer[f].text>>] :
       ix' = RewireDependents(
               UpsertBackgroundFile(InvalidateWithDependents(ix, f), f, buffer[f].version,
                                    buffer[f].text, warm), f)
  /\ resolving' = Orphaned(f)
  /\ closures' = With(closures, f,
       [phase |-> IF inFlight[f] = None THEN "resolve" ELSE "await", awaits |-> inFlight[f],
        queue |-> <<f>>, deps |-> {}, visited |-> {f}, at |-> f, text |-> Gone])
  /\ UNCHANGED <<events, diskVars, docVars, justOpened, upserts, inFlight, asked, watched, repair>>

\* handleOpenedOrChangedContent up to the await of its upsert.
HandleContent(f) ==
  /\ handlers[f].content > 0
  /\ handlers' = [handlers EXCEPT ![f].content = @ - 1]
  /\ justOpened' = justOpened \ {f}
  /\ ParseAndIndex(f, IF f \in justOpened THEN "open" ELSE "change")
  /\ UNCHANGED <<events, diskVars, docVars, asked, resolving, closures, watched, repair>>

\* serverContext's getSymbolTable, when the index does not hold the table of the
\* document's version.
Answers(table, f) == table # NoTable /\ ix.files[f].version = buffer[f].version

Ask(f) ==
  /\ Event("query")
  /\ IsOpen(f) /\ asked[f] = None
  /\ ~(Has(ix, f) /\ Answers(ix.files[f].table, f))
  /\ IF inFlight[f] # None
     THEN /\ asked' = [asked EXCEPT ![f] = inFlight[f]]
          /\ UNCHANGED <<ix, upserts, inFlight>>
     ELSE /\ StartUpsert(ix, f, buffer[f].version, buffer[f].text, "query")
          /\ UNCHANGED asked
  /\ UNCHANGED <<diskVars, docVars, handlers, justOpened, resolving, closures, watched, repair>>

\* ... and after the upsert it waited for.
AskAgain(f) ==
  /\ asked[f] = Resumed
  /\ asked' = [asked EXCEPT ![f] = None]
  /\ IF ~IsOpen(f) \/ (Has(ix, f) /\ Answers(GetSymbolTable(ix, f), f))
     THEN UNCHANGED <<ix, upserts, inFlight>>
     ELSE StartUpsert(ix, f, buffer[f].version, buffer[f].text, "query")
  /\ UNCHANGED <<events, diskVars, docVars, handlers, justOpened, resolving, closures, watched, repair>>

\* getOrIndexSymbolTable for a file without a live table: the text on disk.
OnDemandIndex(f) ==
  /\ Event("demand")
  /\ GetSymbolTable(ix, f) = NoTable /\ disk[f] # Gone
  /\ StartUpsert(ix, f, 0, disk[f], "demand")
  /\ UNCHANGED <<diskVars, docVars, handlers, justOpened, asked, resolving, closures, watched, repair>>

(*****************************************************************************)
(* upsertFile                                                                *)
(*****************************************************************************)

\* The resolver's cache is warm: the table is built in one go.
UpsertBuild(s) ==
  /\ s \in DOMAIN upserts /\ upserts[s].phase = "warm"
  /\ LET u == upserts[s]
     IN  upserts' = [upserts EXCEPT ![s].phase = "extract",
                       ![s].table = Wired(ix, u.file, u.text, Imports[<<u.file, u.text>>])]
  /\ UNCHANGED <<events, ix, diskVars, docVars, handlers, justOpened, inFlight, asked, resolving, closures,
                 watched, repair>>

\* propagateDependentInvalidation, once a changed file has been read again.
Propagate(i, dependents) == Stale(i, dependents, dependents)

Watching(i, f) == IF watched[f].cut THEN watched[f].dependents ELSE GetDependents(i, f)

\* Mutant: the version is read from the document after the awaits.
UpsertInstallLateVersion(s) ==
  /\ s \in DOMAIN upserts /\ upserts[s].phase = "extract"
  /\ upserts' = Without(upserts, s)
  /\ LET u == upserts[s]  f == u.file
         installed == InstallFull(ix, f, buffer[f].version, u.text, u.table)
     IN  /\ ix' = CASE u.by \in Indexing -> RewireDependents(installed, f)
                    [] u.by = "watch"   -> Propagate(installed, Watching(installed, f))
                    [] OTHER            -> installed
         /\ resolving' = Orphaned(f)
         /\ watched' = IF u.by = "watch" THEN Without(watched, f) ELSE watched
         /\ inFlight' = IF inFlight[f] = s THEN [inFlight EXCEPT ![f] = None] ELSE inFlight
         /\ repair' = CASE u.by = "open"                  -> Requested
                        [] u.by \in {"repair", "install"} -> [repair EXCEPT !.busy = FALSE]
                        [] OTHER                          -> repair
  /\ asked' = [g \in Files |-> IF asked[g] = s THEN Resumed ELSE asked[g]]
  /\ closures' = [g \in DOMAIN closures |->
       IF closures[g].awaits = s THEN [closures[g] EXCEPT !.phase = "resolve", !.awaits = None]
       ELSE closures[g]]
  /\ UNCHANGED <<events, diskVars, docVars, handlers, justOpened>>

\* The dependencies are known: the entry replaces whatever is in the index, the
\* caller goes on, and with it whoever waited for this upsert.
UpsertInstall(s) ==
  /\ s \in DOMAIN upserts /\ upserts[s].phase = "extract"
  /\ upserts' = Without(upserts, s)
  /\ LET u == upserts[s]  f == u.file
         installed == InstallFull(ix, f, u.version, u.text, u.table)
     IN  /\ ix' = CASE u.by \in Indexing -> RewireDependents(installed, f)
                    [] u.by = "watch"   -> Propagate(installed, Watching(installed, f))
                    [] OTHER            -> installed
         /\ resolving' = Orphaned(f)
         /\ watched' = IF u.by = "watch" THEN Without(watched, f) ELSE watched
         /\ inFlight' = IF inFlight[f] = s THEN [inFlight EXCEPT ![f] = None] ELSE inFlight
         /\ repair' = CASE u.by = "open"                  -> Requested
                        [] u.by \in {"repair", "install"} -> [repair EXCEPT !.busy = FALSE]
                        [] OTHER                          -> repair
  /\ asked' = [g \in Files |-> IF asked[g] = s THEN Resumed ELSE asked[g]]
  /\ closures' = [g \in DOMAIN closures |->
       IF closures[g].awaits = s THEN [closures[g] EXCEPT !.phase = "resolve", !.awaits = None]
       ELSE closures[g]]
  /\ UNCHANGED <<events, diskVars, docVars, handlers, justOpened>>

(*****************************************************************************)
(* Lazily resolved dependencies                                              *)
(*****************************************************************************)

NeedsResolving(f) == Has(ix, f) /\ ix.files[f].table # NoTable /\ ~ix.files[f].resolved

Resolving(owner, f) == [owner |-> owner, file |-> f, text |-> ix.files[f].text, live |-> TRUE]

\* A query asks for the dependencies of f.
Resolve(f) ==
  /\ Event("resolve")
  /\ NeedsResolving(f) /\ \A r \in resolving : r.owner # Query
  /\ resolving' = resolving \cup {Resolving(Query, f)}
  /\ UNCHANGED <<ix, diskVars, docVars, handlers, justOpened, upserts, inFlight, asked, closures,
                 watched, repair>>

\* The edges are registered even if the entry has been replaced meanwhile.
Resolved(r) ==
  LET deps == Imports[<<r.file, r.text>>]
      i == IF r.live
           THEN [ix EXCEPT !.files[r.file].resolved = TRUE,
                           !.files[r.file].deps = IF deps = {} THEN @ ELSE deps]
           ELSE ix
  IN  RegisterReverseDeps(i, r.file, deps)

(*****************************************************************************)
(* indexDependencyClosure                                                    *)
(*****************************************************************************)

\* The walk goes on with the dependencies of its head, as the index has them.
WithDependencies(c, i) ==
  [c EXCEPT !.phase = "deps",
            !.deps = IF Has(i, Head(c.queue)) THEN i.files[Head(c.queue)].deps ELSE {}]

ClosureResolve(f) ==
  /\ f \in DOMAIN closures /\ closures[f].phase = "resolve"
  /\ \A r \in resolving : r.owner # f
  /\ LET u == Head(closures[f].queue)
     IN  IF NeedsResolving(u)
         THEN resolving' = resolving \cup {Resolving(f, u)} /\ UNCHANGED closures
         ELSE closures' = [closures EXCEPT ![f] = WithDependencies(@, ix)] /\ UNCHANGED resolving
  /\ UNCHANGED <<events, ix, diskVars, docVars, handlers, justOpened, upserts, inFlight, asked, watched, repair>>

ResolveEnds(r) ==
  /\ r \in resolving
  /\ resolving' = resolving \ {r}
  /\ ix' = Resolved(r)
  /\ closures' = IF r.owner \in DOMAIN closures
                 THEN [closures EXCEPT ![r.owner] = WithDependencies(@, ix')]
                 ELSE closures
  /\ UNCHANGED <<events, diskVars, docVars, handlers, justOpened, upserts, inFlight, asked, watched, repair>>

\* Dependencies already seen or holding a table are skipped.  A set has no
\* order: those to be read are taken first.
ClosureDeps(f) ==
  /\ f \in DOMAIN closures /\ closures[f].phase = "deps"
  /\ LET search == closures[f]
         missing == {d \in search.deps \ search.visited : ~Has(ix, d) \/ ix.files[d].table = NoTable}
         rest == Tail(search.queue)
     IN  \/ \E d \in missing :
              /\ closures' = [closures EXCEPT ![f] = [search EXCEPT !.phase = "read", !.at = d,
                                !.deps = @ \ {d}, !.visited = @ \cup {d}]]
              /\ UNCHANGED repair
         \/ /\ missing = {} /\ rest # <<>>
            /\ closures' = [closures EXCEPT ![f] =
                              [search EXCEPT !.phase = "resolve", !.queue = rest, !.deps = {}]]
            /\ UNCHANGED repair
         \/ /\ missing = {} /\ rest = <<>>
            /\ closures' = Without(closures, f)
            /\ repair' = Requested
  /\ UNCHANGED <<events, ix, diskVars, docVars, handlers, justOpened, upserts, inFlight, asked, resolving, watched>>

\* indexDependencyFromDisk up to the awaits of readSource and hydrateFromCache.
ClosureRead(f) ==
  /\ f \in DOMAIN closures /\ closures[f].phase = "read" /\ closures[f].text = Gone
  /\ LET d == closures[f].at
     IN  \/ /\ disk[d] # Gone
            /\ closures' = [closures EXCEPT ![f].text = disk[d]]
         \/ /\ Unreadable(d)
            /\ closures' = [closures EXCEPT ![f].phase = "deps"]
  /\ UNCHANGED <<events, ix, diskVars, docVars, handlers, justOpened, upserts, inFlight, asked, resolving,
                 watched, repair>>

\* ... and after them: what was read is version 1 of the file, whether or not it
\* has been opened meanwhile.  Then the dependents of what it indexed.
ClosureInstall(f) ==
  /\ f \in DOMAIN closures /\ closures[f].phase = "read" /\ closures[f].text # Gone
  /\ LET search == closures[f]  d == search.at  t == search.text
     IN  /\ \E warm \in SUBSET Imports[<<d, t>>] :
              ix' = RewireDependents(UpsertBackgroundFile(ix, d, 1, t, warm), d)
         /\ resolving' = Orphaned(d)
         /\ closures' = [closures EXCEPT ![f] =
                           [search EXCEPT !.phase = "deps", !.queue = Append(@, d), !.text = Gone]]
  /\ UNCHANGED <<events, diskVars, docVars, handlers, justOpened, upserts, inFlight, asked, watched, repair>>

(*****************************************************************************)
(* Watched files                                                             *)
(*****************************************************************************)

\* Mutant: the dependents are looked up after the file is removed.
FileChangedLateDependents(f) ==
  /\ f \in notices /\ f \notin DOMAIN watched
  /\ disk[f] # Gone
  /\ notices' = notices \ {f}
  /\ ix' = RemoveFile(ix, f)
  /\ resolving' = Orphaned(f)
  /\ watched' = IF GetDependents(ix', f) = {} THEN watched
                ELSE With(watched, f, [cut |-> Has(ix, f), dependents |-> GetDependents(ix', f)])
  /\ UNCHANGED <<events, disk, docVars, handlers, justOpened, upserts, inFlight, asked, closures, repair>>

\* handleFileCreatedOrChanged up to its await.  A batch names a file once.
FileChanged(f) ==
  /\ f \in notices /\ f \notin DOMAIN watched
  /\ disk[f] # Gone
  /\ notices' = notices \ {f}
  /\ ix' = RemoveFile(ix, f)
  /\ resolving' = Orphaned(f)
  /\ watched' = IF GetDependents(ix, f) = {} THEN watched
                ELSE With(watched, f, [cut |-> Has(ix, f), dependents |-> GetDependents(ix, f)])
  /\ UNCHANGED <<events, disk, docVars, handlers, justOpened, upserts, inFlight, asked, closures, repair>>

\* Something depends on it: it is read again, unless it has a table by now or
\* cannot be read.
WatchRead(f) ==
  /\ f \in DOMAIN watched
  /\ \A s \in DOMAIN upserts : ~(upserts[s].by = "watch" /\ upserts[s].file = f)
  /\ \/ /\ GetSymbolTable(ix, f) = NoTable /\ disk[f] # Gone
        /\ StartUpsert(ix, f, 0, disk[f], "watch")
        /\ UNCHANGED watched
     \/ /\ GetSymbolTable(ix, f) # NoTable \/ Unreadable(f)
        /\ ix' = Propagate(ix, Watching(ix, f))
        /\ watched' = Without(watched, f)
        /\ UNCHANGED <<upserts, inFlight>>
  /\ UNCHANGED <<events, diskVars, docVars, handlers, justOpened, asked, resolving, closures, repair>>

\* handleFileDeleted.
FileDeleted(f) ==
  /\ f \in notices /\ disk[f] = Gone
  /\ notices' = notices \ {f}
  /\ ix' = Propagate(RemoveFile(ix, f), GetDependents(ix, f))
  /\ resolving' = Orphaned(f)
  /\ UNCHANGED <<events, disk, docVars, handlers, justOpened, upserts, inFlight, asked, closures, watched, repair>>

(*****************************************************************************)
(* openDocumentRepair                                                        *)
(*****************************************************************************)

NeedsRepair(f) == Has(ix, f) /\ ix.files[f].stale /\ inFlight[f] = None

\* staleOpenDocuments.
StaleOpen ==
  LET kept(list, f) == IF NeedsRepair(f) THEN Append(list, f) ELSE list
      among[n \in 0..Len(opened)] == IF n = 0 THEN <<>> ELSE kept(among[n - 1], opened[n])
  IN  among[Len(opened)]

\* orderByDependenciesFirst: one pass of its loop over the stack of frames.
Frame(f, expanded) == [uri |-> f, expanded |-> expanded]

DepthFirst == [stack : Seq([uri : Files, expanded : BOOLEAN]), onPath : SUBSET Files,
               done : SUBSET Files, ordered : Seq(Files)]

\* Mutant: a file is emitted when it is reached, not when it is left.
VisitPreOrder(w, docs) ==
  LET frame == Last(w.stack)  rest == Front(w.stack)  uri == frame.uri
      next == SetToSeq({d \in IF Has(ix, uri) THEN ix.files[uri].deps ELSE {} : d \notin w.done})
  IN  IF uri \in w.done THEN [w EXCEPT !.stack = rest]
      ELSE [stack |-> rest \o [n \in 1..Len(next) |-> Frame(next[n], FALSE)],
            onPath |-> {}, done |-> w.done \cup {uri},
            ordered |-> IF uri \in docs THEN Append(w.ordered, uri) ELSE w.ordered]

Visit(w, docs) ==
  LET frame == Last(w.stack)  rest == Front(w.stack)  uri == frame.uri
      path == w.onPath \cup {uri}
      next == SetToSeq({d \in IF Has(ix, uri) THEN ix.files[uri].deps ELSE {} :
                          d \notin w.done \cup path})
  IN  CASE uri \in w.done \/ (uri \in w.onPath /\ ~frame.expanded) -> [w EXCEPT !.stack = rest]
        [] uri \notin w.done /\ frame.expanded ->
             [stack |-> rest, onPath |-> w.onPath \ {uri}, done |-> w.done \cup {uri},
              ordered |-> IF uri \in docs THEN Append(w.ordered, uri) ELSE w.ordered]
        [] OTHER ->
             [w EXCEPT !.onPath = path,
                       !.stack = rest \o <<Frame(uri, TRUE)>>
                                      \o [n \in 1..Len(next) |-> Frame(next[n], FALSE)]]

OrderByDependenciesFirst(docs) ==
  LET Loop[w \in DepthFirst] == IF w.stack = <<>> THEN w.ordered ELSE Loop[Visit(w, ToSet(docs))]
  IN  Loop[[stack |-> [n \in 1..Len(docs) |-> Frame(docs[n], FALSE)],
            onPath |-> {}, done |-> {}, ordered |-> <<>>]]

\* A round of the repair: nothing to do when no open document is stale.
StartRound(round) ==
  repair' = [phase |-> "reindex", rerun |-> FALSE, round |-> round,
             todo |-> OrderByDependenciesFirst(StaleOpen), busy |-> FALSE]

\* No request for a while, or none of the time allowed is left.
RepairStarts ==
  /\ repair.phase = "delay"
  /\ StartRound(0)
  /\ UNCHANGED <<events, ix, diskVars, docVars, handlers, justOpened, upserts, inFlight, asked, resolving,
                 closures, watched>>

\* The next document that is still stale, if nobody indexes it already.
RepairReindex ==
  /\ repair.phase = "reindex" /\ ~repair.busy
  /\ \E n \in 1..Len(repair.todo) :
       /\ NeedsRepair(repair.todo[n])
       /\ \A k \in 1..(n - 1) : ~NeedsRepair(repair.todo[k])
       /\ ParseAndIndex(repair.todo[n], "repair")
       /\ repair' = [repair EXCEPT !.todo = SubSeq(@, n + 1, Len(@)), !.busy = TRUE]
  /\ UNCHANGED <<events, diskVars, docVars, handlers, justOpened, asked, resolving, closures, watched>>

\* Mutant: what a cycle left behind stays without a table.
RepairInstallsNothing ==
  /\ repair.phase = "reindex" /\ ~repair.busy
  /\ \A n \in 1..Len(repair.todo) : ~NeedsRepair(repair.todo[n])
  /\ repair' = [repair EXCEPT !.phase = "install", !.todo = <<>>]
  /\ UNCHANGED <<events, ix, diskVars, docVars, handlers, justOpened, upserts, inFlight, asked, resolving,
                 closures, watched>>

\* What a cycle left behind is installed without touching its dependents.
RepairInstalls ==
  /\ repair.phase = "reindex" /\ ~repair.busy
  /\ \A n \in 1..Len(repair.todo) : ~NeedsRepair(repair.todo[n])
  /\ repair' = [repair EXCEPT !.phase = "install", !.todo = StaleOpen]
  /\ UNCHANGED <<events, ix, diskVars, docVars, handlers, justOpened, upserts, inFlight, asked, resolving,
                 closures, watched>>

RepairInstall ==
  /\ repair.phase = "install" /\ ~repair.busy /\ repair.todo # <<>>
  /\ \E f \in Files : /\ f = Head(repair.todo)
                     /\ StartUpsert(ix, f, buffer[f].version, buffer[f].text, "install")
  /\ repair' = [repair EXCEPT !.todo = Tail(@), !.busy = TRUE]
  /\ UNCHANGED <<events, diskVars, docVars, handlers, justOpened, asked, resolving, closures, watched>>

\* One more round for the requests of this one, up to the limit.
RepairRoundEnds ==
  /\ repair.phase = "install" /\ ~repair.busy /\ repair.todo = <<>>
  /\ IF repair.rerun /\ repair.round + 1 < MaxRepairRounds THEN StartRound(repair.round + 1)
     ELSE repair' = NoRepair
  /\ UNCHANGED <<events, ix, diskVars, docVars, handlers, justOpened, upserts, inFlight, asked, resolving,
                 closures, watched>>

(*****************************************************************************)
(* Specification                                                             *)
(*****************************************************************************)

UpsertSteps(s) == UpsertBuild(s) \/ UpsertInstall(s)
HandlerSteps(f) == HandleOpen(f) \/ HandleContent(f) \/ AskAgain(f)
ClosureSteps(f) == ClosureResolve(f) \/ ClosureDeps(f) \/ ClosureRead(f) \/ ClosureInstall(f)
WatchSteps(f) == FileChanged(f) \/ WatchRead(f) \/ FileDeleted(f)
RepairSteps == RepairStarts \/ RepairReindex \/ RepairInstalls \/ RepairInstall \/ RepairRoundEnds

\* What the server does on its own.
Continue ==
  \/ \E f \in Files : HandlerSteps(f) \/ ClosureSteps(f) \/ WatchSteps(f)
  \/ \E s \in Slots : UpsertSteps(s)
  \/ \E r \in resolving : ResolveEnds(r)
  \/ RepairSteps

Next ==
  \/ \E f \in Files : Save(f) \/ Close(f) \/ Ask(f) \/ OnDemandIndex(f) \/ Resolve(f)
  \/ \E f \in Files, t \in Texts : Open(f, t) \/ Edit(f, t)
  \/ \E f \in Files, t \in Texts \cup {Gone} : WriteDisk(f, t)
  \/ Continue

Spec == Init /\ [][Next]_vars

\* The event loop runs some continuation whenever there is one; reads of files
\* and timers end.
Fairness == WF_vars(Continue)

FairSpec == Spec /\ Fairness

(*****************************************************************************)
(* Properties                                                                *)
(*****************************************************************************)

\* An entry that is current registers every dependency it lists, so that an
\* invalidation of a dependency reaches it - except while it is being indexed
\* again, while a change of one of its dependencies is being handled, or when the
\* dependency was open once and is no more: closing it forgot who depends on it.
EdgesRegistered ==
  \A f \in DOMAIN ix.files : \A d \in ix.files[f].deps :
    \/ <<d, f>> \in ix.dependents
    \/ ix.files[f].stale
    \/ Running(f)
    \/ \E g \in DOMAIN watched : watched[g].cut /\ f \in watched[g].dependents
    \/ buffer[d].was /\ ~IsOpen(d)

\* getSymbolTable serves an entry whose version is that of the open document:
\* it then holds the text of the document, whatever overtook what on the way into
\* the index - once the document has been edited.  Version 1 is also the number
\* of whatever a walk reads from disk.
VersionIdentifiesText ==
  \A f \in DOMAIN ix.files :
    IsOpen(f) /\ buffer[f].version > 1 /\ ix.files[f].version = buffer[f].version
      => ix.files[f].text = buffer[f].text

\* Nothing runs and nothing is due.
AtRest ==
  /\ notices = {} /\ DOMAIN upserts = {} /\ resolving = {}
  /\ DOMAIN closures = {} /\ DOMAIN watched = {}
  /\ repair.phase = "idle"
  /\ \A f \in Files : handlers[f] = [open |-> FALSE, content |-> 0] /\ asked[f] = None

\* Once everything has come to rest, every open document has a table.
RestIsRepaired ==
  AtRest /\ (\A f \in Files : buffer[f].was => IsOpen(f))
    => \A f \in Files : IsOpen(f) => GetSymbolTable(ix, f) # NoTable

\* A dependency is repaired before what depends on it, unless it depends on it
\* in turn.
Depends(f, d) == Has(ix, f) /\ d \in ix.files[f].deps
Reaches(f, g) ==
  LET Far[n \in 0..Cardinality(Files)] ==
        IF n = 0 THEN {f} ELSE Far[n - 1] \cup {d \in Files : \E h \in Far[n - 1] : Depends(h, d)}
  IN  g \in Far[Cardinality(Files)]

RepairOrder ==
  LET order == OrderByDependenciesFirst(StaleOpen)
      Before(d, f) == \E j, k \in 1..Len(order) : j < k /\ order[j] = d /\ order[k] = f
  IN  /\ ToSet(order) = ToSet(StaleOpen) /\ Len(order) = Len(StaleOpen)
      /\ \A f, d \in ToSet(StaleOpen) : Depends(f, d) /\ ~Reaches(d, f) => Before(d, f)

\* A repair comes to its end.
RepairSettles == repair.phase # "idle" ~> repair.phase = "idle"
=================================================================================
