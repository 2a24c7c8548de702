-------------------------------- MODULE Session --------------------------------
(*****************************************************************************)
(* One workspace through any number of server processes: the client starts   *)
(* and restarts them, a process restores its index from the cache, indexes   *)
(* what is opened and asked for, hibernates, saves the cache and is shut     *)
(* down, or dies at any point; the files change while none runs.             *)
(*                                                                           *)
(* The handlers of documents are reduced to the upsert that ends them, and   *)
(* versions to 0: DocumentIndexing has both in full.  The server is in       *)
(* "openFiles" mode, or scans in the background when "scan" may happen.      *)
(*****************************************************************************)
EXTENDS PersistentCache, RestartPolicy

CONSTANTS
  Start,           \* bound: what the files hold at first
  Touched,         \* bound: the files that are opened or change
  Slots,           \* bound: saves running at once
  MaxEvents,       \* bound: what the editor, the disk and the processes do
  TimerHasManager, \* whether the memory timer was given the hibernation manager
  Faults           \* what may happen: see FaultNames

FaultNames ==
  {"open",      \* documents are opened and closed
   "edit",      \* and edited, but never saved
   "stop",      \* the settings change
   "crash",     \* servers crash
   "stay",      \* or run for long
   "fail",      \* a server does not get to run
   "disk",      \* files change or go while no server runs
   "upgrade",   \* the extension is replaced while no server runs
   "io",        \* a write to the cache fails
   "scan",      \* the workspace is scanned in the background
   "pressure"}  \* memory runs short

ASSUME SessionAssumption ==
  /\ IsFiniteSet(Files) /\ Start \subseteq Texts /\ Touched \subseteq Files /\ Slots \subseteq Nat /\ MaxEvents \in Nat
  /\ TimerHasManager \in BOOLEAN /\ Faults \subseteq FaultNames

VARIABLES
  disk,    \* the text of each file, or Gone
  cache,   \* the workspace's cache
  buffer,  \* the text of each document in the editor, or Closed
  server,  \* [boot, cached, closing]: how far the process has come
  ix,      \* its WorkspaceIndex
  source,  \* lastModSource of the entries
  tasks,   \* upserts that are running
  saves,   \* saves of the cache that are running, by slot
  hib,     \* the status of the HibernationManager
  overtaken, \* history: hashes of entries demoted while their file's cache was being read
  events   \* how much of what the bounds count has happened

vars == <<disk, cache, buffer, server, ix, source, tasks, saves, hib, overtaken, events, client, streak>>
indexVars == <<ix, source>>

Gone   == "gone"
Closed == "closed"

\* "degraded": there was no memory to restore or to scan.
Boots == {"down", "manifest", "index", "delete", "entries", "refresh", "done", "degraded"}

\* `cached` holds the cached entries that refreshStaleCacheEntries has yet to
\* see, `reading` what it read of the one it is at and found to be stale.
Server == [boot : Boots, cached : SUBSET [uri : Files, text : Texts],
           reading : SUBSET [uri : Files, text : Texts], closing : {"no", "saving", "done"}]
Down == [boot |-> "down", cached |-> {}, reading |-> {}, closing |-> "no"]

Sources == {"didOpen", "didChange", "background"}

\* A "hydrate" is a demand that awaits the file of the cache under its `text`.
Task == [by : {"didChange", "demand", "hydrate"}, file : Files, text : Texts]

\* `by` is who waits for the save: "nobody" once its deadline is over.  `left`
\* holds the hashes to prune, then the files to write.  `clean` is history: no
\* write failed, and no other save ran at the same time.
SavePhases == {"mkdir", "list", "prune", "write", "index", "manifest"}
IsSave(s) ==
  /\ s = [phase |-> s.phase, by |-> s.by, entries |-> s.entries, left |-> s.left, clean |-> s.clean]
  /\ s.phase \in SavePhases /\ s.by \in {"hibernate", "shutdown", "nobody"}
  /\ \A e \in s.entries : e \in Cached
  /\ s.left \subseteq Texts \cup Files /\ s.clean \in BOOLEAN

Unindexed == [f \in Files |-> "background"]

TypeOK ==
  /\ ClientTypeOK
  /\ disk \in [Files -> Texts \cup {Gone}]
  /\ IsCache(cache)
  /\ buffer \in [Files -> Texts \cup {Closed}]
  /\ server \in Server
  /\ IsIndex(ix)
  /\ source \in [Files -> Sources]
  /\ tasks \subseteq Task
  /\ DOMAIN saves \subseteq Slots /\ \A s \in DOMAIN saves : IsSave(saves[s])
  /\ hib \in {"active", "hibernating", "hibernated"} /\ overtaken \subseteq Texts
  /\ events \in 0..MaxEvents

IsUp == server.boot # "down"
IsOpen(f) == buffer[f] # Closed
Opened == {f \in Files : IsOpen(f)}

\* The editor may start with documents open.
Init ==
  /\ ClientInit
  /\ disk \in [Files -> Start]
  /\ cache = EmptyCache
  /\ buffer \in [Files -> Texts \cup {Closed}]
  /\ \A f \in Files : IsOpen(f) => "open" \in Faults /\ f \in Touched /\ buffer[f] = disk[f]
  /\ server = Down
  /\ ix = EmptyIndex /\ source = Unindexed
  /\ tasks = {} /\ saves = [s \in {} |-> {}]
  /\ hib = "active" /\ overtaken = {} /\ events = 0

\* Something happens, of a kind that may and as often as the bounds allow.
Event(kind) == kind \in Faults /\ events < MaxEvents /\ events' = events + 1

(*****************************************************************************)
(* The process and what surrounds it                                         *)
(*****************************************************************************)

\* A process is gone, and with it all but the files.
Gones ==
  /\ server' = Down
  /\ ix' = EmptyIndex /\ source' = Unindexed
  /\ tasks' = {} /\ saves' = [s \in {} |-> {}] /\ hib' = "active"
  /\ UNCHANGED <<disk, cache, buffer, overtaken>>

\* initialize has been answered; the editor announces its documents again.
ServerStarts ==
  /\ ClientRuns
  /\ server' = [Down EXCEPT !.boot = "manifest"]
  /\ tasks' = {[by |-> "didChange", file |-> f, text |-> buffer[f]] : f \in Opened}
  /\ UNCHANGED <<events, disk, cache, buffer, indexVars, saves, hib, overtaken>>

ServerFails ==
  /\ Event("fail")
  /\ ClientFails
  /\ UNCHANGED <<disk, cache, buffer, server, indexVars, tasks, saves, hib, overtaken>>

ServerCrashes == Event("crash") /\ ServerDies /\ Gones

ServerStays ==
  /\ Event("stay")
  /\ StaysUp
  /\ UNCHANGED <<disk, cache, buffer, server, indexVars, tasks, saves, hib, overtaken>>

TimerFires ==
  /\ RestartTimer \/ OrphanTimer
  /\ UNCHANGED <<events, disk, cache, buffer, server, indexVars, tasks, saves, hib, overtaken>>

DiskChanges(f, t) ==
  /\ Event("disk")
  /\ f \in Touched /\ ~IsUp /\ disk[f] # t
  /\ disk' = [disk EXCEPT ![f] = t]
  /\ UNCHANGED <<cache, buffer, server, indexVars, tasks, saves, hib, overtaken, clientVars>>

\* The extension is replaced by one with another format or grammar.
Upgrade ==
  /\ Event("upgrade")
  /\ ~IsUp /\ cache.root = "current"
  /\ cache' = [cache EXCEPT !.root = "other"]
  /\ UNCHANGED <<disk, buffer, server, indexVars, tasks, saves, hib, overtaken, clientVars>>

(*****************************************************************************)
(* Saving                                                                    *)
(*****************************************************************************)

Starting(by) ==
  \E s \in Slots \ DOMAIN saves :
    saves' = [r \in DOMAIN saves \cup {s} |->
      IF r = s THEN [phase |-> "mkdir", by |-> by, entries |-> {}, left |-> {},
                     clean |-> DOMAIN saves = {}]
      ELSE [saves[r] EXCEPT !.clean = FALSE]]

\* Whoever raced the save against its deadline goes on: the index is cleared.
Resumed(by) ==
  /\ ix' = IF by = "nobody" THEN ix ELSE EmptyIndex
  /\ source' = IF by = "nobody" THEN source ELSE Unindexed
  /\ hib' = IF by = "hibernate" THEN "hibernated" ELSE hib
  /\ server' = IF by = "shutdown" THEN [server EXCEPT !.closing = "done"] ELSE server

\* The save's promise is settled, whether it was kept or not.
SaveEnds(s) ==
  /\ saves' = [r \in DOMAIN saves \ {s} |-> saves[r]]
  /\ Resumed(saves[s].by)
  /\ UNCHANGED <<disk, buffer, tasks, overtaken, clientVars>>

Goes(s, save) ==
  /\ saves' = [saves EXCEPT ![s] = save]
  /\ UNCHANGED <<disk, buffer, server, indexVars, tasks, hib, overtaken, clientVars>>

In(s, phase) == s \in DOMAIN saves /\ saves[s].phase = phase

\* An operation on the cache's directory fails, or the directory is gone.
Fails == Event("io") \/ (~cache.dir /\ UNCHANGED events)

\* mkdir is done: the entries are collected before anything else runs.
SaveCollects(s) ==
  /\ In(s, "mkdir")
  /\ Goes(s, [saves[s] EXCEPT !.phase = "list", !.entries = Collected(ix)])
  /\ cache' = [cache EXCEPT !.dir = TRUE]
  /\ UNCHANGED events

SaveCannotStart(s) ==
  /\ In(s, "mkdir")
  /\ SaveEnds(s)
  /\ Event("io")
  /\ UNCHANGED cache

SaveLists(s) ==
  /\ In(s, "list")
  /\ Goes(s, [saves[s] EXCEPT !.phase = "prune", !.left = StaleHashes(cache, saves[s].entries)])
  /\ UNCHANGED <<events, cache>>

SavePrunes(s) ==
  /\ In(s, "prune")
  /\ \E t \in saves[s].left :
       /\ cache' = RemoveEntry(cache, t)
       /\ Goes(s, [saves[s] EXCEPT !.left = @ \ {t}])
  /\ UNCHANGED events

\* What cannot be removed stays.
SaveKeeps(s) ==
  /\ In(s, "prune") /\ saves[s].left # {}
  /\ Goes(s, [saves[s] EXCEPT !.left = {}, !.clean = FALSE])
  /\ Event("io")
  /\ UNCHANGED cache

SaveHasPruned(s) ==
  /\ In(s, "prune") /\ saves[s].left = {}
  /\ Goes(s, [saves[s] EXCEPT !.phase = "write", !.left = {e.uri : e \in saves[s].entries}])
  /\ UNCHANGED <<events, cache>>

\* The files of a batch are renamed in any order.
SaveWrites(s) ==
  /\ In(s, "write")
  /\ \E e \in saves[s].entries :
       /\ e.uri \in saves[s].left
       /\ \/ /\ cache.dir /\ cache' = SaveEntry(cache, e)
             /\ Goes(s, [saves[s] EXCEPT !.left = @ \ {e.uri}])
             /\ UNCHANGED events
          \/ /\ Fails
             /\ Goes(s, [saves[s] EXCEPT !.left = @ \ {e.uri}, !.clean = FALSE])
             /\ UNCHANGED cache

\* Mutant: the index is written while files of the last batch are not.
SaveHasWrittenEarly(s) ==
  /\ In(s, "write") /\ Cardinality(saves[s].left) < 2
  /\ Goes(s, [saves[s] EXCEPT !.phase = "index", !.left = {}])
  /\ UNCHANGED <<events, cache>>

SaveHasWritten(s) ==
  /\ In(s, "write") /\ saves[s].left = {}
  /\ Goes(s, [saves[s] EXCEPT !.phase = "index"])
  /\ UNCHANGED <<events, cache>>

SaveMarks(s) ==
  /\ In(s, "index")
  /\ \/ /\ cache.dir /\ cache' = WriteCacheIndex(cache)
        /\ Goes(s, [saves[s] EXCEPT !.phase = "manifest"])
        /\ UNCHANGED events
     \/ /\ Fails
        /\ Goes(s, [saves[s] EXCEPT !.phase = "manifest", !.clean = FALSE])
        /\ UNCHANGED cache

\* The manifest is the one write whose failure is not caught.
SaveFinishes(s) ==
  /\ In(s, "manifest")
  /\ SaveEnds(s)
  /\ \/ cache.dir /\ cache' = WriteManifest(cache, saves[s].entries) /\ UNCHANGED events
     \/ Fails /\ UNCHANGED cache

\* The deadline: the save goes on, but nobody waits for it.
Deadline(s) ==
  /\ s \in DOMAIN saves /\ saves[s].by # "nobody"
  /\ saves' = [saves EXCEPT ![s].by = "nobody"]
  /\ Resumed(saves[s].by)
  /\ UNCHANGED <<events, disk, cache, buffer, tasks, overtaken, clientVars>>

(*****************************************************************************)
(* Shutdown and hibernation                                                  *)
(*****************************************************************************)

\* The settings change: a running server is asked to shut down.
StopRequested ==
  /\ Event("stop")
  /\ SettingsChange
  /\ IF IsUp
     THEN /\ server' = [server EXCEPT !.closing = "saving"]
          /\ Starting("shutdown")
     ELSE UNCHANGED <<server, saves>>
  /\ UNCHANGED <<disk, cache, buffer, indexVars, tasks, hib, overtaken>>

\* exit, or the process is killed for the client does not wait any longer.
ServerStops == StopEnds /\ Gones /\ UNCHANGED events

\* checkIdleTimeout and hibernateNow up to the save.  Any time may have passed
\* since the last activity, so that only open documents hold it back.
Hibernate ==
  /\ TimerHasManager /\ server.boot \notin {"down", "manifest"}
  /\ hib = "active" /\ Opened = {}
  /\ hib' = "hibernating"
  /\ Starting("hibernate")
  /\ UNCHANGED <<events, disk, cache, buffer, server, indexVars, tasks, overtaken, clientVars>>

(*****************************************************************************)
(* Restoring                                                                 *)
(*****************************************************************************)

Booted(boot) ==
  /\ server' = [server EXCEPT !.boot = boot]
  /\ UNCHANGED <<events, disk, buffer, tasks, saves, hib, overtaken, clientVars>>

RestoresStubs ==
  /\ server.boot = "manifest" /\ HasManifest(cache)
  /\ ix' = RestoreStubs(ix, cache.manifest)
  /\ Booted("done")
  /\ UNCHANGED <<cache, source>>

\* handleCacheLoad without anything cached: over the memory budget or not.
LoadEnds == {"done"} \cup (IF "pressure" \in Faults THEN {"degraded"} ELSE {})

\* loadCache: nothing to load, or something to look at.
LoadsCache ==
  /\ server.boot = "manifest" /\ ~HasManifest(cache)
  /\ \E end \in LoadEnds : Booted(IF cache.root = "absent" THEN end ELSE "index")
  /\ UNCHANGED <<cache, indexVars>>

\* readAndValidateCacheIndex.
ReadsCacheIndex ==
  /\ server.boot = "index"
  /\ \E end \in LoadEnds :
       Booted(CASE cache.root = "current" -> "entries"
                [] cache.root = "other"   -> "delete"
                [] OTHER                  -> end)
  /\ UNCHANGED <<cache, indexVars>>

DeletesCache ==
  /\ server.boot = "delete"
  /\ \E end \in LoadEnds : Booted(end)
  /\ cache' = EmptyCache
  /\ UNCHANGED indexVars

\* handleCacheLoad over the memory budget: what was loaded is not restored.
RestoresNothing ==
  /\ server.boot = "entries" /\ "pressure" \in Faults
  /\ Booted("degraded")
  /\ UNCHANGED <<cache, indexVars>>

\* handleCacheLoad; an entry from the cache is marked "didOpen".
RestoresEntries ==
  /\ server.boot = "entries"
  /\ \E loaded \in Loads(cache) :
       /\ ix' = RestoreCachedEntries(ix, loaded)
       /\ source' = [f \in Files |->
            IF f \in {e.uri : e \in loaded} /\ ~Has(ix, f) THEN "didOpen" ELSE source[f]]
       /\ server' = [server EXCEPT !.boot = "refresh",
                                   !.cached = {[uri |-> e.uri, text |-> e.text] : e \in loaded}]
  /\ UNCHANGED <<events, disk, cache, buffer, tasks, saves, hib, overtaken, clientVars>>

\* checkEntryStaleness finds that the file holds something else.
IsStaleOnDisk(e) ==
  /\ Has(ix, e.uri) /\ source[e.uri] \notin {"didOpen", "background"}
  /\ disk[e.uri] \notin {Gone, e.text}

\* checkEntryStaleness, up to the end of its read.
RefreshReads ==
  /\ server.boot = "refresh" /\ server.reading = {}
  /\ \E e \in server.cached :
       server' = [server EXCEPT
         !.cached = @ \ {e},
         !.reading = IF IsStaleOnDisk(e) THEN {[uri |-> e.uri, text |-> disk[e.uri]]} ELSE {}]
  /\ UNCHANGED <<events, disk, cache, buffer, indexVars, tasks, saves, hib, overtaken, clientVars>>

\* What was read is indexed, whatever became of the entry meanwhile.
Refreshes ==
  /\ \E e \in server.reading, warm \in SUBSET Files :
       /\ warm \subseteq Imports[<<e.uri, e.text>>]
       /\ ix' = UpsertBackgroundFile(InvalidateWithDependents(ix, e.uri), e.uri, 0, e.text, warm)
       /\ source' = [source EXCEPT ![e.uri] = "background"]
  /\ server' = [server EXCEPT !.reading = {}]
  /\ UNCHANGED <<events, disk, cache, buffer, tasks, saves, hib, overtaken, clientVars>>

Refreshed ==
  /\ server.boot = "refresh" /\ server.cached \cup server.reading = {}
  /\ Booted("done")
  /\ UNCHANGED <<cache, indexVars>>

(*****************************************************************************)
(* Documents, requests, the scan, memory                                     *)
(*****************************************************************************)

\* Opening is not gated: the manager stays in the state it is in.
Open(f) ==
  /\ Event("open")
  /\ f \in Touched /\ ~IsOpen(f) /\ disk[f] # Gone
  /\ buffer' = [buffer EXCEPT ![f] = disk[f]]
  /\ IF IsUp
     THEN /\ ix' = InvalidateWithDependents(ix, f)
          /\ tasks' = tasks \cup {[by |-> "didChange", file |-> f, text |-> disk[f]]}
     ELSE UNCHANGED <<ix, tasks>>
  /\ UNCHANGED <<disk, cache, server, source, saves, hib, overtaken, clientVars>>

Edit(f, t) ==
  /\ Event("edit")
  /\ IsOpen(f) /\ buffer[f] # t /\ IsUp
  /\ buffer' = [buffer EXCEPT ![f] = t]
  /\ ix' = InvalidateWithDependents(ix, f)
  /\ tasks' = tasks \cup {[by |-> "didChange", file |-> f, text |-> t]}
  /\ UNCHANGED <<disk, cache, server, source, saves, hib, overtaken, clientVars>>

Close(f) ==
  /\ Event("open")
  /\ IsOpen(f)
  /\ buffer' = [buffer EXCEPT ![f] = Closed]
  /\ ix' = RemoveFile(ix, f) /\ source' = [source EXCEPT ![f] = "background"]
  /\ UNCHANGED <<disk, cache, server, tasks, saves, hib, overtaken, clientVars>>

\* A request for the table of f passes beforeRequest: it is refused once the
\* server is shutting down, and wakes a hibernated one.
Request(f) ==
  /\ IsUp /\ server.closing = "no"
  /\ hib' = IF hib = "hibernated" THEN "active" ELSE hib
  /\ tasks' = IF GetSymbolTable(ix, f) = NoTable /\ disk[f] # Gone
              THEN tasks \cup {[by |-> "demand", file |-> f, text |-> disk[f]]} ELSE tasks
  /\ UNCHANGED <<events, disk, cache, buffer, server, indexVars, saves, overtaken, clientVars>>

\* upsertFile, its two halves at once.
Upserted(f, t) ==
  LET rid == RemoveDependencies(ix, f)
  IN  InstallFull(rid, f, 0, t, Wired(rid, f, t, Imports[<<f, t>>]))

\* onDemandIndex with what it has read: it looks for a cached table of an entry
\* without one, and indexes the file otherwise.
DemandEnds(f, t) ==
  LET task == [by |-> "demand", file |-> f, text |-> t]
  IN  /\ task \in tasks
      /\ IF CanHydrate(cache, ix, f, t)
         THEN /\ tasks' = (tasks \ {task}) \cup
                           {[by |-> "hydrate", file |-> f, text |-> ix.files[f].text]}
              /\ UNCHANGED indexVars
         ELSE /\ tasks' = tasks \ {task}
              /\ ix' = Upserted(f, t)
              /\ source' = [source EXCEPT ![f] = "background"]
      /\ UNCHANGED <<events, disk, cache, buffer, server, saves, hib, overtaken, clientVars>>

\* hydrateFromCache has read the file, if it is still there, and installs the
\* table if the entry is still without one.
HydrateEnds(f, t) ==
  LET task == [by |-> "hydrate", file |-> f, text |-> t]
  IN  /\ task \in tasks
      /\ tasks' = tasks \ {task}
      /\ IF IsHydratable(ix, f) /\ t \in Hashes(cache.entries)
         THEN /\ ix' = Hydrated(cache, ix, f, t)
              /\ UNCHANGED source
         ELSE /\ ix' = Upserted(f, t)
              /\ source' = [source EXCEPT ![f] = "background"]
      /\ UNCHANGED <<events, disk, cache, buffer, server, saves, hib, overtaken, clientVars>>

\* Mutant: the content is hashed when the dependencies are known.
ChangeEndsLateHash(f, t) ==
  LET task == [by |-> "didChange", file |-> f, text |-> t]
  IN  /\ task \in tasks
      /\ tasks' = tasks \ {task}
      /\ LET hashed == IF IsOpen(f) THEN buffer[f] ELSE t
         IN  ix' = RewireDependents(
                     InstallFull(ix, f, 0, hashed, Wired(ix, f, t, Imports[<<f, t>>])), f)
      /\ source' = [source EXCEPT ![f] = "didChange"]
      /\ UNCHANGED <<events, disk, cache, buffer, server, saves, hib, overtaken, clientVars>>

\* parseAndIndexDocument has its dependencies.
ChangeEnds(f, t) ==
  LET task == [by |-> "didChange", file |-> f, text |-> t]
  IN  /\ task \in tasks
      /\ tasks' = tasks \ {task}
      /\ ix' = RewireDependents(Upserted(f, t), f)
      /\ source' = [source EXCEPT ![f] = "didChange"]
      /\ UNCHANGED <<events, disk, cache, buffer, server, saves, hib, overtaken, clientVars>>

\* One file of the background scan, which nothing cancels.
Scan(f) ==
  /\ Event("scan")
  /\ server.boot = "done" /\ ~Has(ix, f) /\ disk[f] # Gone
  /\ \E warm \in SUBSET Imports[<<f, disk[f]>>] :
       ix' = RewireDependents(UpsertBackgroundFile(ix, f, 0, disk[f], warm), f)
  /\ source' = [source EXCEPT ![f] = "background"]
  /\ UNCHANGED <<disk, cache, buffer, server, tasks, saves, hib, overtaken, clientVars>>

\* relieveMemoryPressure.
Pressure ==
  /\ Event("pressure")
  /\ server.boot \notin {"down", "manifest"}
  /\ ix' = DemoteNonEssentialEntries(ix, Opened)
  /\ ix' # ix
  /\ overtaken' = overtaken \cup
       {ix.files[task.file].text : task \in {k \in tasks : k.by = "hydrate" /\ Has(ix, k.file)
                                                         /\ ix.files[k.file].kind = "full"}}
  /\ UNCHANGED <<disk, cache, buffer, server, source, tasks, saves, hib, clientVars>>

(*****************************************************************************)
(* The specification                                                         *)
(*****************************************************************************)

SaveSteps(s) ==
  \/ SaveCollects(s) \/ SaveCannotStart(s) \/ SaveLists(s) \/ SavePrunes(s) \/ SaveKeeps(s)
  \/ SaveHasPruned(s) \/ SaveWrites(s) \/ SaveHasWritten(s) \/ SaveMarks(s) \/ SaveFinishes(s)

BootSteps ==
  \/ RestoresStubs \/ LoadsCache \/ ReadsCacheIndex \/ DeletesCache
  \/ RestoresEntries \/ RestoresNothing \/ RefreshReads \/ Refreshes \/ Refreshed

Next ==
  \/ ServerStarts \/ ServerFails \/ ServerCrashes \/ ServerStays \/ TimerFires
  \/ StopRequested \/ ServerStops \/ Upgrade
  \/ \E f \in Files, t \in Texts \cup {Gone} : DiskChanges(f, t)
  \/ \E s \in Slots : SaveSteps(s) \/ Deadline(s)
  \/ Hibernate
  \/ BootSteps
  \/ \E f \in Files : Open(f) \/ Close(f) \/ Request(f) \/ Scan(f)
  \/ \E f \in Files, t \in Texts : Edit(f, t) \/ DemandEnds(f, t) \/ HydrateEnds(f, t) \/ ChangeEnds(f, t)
  \/ Pressure

Spec == Init /\ [][Next]_vars

\* Timers fire.  Nothing is assumed of the disk: a write may hang for ever.
Fairness == \A s \in Slots : WF_vars(Deadline(s))

FairSpec == Spec /\ Fairness

(*****************************************************************************)
(* Properties                                                                *)
(*****************************************************************************)

IsOf(table, t) == \E g \in Files : <<g, t>> \in table

Fits(table, t) == IsOf(table, t) \/ t \in overtaken

\* A table in the index, in a save or in a file of the cache is of the text
\* whose hash goes with it, whichever save wrote it, wherever a process died and
\* whatever was opened, edited or demoted between collecting and writing; except
\* for an entry that changed and was demoted while its cached table was read.
TablesAreOfTheirText ==
  /\ \A f \in DOMAIN ix.files :
       ix.files[f].table # NoTable => Fits(ix.files[f].table, ix.files[f].text)
  /\ \A s \in DOMAIN saves : \A e \in saves[s].entries : Fits(e.table, e.text)
  /\ \A e \in cache.entries : Fits(e.table, e.text)

\* What a request got indexed, from the cache or from the file, is the table of
\* what the file holds, whatever changed between the save and the restart and
\* whatever the editor never saved.
DemandedIsCurrent ==
  \A f \in DOMAIN ix.files :
    (source[f] = "background" /\ ix.files[f].table # NoTable) => ix.files[f].text = disk[f]

\* The manifest of a save that met no error and no other save names no file
\* that is not there, however requests, the deadline and the cleared index fell
\* between its steps.
SavedCacheIsWhole ==
  [][\A s \in DOMAIN saves :
       (s \notin DOMAIN saves' /\ saves[s].phase = "manifest" /\ saves[s].clean
          /\ cache'.manifest # cache.manifest)
         => Hashes(cache'.entries) = Hashes(cache'.manifest)]_vars
================================================================================
