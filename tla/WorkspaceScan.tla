----------------------------- MODULE WorkspaceScan -----------------------------
(*****************************************************************************)
(* The scans of the whole workspace: the one after startup in "full" mode,   *)
(* and those of global queries, which mark the index as prepared.  Files are *)
(* opened, closed, written and watched, the index is cleared by hibernation  *)
(* and demoted under memory pressure between any two of their steps.         *)
(*                                                                           *)
(* Versions are 0, a document is not edited, and the upsert that ends the    *)
(* handler of a document or of a watched file is one step: DocumentIndexing  *)
(* has those in full.  Limits of file count and size are not reached.        *)
(*****************************************************************************)
EXTENDS WorkspaceIndex, Sequences, SequencesExt

CONSTANTS
  Start,      \* bound: what the files hold at first
  Touched,    \* bound: the files that are opened or change
  Slots,      \* bound: global queries at once
  BatchSize,  \* BATCH_SIZE
  MaxEvents,  \* bound: what the editor, the disk and the memory do
  Faults      \* what may happen: see FaultNames

FaultNames ==
  {"scan",       \* the mode is "full"
   "overBudget", \* memory is short when the cache has been loaded: nothing is scanned
   "query",      \* global queries are made
   "cancel",     \* and cancelled
   "open",       \* documents are opened
   "close",      \* and closed
   "disk",       \* files change or go, and the watcher says so later
   "unreadable", \* directories or files cannot be read
   "clear",      \* the index is cleared
   "memory"}     \* the use of memory changes

ASSUME ScanAssumption ==
  /\ IsFiniteSet(Files) /\ Start \subseteq Texts /\ Touched \subseteq Files
  /\ Slots \subseteq Nat \ {0} /\ BatchSize \in Nat \ {0} /\ MaxEvents \in Nat
  /\ Faults \subseteq FaultNames

VARIABLES
  disk,     \* the text of each file, or Gone
  notices,  \* files that changed on disk, until the watcher says so
  buffer,   \* the text of each document in the editor, or Closed
  ix,       \* the WorkspaceIndex
  prepared, \* globalPrepDone
  owed,     \* history: the files the scan that set globalPrepDone has found
  scans,    \* the scans that are running, by slot; the one after startup in slot 0
  tasks,    \* upserts of documents and watched files that are running
  refresh,  \* [due, armed]: pendingRefresh and refreshTimer
  memory,   \* [usage, degraded, state]: of the process, its monitor and what was told
  events    \* how much of what the bounds count has happened

vars == <<disk, notices, buffer, ix, prepared, owed, scans, tasks, refresh, memory, events>>

Gone   == "gone"
Closed == "closed"
NoFiles == [f \in {} |-> Gone]

\* `read` holds what a batch has read so far, `batch` its files in their order.
\* `found` is history: the files discovered, less those that could not be read
\* and those that were taken out of the index since.
Phases == {"discover", "filter", "read", "yield"}
IsScan(s) ==
  /\ s = [phase |-> s.phase, found |-> s.found, pending |-> s.pending, batch |-> s.batch,
          read |-> s.read, cancelled |-> s.cancelled]
  /\ s.phase \in Phases /\ s.found \subseteq Files /\ s.pending \subseteq Files
  /\ s.batch \in Seq(Files) /\ Len(s.batch) <= BatchSize
  /\ DOMAIN s.read \subseteq Files /\ \A f \in DOMAIN s.read : s.read[f] \in Texts \cup {Gone}
  /\ s.cancelled \in BOOLEAN

NewScan == [phase |-> "discover", found |-> {}, pending |-> {}, batch |-> <<>>,
            read |-> NoFiles, cancelled |-> FALSE]

\* By "open" with the text of the document, or by "watch" with the dependents the
\* file had.
Task == [by : {"open"}, file : Files, text : Texts, dependents : {{}}]
        \cup [by : {"watch"}, file : Files, text : {Gone}, dependents : SUBSET Files]

TypeOK ==
  /\ disk \in [Files -> Texts \cup {Gone}] /\ notices \subseteq Files
  /\ buffer \in [Files -> Texts \cup {Closed}]
  /\ IsIndex(ix) /\ prepared \in BOOLEAN /\ owed \subseteq Files
  /\ DOMAIN scans \subseteq Slots \cup {0} /\ \A s \in DOMAIN scans : IsScan(scans[s])
  /\ \A task \in tasks : task \in Task
  /\ refresh \in [due : SUBSET Files, armed : BOOLEAN]
  /\ memory \in [usage : {"low", "between", "high"}, degraded : BOOLEAN,
                 state : {"active", "degraded"}]
  /\ events \in 0..MaxEvents

\* Once the cache is loaded: a scan, or none for the mode is "openFiles" or
\* memory is short.
Init ==
  /\ disk \in [Files -> Start] /\ notices = {}
  /\ buffer = [f \in Files |-> Closed]
  /\ ix = EmptyIndex /\ prepared = FALSE /\ owed = {}
  /\ tasks = {}
  /\ refresh = [due |-> {}, armed |-> FALSE]
  /\ \/ /\ "scan" \in Faults /\ scans = [s \in {0} |-> NewScan]
        /\ memory = [usage |-> "low", degraded |-> FALSE, state |-> "active"]
     \/ /\ scans = [s \in {} |-> NewScan]
        /\ memory = [usage |-> "low", degraded |-> FALSE, state |-> "active"]
     \/ /\ "overBudget" \in Faults /\ scans = [s \in {} |-> NewScan]
        /\ memory = [usage |-> "high", degraded |-> FALSE, state |-> "degraded"]
  /\ events = 0

\* Something happens, of a kind that may and as often as the bounds allow.
Event(kind) == kind \in Faults /\ events < MaxEvents /\ events' = events + 1

Opened == {f \in Files : buffer[f] # Closed}

\* f is out of the index: no scan answers for it any more.
Forgotten(fs) ==
  /\ scans' = [s \in DOMAIN scans |-> [scans[s] EXCEPT !.found = @ \ fs]]
  /\ owed' = owed \ fs

(*****************************************************************************)
(* Scans                                                                     *)
(*****************************************************************************)

Becomes(s, scan) == scans' = [scans EXCEPT ![s] = scan]
In(s, phase) == s \in DOMAIN scans /\ scans[s].phase = phase

Ended(s) == scans' = [r \in DOMAIN scans \ {s} |-> scans[r]]

\* Mutant: prepared although the query was cancelled.
MarkedThough(s, scan) ==
  IF s # 0
  THEN prepared' = TRUE /\ owed' = scan.found
  ELSE UNCHANGED <<prepared, owed>>

\* prepareGlobalQuery after its scan.  A second query may have marked meanwhile.
Marked(s, scan) ==
  IF s # 0 /\ ~scan.cancelled
  THEN prepared' = TRUE /\ owed' = scan.found
  ELSE UNCHANGED <<prepared, owed>>

Rest == UNCHANGED <<disk, notices, buffer, tasks, memory>>

\* prepareGlobalQuery: nothing to do when the index is prepared.
QueryStarts(s) ==
  /\ Event("query")
  /\ s \notin DOMAIN scans /\ ~prepared
  /\ scans' = [r \in DOMAIN scans \cup {s} |-> IF r = s THEN NewScan ELSE scans[r]]
  /\ Rest /\ UNCHANGED <<ix, prepared, owed, refresh>>

\* The client cancels; nobody cancels the scan after startup.
QueryCancelled(s) ==
  /\ Event("cancel")
  /\ s \in DOMAIN scans /\ ~scans[s].cancelled
  /\ Becomes(s, [scans[s] EXCEPT !.cancelled = TRUE])
  /\ Rest /\ UNCHANGED <<ix, prepared, owed, refresh>>

\* discoverFiles; a directory that cannot be read is left out.
Discovers(s) ==
  /\ In(s, "discover")
  /\ \E files \in SUBSET {f \in Files : disk[f] # Gone} :
       /\ \/ files = {f \in Files : disk[f] # Gone} /\ UNCHANGED events
          \/ files # {f \in Files : disk[f] # Gone} /\ Event("unreadable")
       /\ IF files = {}
          THEN Ended(s) /\ Marked(s, scans[s])
          ELSE /\ Becomes(s, [scans[s] EXCEPT !.phase = "filter", !.found = files])
               /\ UNCHANGED <<prepared, owed>>
  /\ Rest /\ UNCHANGED <<ix, refresh>>

\* The head of the loop over the batches: the next one, or the end.
NextBatch(s, pending) ==
  IF pending = {} \/ scans[s].cancelled
  THEN Ended(s) /\ Marked(s, scans[s])
  ELSE /\ \E batch \in SUBSET pending :
            /\ Cardinality(batch) = IF Cardinality(pending) < BatchSize
                                    THEN Cardinality(pending) ELSE BatchSize
            /\ \E order \in SetToSeqs(batch) :
                 Becomes(s, [scans[s] EXCEPT !.phase = "read", !.pending = pending \ batch,
                                             !.batch = order, !.read = NoFiles])
       /\ UNCHANGED <<prepared, owed>>

\* The files without an entry are pending, and stay so if they get one.
Filters(s) ==
  /\ In(s, "filter")
  /\ NextBatch(s, {f \in scans[s].found : ~Has(ix, f)})
  /\ Rest /\ UNCHANGED <<events, ix, refresh>>

\* The files of a batch are read concurrently.
Reads(s, f) ==
  /\ In(s, "read")
  /\ f \in Range(scans[s].batch) \ DOMAIN scans[s].read
  /\ \E text \in {disk[f], Gone} :
       /\ \/ text = disk[f] /\ UNCHANGED events
          \/ text # disk[f] /\ Event("unreadable")
       /\ Becomes(s, [scans[s] EXCEPT
            !.read = [g \in DOMAIN @ \cup {f} |-> IF g = f THEN text ELSE @[g]],
            !.found = IF text = Gone THEN @ \ {f} ELSE @])
  /\ Rest /\ UNCHANGED <<ix, prepared, owed, refresh>>

\* onFileIndexed, which only the scan after startup has.
FileIndexed(index, due, f) ==
  [ix |-> RewireDependents(index, f), due |-> due \cup GetDependents(index, f)]

\* upsertParsedBatch, for one file of the batch; `warm` is what the resolver's
\* cache knows of the imports.
UpsertParsed(s, warm, done, f) ==
  LET read == scans[s].read
      index == UpsertBackgroundFile(done.ix, f, 0, read[f], {d \in Files : <<f, d>> \in warm})
  IN  IF read[f] = Gone THEN done
      ELSE IF s = 0 THEN FileIndexed(index, done.due, f)
      ELSE [ix |-> index, due |-> done.due]

\* ... one file after the other, in one step.
Upserts(s) ==
  LET read == scans[s].read
      batch == scans[s].batch
      OfBatch(f) == {<<f, d>> : d \in Imports[<<f, read[f]>>]}
  IN  /\ In(s, "read") /\ DOMAIN read = Range(batch)
      /\ \E warm \in SUBSET UNION {OfBatch(f) : f \in {g \in DOMAIN read : read[g] # Gone}} :
           LET after[n \in 0..Len(batch)] ==
                 IF n = 0 THEN [ix |-> ix, due |-> refresh.due]
                 ELSE UpsertParsed(s, warm, after[n - 1], batch[n])
               end == after[Len(batch)]
           IN  /\ ix' = end.ix
               /\ refresh' = [due |-> end.due, armed |-> refresh.armed \/ end.due # {}]
      /\ Becomes(s, [scans[s] EXCEPT !.phase = "yield", !.batch = <<>>, !.read = NoFiles])
      /\ Rest /\ UNCHANGED <<events, prepared, owed>>

\* The event loop comes back.
Yields(s) ==
  /\ In(s, "yield")
  /\ NextBatch(s, scans[s].pending)
  /\ Rest /\ UNCHANGED <<events, ix, refresh>>

\* Mutant: the pending ones are forgotten only when one of them is open.
FlushOfOpen ==
  /\ refresh.armed
  /\ refresh' = [due |-> IF refresh.due \cap Opened = {} THEN refresh.due ELSE {}, armed |-> FALSE]
  /\ UNCHANGED <<events, disk, notices, buffer, ix, prepared, owed, scans, tasks, memory>>

\* The timer fires: the documents among the pending ones are diagnosed again.
Flush ==
  /\ refresh.armed
  /\ refresh' = [due |-> {}, armed |-> FALSE]
  /\ UNCHANGED <<events, disk, notices, buffer, ix, prepared, owed, scans, tasks, memory>>

(*****************************************************************************)
(* What else happens to the index                                            *)
(*****************************************************************************)

Open(f) ==
  /\ Event("open")
  /\ f \in Touched /\ f \notin Opened /\ disk[f] # Gone
  /\ buffer' = [buffer EXCEPT ![f] = disk[f]]
  /\ ix' = InvalidateWithDependents(ix, f)
  /\ tasks' = tasks \cup {[by |-> "open", file |-> f, text |-> disk[f], dependents |-> {}]}
  /\ UNCHANGED <<disk, notices, prepared, owed, scans, refresh, memory>>

\* handleDidClose does not touch globalPrepDone.
Close(f) ==
  /\ Event("close")
  /\ f \in Opened
  /\ buffer' = [buffer EXCEPT ![f] = Closed]
  /\ ix' = RemoveFile(ix, f) /\ Forgotten({f})
  /\ UNCHANGED <<disk, notices, prepared, tasks, refresh, memory>>

DiskChanges(f, t) ==
  /\ Event("disk")
  /\ f \in Touched \ Opened /\ disk[f] # t
  /\ disk' = [disk EXCEPT ![f] = t] /\ notices' = notices \cup {f}
  /\ UNCHANGED <<buffer, ix, prepared, owed, scans, tasks, refresh, memory>>

Invalidated(index, dependents) ==
  [index EXCEPT !.files = [g \in DOMAIN index.files |->
     IF g \in dependents THEN Invalidate(index, g).files[g] ELSE index.files[g]]]

\* Mutant: a file nobody depends on does not unmark the index.
WatchQuietly(f) ==
  LET dependents == GetDependents(ix, f)
  IN  /\ f \in notices /\ notices' = notices \ {f}
      /\ prepared' = (prepared /\ dependents = {})
      /\ scans' = scans /\ owed' = owed
      /\ IF disk[f] = Gone \/ dependents = {}
         THEN ix' = Invalidated(RemoveFile(ix, f), dependents) /\ UNCHANGED tasks
         ELSE /\ ix' = RemoveFile(ix, f)
              /\ tasks' = tasks \cup
                   {[by |-> "watch", file |-> f, text |-> Gone, dependents |-> dependents]}
      /\ UNCHANGED <<events, disk, buffer, refresh, memory>>

\* handleFileCreatedOrChanged up to its await, or handleFileDeleted.
Watch(f) ==
  LET dependents == GetDependents(ix, f)
  IN  /\ f \in notices /\ notices' = notices \ {f}
      /\ prepared' = FALSE /\ Forgotten({f})
      /\ IF disk[f] = Gone \/ dependents = {}
         THEN ix' = Invalidated(RemoveFile(ix, f), dependents) /\ UNCHANGED tasks
         ELSE /\ ix' = RemoveFile(ix, f)
              /\ tasks' = tasks \cup
                   {[by |-> "watch", file |-> f, text |-> Gone, dependents |-> dependents]}
      /\ UNCHANGED <<events, disk, buffer, refresh, memory>>

\* upsertFile, its two halves at once.
Upserted(index, f, t) ==
  LET rid == RemoveDependencies(index, f)
  IN  InstallFull(rid, f, 0, t, Wired(rid, f, t, Imports[<<f, t>>]))

\* parseAndIndexDocument is done, or the watched file is indexed again unless
\* something else did it meanwhile.
TaskEnds(task) ==
  /\ task \in tasks /\ tasks' = tasks \ {task}
  /\ ix' = IF task.by = "open" THEN RewireDependents(Upserted(ix, task.file, task.text), task.file)
           ELSE Invalidated(IF disk[task.file] = Gone \/ GetSymbolTable(ix, task.file) # NoTable
                            THEN ix ELSE Upserted(ix, task.file, disk[task.file]),
                            task.dependents)
  /\ UNCHANGED <<events, disk, notices, buffer, prepared, owed, scans, refresh, memory>>

\* onClearIndex.
Clear ==
  /\ Event("clear")
  /\ Opened = {}
  /\ ix' = EmptyIndex /\ prepared' = FALSE /\ Forgotten(Files)
  /\ UNCHANGED <<disk, notices, buffer, tasks, refresh, memory>>

(*****************************************************************************)
(* Memory                                                                    *)
(*****************************************************************************)

UsageChanges ==
  /\ Event("memory")
  /\ \E usage \in {"low", "between", "high"} \ {memory.usage} :
       memory' = [memory EXCEPT !.usage = usage]
  /\ UNCHANGED <<disk, notices, buffer, ix, prepared, owed, scans, tasks, refresh>>

\* Mutant: memory is relieved once, when it becomes short.
RelieveOnce ==
  /\ memory.usage = "high"
  /\ memory' = [memory EXCEPT !.degraded = TRUE, !.state = "degraded"]
  /\ ix' = IF memory.degraded THEN ix ELSE DemoteNonEssentialEntries(ix, Opened)
  /\ UNCHANGED <<events, disk, notices, buffer, prepared, owed, scans, tasks, refresh>>

\* HeapPressureMonitor.check above the threshold of demotion.
Relieve ==
  /\ memory.usage = "high"
  /\ memory' = [memory EXCEPT !.degraded = TRUE, !.state = "degraded"]
  /\ ix' = DemoteNonEssentialEntries(ix, Opened)
  /\ UNCHANGED <<events, disk, notices, buffer, prepared, owed, scans, tasks, refresh>>

\* ... and below that of recovery.
Recover ==
  /\ memory.usage = "low" /\ memory.degraded
  /\ memory' = [memory EXCEPT !.degraded = FALSE, !.state = "active"]
  /\ UNCHANGED <<events, disk, notices, buffer, ix, prepared, owed, scans, tasks, refresh>>

(*****************************************************************************)
(* The specification                                                         *)
(*****************************************************************************)

ScanSteps(s) ==
  Discovers(s) \/ Filters(s) \/ Upserts(s) \/ Yields(s) \/ \E f \in Files : Reads(s, f)

Next ==
  \/ \E s \in Slots : QueryStarts(s) \/ QueryCancelled(s)
  \/ \E s \in Slots \cup {0} : ScanSteps(s)
  \/ \E f \in Files : Open(f) \/ Close(f) \/ Watch(f)
  \/ \E f \in Files, t \in Texts \cup {Gone} : DiskChanges(f, t)
  \/ \E task \in tasks : TaskEnds(task)
  \/ Flush \/ Clear
  \/ UsageChanges \/ Relieve \/ Recover

Spec == Init /\ [][Next]_vars

\* Timers fire.
Fairness == WF_vars(Flush) /\ WF_vars(Relieve) /\ WF_vars(Recover)

FairSpec == Spec /\ Fairness

(*****************************************************************************)
(* Properties                                                                *)
(*****************************************************************************)

\* While the index counts as prepared, every file the scan that marked it had
\* found has an entry, unless it could not be read or was taken out since by a
\* close: whatever other scans, cancellations, watched changes and clears of the
\* index fell between its steps.
PreparedCoversFound == prepared => owed \subseteq DOMAIN ix.files

\* The dependents of what the scan has indexed are diagnosed again, once for all
\* that is indexed until the timer fires, and again for what comes later.
DependentsAreRefreshed == \A f \in Files : f \in refresh.due ~> f \notin refresh.due

\* While memory stays short, tables of files that are not open are dropped again
\* and again, those the scan or a watched change brings later too.
PressureIsRelieved ==
  <>[](memory.usage = "high") =>
    []<>(\A f \in DOMAIN ix.files : ix.files[f].kind = "full" => f \in Opened)
================================================================================
