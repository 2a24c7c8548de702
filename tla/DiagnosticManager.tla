--------------------------- MODULE DiagnosticManager ---------------------------
(***************************************************************************)
(* server/src/features/diagnosticManager.ts with diagnosticPropagation.ts  *)
(* and the handlers that call it: per open document a debounce timer, at   *)
(* most one dispatched diagnosis (saves add others), a stale-notice timer, *)
(* a cache of verdicts by content and what the editor shows.               *)
(*                                                                         *)
(* One action is one callback run to its first await or its end.  The      *)
(* worker is RequestService seen from here: verdicts arrive in the order   *)
(* of the requests, which all have one priority, and failures at any time. *)
(*                                                                         *)
(* TextDocuments updates a TextDocument in place, so a callback that kept  *)
(* `doc` reads the newest version from it as long as the document was not  *)
(* closed; an opening makes a new object, here a new session.              *)
(***************************************************************************)
EXTENDS Integers, Sequences, FiniteSets

CONSTANTS
  Docs,            \* the documents of the workspace
  Imports,         \* pairs <<importer, imported>>, what the contents name
  Texts,           \* contents, equal exactly when their hashes are
  NoText,          \* no content
  RoxenTexts,      \* contents that the stock compiler cannot check
  MaxVersion,      \* bound: versions of a document in one session
  MaxSessions,     \* bound: times a document is opened
  MaxRuns,         \* bound: diagnoses in flight together
  WorkerIsFast,    \* is a diagnose answered before the next debounce of its file fires?
  Faults           \* what the environment may do, see AllFaults

AllFaults ==
  {"save",      \* documents are saved
   "unindexed", \* a text is refused or indexing it throws
   "close",     \* documents are closed
   "mode",      \* the configured mode changes
   "watch",     \* files change or disappear on disk
   "reindex",   \* background indexing refreshes open documents
   "query",     \* a query or a repair indexes a document again
   "fail",      \* the worker times out or rejects
   "backoff",   \* the worker is in a crash-loop backoff
   "slow",      \* two seconds pass before an answer
   "dispose"}   \* the server shuts down

ASSUME DiagnosticAssumption ==
  /\ Imports \subseteq Docs \X Docs
  /\ NoText \notin Texts /\ RoxenTexts \subseteq Texts
  /\ MaxVersion \in Nat \ {0} /\ MaxSessions \in Nat \ {0} /\ MaxRuns \in Nat \ {0}
  /\ WorkerIsFast \in BOOLEAN
  /\ Faults \subseteq AllFaults

Modes == {"realtime", "saveOnly", "off"}
Sessions == 0..MaxSessions
RunIds == 1..MaxRuns
NoRun == 0

\* A verdict of Pike: the contents it was computed from.  An unchecked one is
\* the empty list of problems, whatever produced it.
NoWorld == [d \in Docs |-> NoText]
NoVerdict == [checked |-> FALSE, world |-> NoWorld]

\* What the editor shows for a document: parse and lint problems of a content,
\* problems of a verdict, and perhaps a notice.
Nothing == [parse |-> NoText, pike |-> NoVerdict, notice |-> "none"]

\* FileDiagnosticState; a propagationChain of null is the empty chain.
NoState == [exists |-> FALSE, timer |-> FALSE, version |-> 0, inFlight |-> FALSE,
            staleTimer |-> NoRun, lastDiagnostics |-> Nothing, propagationChain |-> {}]

NoEntry == [text |-> NoText, verdict |-> NoVerdict]

VARIABLES
  open,         \* documents in `documents`
  session,      \* which TextDocument object a document has, or last had
  version,      \* the version of each such object
  text,         \* the content of each document
  handlers,     \* content-change handlers still waiting for their upsert
  queried,      \* documents that a query or a repair is indexing
  refreshing,   \* per watched file being re-indexed, the importers to refresh
  entry,        \* files of the index: "none", "bare" of dependencies or "full"
  dependents,   \* reverse edges of the index, a part of Imports
  mode, disposed,
  state,        \* fileStates
  staleTimers,  \* armed stale timers, each with the run that armed it
  runs,         \* runDiagnose calls that await the worker, oldest first
  cache,        \* pikeCache
  shown         \* the diagnostics last sent to the editor

editor == <<open, session, version, text>>
index == <<queried, refreshing, entry, dependents>>
manager == <<state, staleTimers, runs, cache, shown>>
vars == <<editor, handlers, index, mode, disposed, manager>>
env == <<editor, handlers, index, mode, disposed>>

Here == [state |-> state, staleTimers |-> staleTimers, runs |-> runs,
         cache |-> cache, shown |-> shown]

Become(next) == \E s \in {next} :
  /\ state' = s.state /\ staleTimers' = s.staleTimers /\ runs' = s.runs
  /\ cache' = s.cache /\ shown' = s.shown

LiveVersion(u) == version[u][session[u]]

(***************************************************************************)
(* The index, as far as diagnosis asks it.                                 *)
(***************************************************************************)
Edges(u) == {e \in Imports : e[1] = u}

GetDependents(u) == {d \in Docs : <<d, u>> \in dependents}

\* An upsert forgets the reverse edges of the old entry before it awaits.
UpsertBegins(u) ==
  /\ dependents' = dependents \ Edges(u)
  /\ UNCHANGED entry

\* Mutant: the new entry is stored without its reverse edges.
UpsertEndsUnregistered(u) ==
  /\ entry' = [entry EXCEPT ![u] = "full"]
  /\ UNCHANGED dependents

\* After its awaits it stores the new entry and registers its edges.
UpsertEnds(u) ==
  /\ entry' = [entry EXCEPT ![u] = "full"]
  /\ dependents' = dependents \cup Edges(u)

\* removeFile: with the entry go the edges from it and those to it.
RemoveFile(u) ==
  /\ entry' = [entry EXCEPT ![u] = "none"]
  /\ dependents' = IF entry[u] = "none" THEN dependents
                   ELSE {e \in dependents : e[1] # u /\ e[2] # u}

(***************************************************************************)
(* Methods.                                                                *)
(***************************************************************************)
GetOrCreate(st) == IF st.exists THEN st ELSE [NoState EXCEPT !.exists = TRUE]

\* Mutant: the gate forgets that the document may be closed.
MayPublishClosed(u, s) == ~disposed /\ version[u][s] = LiveVersion(u)

\* Mutant: the gate forgets that the manager may be disposed.
MayPublishDisposed(u, s) == u \in open /\ version[u][s] = LiveVersion(u)

\* The gate of publishDiagnostics for a callback that kept the document of session s.
MayPublish(u, s) == ~disposed /\ u \in open /\ version[u][s] = LiveVersion(u)

Publish(m, u, s, what) ==
  IF MayPublish(u, s)
  THEN [m EXCEPT !.shown[u] = what,
                 !.state[u].lastDiagnostics = IF m.state[u].exists THEN what ELSE @]
  ELSE m

ClearDebounce(m, u) == [m EXCEPT !.state[u].timer = FALSE]

\* Mutant: the handle is forgotten, the timer stays armed.
ClearStaleHandleOnly(m, r) ==
  IF r.orphan THEN m ELSE [m EXCEPT !.state[r.uri].staleTimer = NoRun]

\* clearStaleTimer of the state of run r; a state that was dropped has no timer.
ClearStale(m, r) ==
  IF r.orphan THEN m
  ELSE [m EXCEPT !.state[r.uri].staleTimer = NoRun,
                 !.staleTimers = {t \in @ : t.run # m.state[r.uri].staleTimer}]

\* clearTimers and fileStates.delete; runs and leaked timers keep the object.
DropStates(m, S) ==
  LET Armed == {t \in m.staleTimers : \A d \in S : t.run # m.state[d].staleTimer}
  IN  [m EXCEPT
         !.state = [d \in Docs |-> IF d \in S THEN NoState ELSE m.state[d]],
         !.staleTimers =
            {IF t.uri \in S /\ ~t.orphan
             THEN [t EXCEPT !.orphan = TRUE, !.last = m.state[t.uri].lastDiagnostics]
             ELSE t : t \in Armed},
         !.runs = [k \in DOMAIN m.runs |->
                     IF m.runs[k].uri \in S THEN [m.runs[k] EXCEPT !.orphan = TRUE]
                     ELSE m.runs[k]]]

\* Everything the worker is given: the document and the open ones it needs,
\* at their live contents; others come from disk.
Closed(S) == \A e \in Imports : entry[e[1]] = "full" /\ e[1] \in S => e[2] \in S
Needs(u) == {d \in Docs : \A S \in SUBSET Docs : u \in S /\ Closed(S) => d \in S}

World(u) == [d \in Docs |-> IF d = u \/ d \in Needs(u) \cap open THEN text[d] ELSE NoText]

FreshRun(m) ==
  RunIds \ ({m.runs[k].id : k \in DOMAIN m.runs} \cup {t.run : t \in m.staleTimers}
              \cup {m.state[d].staleTimer : d \in Docs})

\* runDiagnose up to its await.
RunDiagnose(m, u) ==
  LET s  == session[u]
      id == CHOOSE i \in FreshRun(m) : TRUE
  IN  IF disposed \/ u \notin open THEN m
      ELSE IF m.cache[u].text = text[u] THEN
        Publish(m, u, s, [parse |-> text[u], pike |-> m.cache[u].verdict, notice |-> "none"])
      ELSE IF text[u] \in RoxenTexts THEN
        Publish(m, u, s, [parse |-> text[u], pike |-> NoVerdict, notice |-> "none"])
      ELSE
        [m EXCEPT
           !.state[u] = [GetOrCreate(@) EXCEPT !.inFlight = TRUE, !.staleTimer = id,
                                               !.lastDiagnostics = Nothing],
           !.staleTimers = @ \cup {[run |-> id, uri |-> u, session |-> s,
                                    orphan |-> FALSE, last |-> Nothing]},
           !.runs = Append(@, [id |-> id, uri |-> u, session |-> s, text |-> text[u],
                               world |-> World(u), orphan |-> FALSE])]

\* The bound on runs: a diagnose may start.
RoomToRun(u) == FreshRun(Here) # {}

\* Mutant: the captured version is that of the first edit.
ScheduleKeepsVersion(m, u, chain) ==
  [m EXCEPT !.state[u] = [GetOrCreate(@) EXCEPT
     !.timer = TRUE, !.version = IF m.state[u].exists THEN @ ELSE LiveVersion(u),
     !.propagationChain = chain]]

\* Mutant: the version after the current one is captured.
ScheduleNextVersion(m, u, chain) ==
  [m EXCEPT !.state[u] = [GetOrCreate(@) EXCEPT !.timer = TRUE, !.version = LiveVersion(u) + 1,
                                                !.propagationChain = chain]]

\* The debounce timer is set again, with the version it is for.
Schedule(m, u, chain) ==
  [m EXCEPT !.state[u] = [GetOrCreate(@) EXCEPT !.timer = TRUE, !.version = LiveVersion(u),
                                                !.propagationChain = chain]]

OnDidChange(m, u) ==
  IF disposed \/ u \notin open THEN m
  ELSE LET p == [m EXCEPT !.shown[u] = [parse |-> text[u], pike |-> m.cache[u].verdict,
                                        notice |-> "none"]]
       IN  IF mode = "realtime" THEN Schedule(p, u, {}) ELSE p

OnDidClose(m, u) ==
  IF disposed THEN m ELSE [DropStates(m, {u}) EXCEPT !.shown[u] = Nothing]

\* Mutant: importers are scheduled whatever wave they were diagnosed in.
PropagateToDependentsAgain(m, u) ==
  LET S == GetDependents(u) \cap open
  IN  [m EXCEPT !.cache = [d \in Docs |-> IF d \in S THEN NoEntry ELSE m.cache[d]],
                !.state = [d \in Docs |-> IF d \in S THEN Schedule(m, d, {}).state[d]
                                          ELSE m.state[d]]]

PropagateToDependents(m, u) ==
  LET chain == m.state[u].propagationChain \cup {u}
      S     == (GetDependents(u) \cap open) \ chain
  IN  [m EXCEPT !.cache = [d \in Docs |-> IF d \in S THEN NoEntry ELSE m.cache[d]],
                !.state = [d \in Docs |-> IF d \in S THEN Schedule(m, d, chain).state[d]
                                          ELSE m.state[d]]]

\* The finally block of runDiagnose.
Finish(m, k) ==
  LET r == m.runs[k]
  IN  [m EXCEPT !.runs = SubSeq(@, 1, k - 1) \o SubSeq(@, k + 1, Len(@)),
                !.state[r.uri] = IF r.orphan THEN @
                                 ELSE [@ EXCEPT !.inFlight = FALSE, !.propagationChain = {}]]

(***************************************************************************)
(* Actions.                                                                *)
(***************************************************************************)
Init ==
  /\ open = {} /\ session = [d \in Docs |-> 0]
  /\ version = [d \in Docs |-> [s \in Sessions |-> 0]]
  /\ text = [d \in Docs |-> NoText] /\ handlers = [d \in Docs |-> 0]
  /\ queried = {} /\ refreshing = [d \in Docs |-> {}]
  /\ entry = [d \in Docs |-> "none"] /\ dependents = {}
  /\ mode = "realtime" /\ disposed = FALSE
  /\ state = [d \in Docs |-> NoState] /\ staleTimers = {} /\ runs = <<>>
  /\ cache = [d \in Docs |-> NoEntry] /\ shown = [d \in Docs |-> Nothing]

\* didOpen: the document is indexed fast, without its dependencies; its content
\* event goes through the same handler as an edit.
Open(u, t) ==
  /\ u \notin open /\ session[u] < MaxSessions
  /\ open' = open \cup {u}
  /\ session' = [session EXCEPT ![u] = @ + 1]
  /\ version' = [version EXCEPT ![u][session[u] + 1] = 1]
  /\ text' = [text EXCEPT ![u] = t]
  /\ handlers' = [handlers EXCEPT ![u] = @ + 1]
  /\ entry' = [entry EXCEPT ![u] = "bare"]
  /\ dependents' = dependents \ Edges(u)
  /\ UNCHANGED <<queried, refreshing, mode, disposed, manager>>

Edit(u, t) ==
  /\ u \in open /\ t # text[u] /\ LiveVersion(u) < MaxVersion
  /\ version' = [version EXCEPT ![u][session[u]] = @ + 1]
  /\ text' = [text EXCEPT ![u] = t]
  /\ handlers' = [handlers EXCEPT ![u] = @ + 1]
  /\ UpsertBegins(u)
  /\ UNCHANGED <<open, session, queried, refreshing, mode, disposed, manager>>

\* The handler of an opening or an edit has indexed the document: onDidChange.
ContentHandled(u) ==
  /\ handlers[u] > 0
  /\ handlers' = [handlers EXCEPT ![u] = @ - 1]
  /\ UpsertEnds(u)
  /\ Become(OnDidChange(Here, u))
  /\ UNCHANGED <<editor, queried, refreshing, mode, disposed>>

\* It could not: the text was refused, or indexing it threw, before the edges of
\* the old entry went or after.  Nothing is published or scheduled.
ContentFails(u) ==
  /\ "unindexed" \in Faults
  /\ handlers[u] > 0
  /\ handlers' = [handlers EXCEPT ![u] = @ - 1]
  /\ dependents' \in {dependents, dependents \cup {e \in Edges(u) : entry[u] = "full"}}
  /\ UNCHANGED <<editor, queried, refreshing, entry, mode, disposed, manager>>

\* A feature request, the repair of open documents or an on-demand look-up
\* indexes a document whose table was dropped (which ones are is not modelled);
\* nothing is diagnosed after it.
QueryBegins(u) ==
  /\ "query" \in Faults
  /\ u \notin queried
  /\ queried' = queried \cup {u}
  /\ UpsertBegins(u)
  /\ UNCHANGED <<editor, handlers, refreshing, mode, disposed, manager>>

QueryEnds(u) ==
  /\ u \in queried
  /\ queried' = queried \ {u}
  /\ UpsertEnds(u)
  /\ UNCHANGED <<editor, handlers, refreshing, mode, disposed, manager>>

\* Background indexing refreshes the open documents it affected.
IndexRefresh(u) ==
  /\ "reindex" \in Faults
  /\ u \in open
  /\ Become(OnDidChange(Here, u))
  /\ UNCHANGED env

Save(u) ==
  /\ "save" \in Faults
  /\ u \in open /\ mode # "off" /\ ~disposed
  /\ RoomToRun(u)
  /\ Become(RunDiagnose(ClearDebounce(Here, u), u))
  /\ UNCHANGED env

Close(u) ==
  /\ "close" \in Faults
  /\ u \in open
  /\ open' = open \ {u}
  /\ RemoveFile(u)
  /\ Become(OnDidClose([Here EXCEPT !.cache[u] = NoEntry], u))
  /\ UNCHANGED <<session, version, text, handlers, queried, refreshing, mode, disposed>>

\* The debounce timer, dispatchDiagnose.
DebounceFires(u) ==
  /\ state[u].timer
  /\ RoomToRun(u)
  /\ WorkerIsFast => \A k \in DOMAIN runs : runs[k].uri # u
  /\ LET m == ClearDebounce(Here, u)
     IN  Become(IF LiveVersion(u) # state[u].version \/ state[u].inFlight THEN m
                ELSE RunDiagnose(m, u))
  /\ UNCHANGED env

StaleFires(t) ==
  /\ "slow" \in Faults
  /\ t \in staleTimers
  /\ LET last == IF t.orphan THEN t.last ELSE state[t.uri].lastDiagnostics
     IN  Become(Publish([Here EXCEPT !.staleTimers = @ \ {t}], t.uri, t.session,
                        [last EXCEPT !.notice = "stale"]))
  /\ UNCHANGED env

\* Mutant: the verdict is cached under the content the document has now.
AnswerCachesLive(how) ==
  /\ runs # <<>>
  /\ how = "backoff" => "backoff" \in Faults
  /\ LET r == runs[1]
         v == [checked |-> how = "verdict", world |-> r.world]
         m == [ClearStale(Here, r) EXCEPT !.cache[r.uri] = [text |-> text[r.uri], verdict |-> v]]
         p == Publish(m, r.uri, r.session, [parse |-> r.text, pike |-> v, notice |-> "none"])
     IN  Become(Finish(PropagateToDependents(p, r.uri), 1))
  /\ UNCHANGED env

\* diagnoseWithPike after its await.  In a crash-loop backoff the worker's
\* diagnose() returns an empty list that the caller cannot tell from a verdict.
Answer(how) ==
  /\ runs # <<>>
  /\ how = "backoff" => "backoff" \in Faults
  /\ LET r == runs[1]
         v == [checked |-> how = "verdict", world |-> r.world]
         m == [ClearStale(Here, r) EXCEPT !.cache[r.uri] = [text |-> r.text, verdict |-> v]]
         p == Publish(m, r.uri, r.session, [parse |-> r.text, pike |-> v, notice |-> "none"])
     IN  Become(Finish(PropagateToDependents(p, r.uri), 1))
  /\ UNCHANGED env

\* Mutant: a diagnose that failed keeps its stale timer.
FailKeepsStaleTimer(k, notice) ==
  /\ "fail" \in Faults
  /\ LET r == runs[k]
     IN  Become(Finish(Publish(Here, r.uri, r.session,
                         [parse |-> r.text, pike |-> NoVerdict, notice |-> notice]), k))
  /\ UNCHANGED env

\* The worker timed out (a notice is shown) or rejected (none is).
Fail(k, notice) ==
  /\ "fail" \in Faults
  /\ LET r == runs[k]
     IN  Become(Finish(Publish(ClearStale(Here, r), r.uri, r.session,
                         [parse |-> r.text, pike |-> NoVerdict, notice |-> notice]), k))
  /\ UNCHANGED env

SetDiagnosticMode(m) ==
  /\ "mode" \in Faults
  /\ mode' = m
  /\ Become(IF m = "realtime" THEN Here ELSE DropStates(Here, Docs))
  /\ UNCHANGED <<editor, handlers, index, disposed>>

Dispose ==
  /\ "dispose" \in Faults
  /\ disposed' = TRUE
  /\ Become(DropStates(Here, Docs))
  /\ UNCHANGED <<editor, handlers, index, mode>>

\* The importers of a changed file are refreshed: open ones are diagnosed anew.
RefreshImporters(m, S) ==
  LET c == [m EXCEPT !.cache = [d \in Docs |-> IF d \in S THEN NoEntry ELSE m.cache[d]]]
      One(n, d) == IF d \in S THEN OnDidChange(n, d) ELSE n
  IN  [c EXCEPT !.state = [d \in Docs |-> One(c, d).state[d]],
                !.shown = [d \in Docs |-> One(c, d).shown[d]]]

\* A watched file changes on disk.  Its importers are captured before its entry
\* and edges are dropped; if there are any, it is indexed again first.
FileChanged(u) ==
  /\ "watch" \in Faults
  /\ Become([Here EXCEPT !.cache[u] = NoEntry])
  /\ refreshing' = [refreshing EXCEPT ![u] = @ \cup GetDependents(u)]
  /\ RemoveFile(u)
  /\ UNCHANGED <<editor, handlers, queried, mode, disposed>>

\* It has been indexed again, or could not be read; its importers are refreshed
\* either way.
FileReindexed(u) ==
  /\ refreshing[u] # {}
  /\ UpsertEnds(u) \/ UNCHANGED <<entry, dependents>>
  /\ Become(RefreshImporters(Here, refreshing[u]))
  /\ refreshing' = [refreshing EXCEPT ![u] = {}]
  /\ UNCHANGED <<editor, handlers, queried, mode, disposed>>

\* A watched file disappears, open in the editor or not.
FileDeleted(u) ==
  /\ "watch" \in Faults
  /\ RemoveFile(u)
  /\ Become(RefreshImporters(OnDidClose([Here EXCEPT !.cache[u] = NoEntry], u),
                             GetDependents(u)))
  /\ UNCHANGED <<editor, handlers, queried, refreshing, mode, disposed>>

Next ==
  \/ \E u \in Docs :
        \/ \E t \in Texts : Open(u, t) \/ Edit(u, t)
        \/ ContentHandled(u) \/ ContentFails(u) \/ QueryBegins(u) \/ QueryEnds(u) \/ IndexRefresh(u)
        \/ Save(u) \/ Close(u) \/ DebounceFires(u)
        \/ FileChanged(u) \/ FileReindexed(u) \/ FileDeleted(u)
  \/ \E t \in staleTimers : StaleFires(t)
  \/ \E how \in {"verdict", "backoff"} : Answer(how)
  \/ \E k \in DOMAIN runs, notice \in {"none", "timeout"} : Fail(k, notice)
  \/ \E m \in Modes \ {mode} : SetDiagnosticMode(m)
  \/ Dispose

Spec == Init /\ [][Next]_vars

\* Handlers return, debounce timers fire and the worker settles its requests
\* (EveryRequestSettles of PikeWorker); users owe nothing.
Fairness ==
  /\ \A u \in Docs : WF_vars(ContentHandled(u)) /\ WF_vars(DebounceFires(u))
  /\ WF_vars(Answer("verdict"))

FairSpec == Spec /\ Fairness

(***************************************************************************)
(* Properties.                                                             *)
(***************************************************************************)
Contents == Texts \cup {NoText}
Verdicts == [checked : BOOLEAN, world : [Docs -> Contents]]
Shown == [parse : Contents, pike : Verdicts, notice : {"none", "stale", "timeout"}]
Entries == [text : Contents, verdict : Verdicts]
States == [exists : BOOLEAN, timer : BOOLEAN, version : 0..MaxVersion, inFlight : BOOLEAN,
           staleTimer : RunIds \cup {NoRun}, lastDiagnostics : Shown,
           propagationChain : SUBSET Docs]
StaleTimers == [run : RunIds, uri : Docs, session : Sessions, orphan : BOOLEAN, last : Shown]
Runs == [id : RunIds, uri : Docs, session : Sessions, text : Contents,
         world : [Docs -> Contents], orphan : BOOLEAN]

EnvOK ==
  /\ open \subseteq Docs /\ session \in [Docs -> Sessions]
  /\ version \in [Docs -> [Sessions -> 0..MaxVersion]]
  /\ text \in [Docs -> Contents] /\ handlers \in [Docs -> Nat]
  /\ queried \subseteq Docs /\ refreshing \in [Docs -> SUBSET Docs]
  /\ entry \in [Docs -> {"none", "bare", "full"}] /\ dependents \subseteq Imports
  /\ mode \in Modes /\ disposed \in BOOLEAN

ManagerOK(m) ==
  /\ m.state \in [Docs -> States] /\ m.staleTimers \subseteq StaleTimers
  /\ m.runs \in Seq(Runs) /\ m.cache \in [Docs -> Entries] /\ m.shown \in [Docs -> Shown]

TypeOK == EnvOK /\ ManagerOK(Here)

InFlight(u) == \E k \in DOMAIN runs : runs[k].uri = u

\* Nothing is left to happen to u unless somebody acts.
AtRest(u) ==
  /\ u \in open /\ ~disposed /\ handlers[u] = 0 /\ ~state[u].timer /\ ~InFlight(u)
  /\ \A v \in Docs : u \notin refreshing[v]

\* A closed document has no problems in the editor, whatever answers, timers
\* and refreshes arrive after the close (decision 0031, section 3).
ClosedShowsNothing == ~disposed => \A u \in Docs \ open : shown[u] = Nothing

\* Once the manager is disposed nothing is sent any more.
NothingAfterDispose == [][disposed => shown' = shown]_vars

\* A cached verdict was computed from the content it is filed under, so a cache
\* hit never shows the problems of another content.
CachedVerdictIsOfItsText ==
  \A u \in Docs : cache[u].text # NoText => cache[u].verdict.world[u] = cache[u].text

\* When nothing is left to happen, the editor shows the problems of the text
\* that is in it, provided each text could be indexed.
RestShowsCurrentText ==
  mode = "realtime" => \A u \in Docs : AtRest(u) => shown[u].parse = text[u]

\* When A changes, B which imports it is diagnosed again (decision 0031, section
\* 5): when nothing is left to happen, no open document shows a verdict on an
\* older text of an open document it imports.
RestShowsCurrentDependencies ==
  (\A u \in open : AtRest(u)) =>
    \A u, d \in open :
      <<u, d>> \in Imports /\ shown[u].pike.checked
        => shown[u].pike.world[d] \in {text[d], NoText}

\* A notice that diagnostics are being updated is shown only while they are.
StaleNoticeMeansRunning ==
  \A u \in Docs : shown[u].notice = "stale" /\ ~disposed => InFlight(u)

\* An import cycle does not keep the worker busy: when the user stops typing,
\* the wave of re-diagnoses ends.
PropagationEnds == <>[](runs = <<>> /\ \A u \in Docs : ~state[u].timer)
===============================================================================
