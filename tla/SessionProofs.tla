----------------------------- MODULE SessionProofs -----------------------------
(*****************************************************************************)
(* Proofs about RestartPolicy, for every number of attempts, and Session,    *)
(* for all files, texts, imports, slots and faults.                          *)
(*                                                                           *)
(* The bound on the restarts is not inductive: a timer that has not fired is *)
(* a restart the policy has already paid for with an attempt, and a session  *)
(* that has lasted forgets the attempts before the streak that used them.    *)
(*                                                                           *)
(* That a table is of the text it is filed under is not inductive: a demand  *)
(* that awaits a file of the cache installs what it reads under the text its *)
(* entry has by then.  The invariant says what that text may be, and that a  *)
(* process which has not restored anything yet has nothing to hydrate, which *)
(* holds because only a client that runs has a process.                      *)
(*                                                                           *)
(* What a demand indexed and what a save leaves on disk each need a further  *)
(* invariant, DemandOK and WholeOK, that holds along with the first.         *)
(*****************************************************************************)
EXTENDS Session, WorkspaceIndexProofs

-------------------------------------------------------------------------------
(* The restart policy. *)

\* Every restart of this client, made or due, was counted by an attempt; one
\* that has lasted owes none; one that stops leaves room for its timers.
ClientInv ==
  /\ ClientTypeOK
  /\ streak + client.timers <= client.attempt
  /\ client.up = "stable" => client.timers = 0 /\ streak = 0
  /\ client.state = "stopping" => client.orphans + client.timers <= MaxOrphans

-------------------------------------------------------------------------------
(* Lemmas about the operators of the policy. *)

\* A server that stops costs an attempt for each timer it adds.
LEMMA OnStoppedCounts ==
  ASSUME NEW c \in Client, NEW s \in Nat, NEW state \in {"stopped", "stopping"},
         s + c.timers <= c.attempt,
         c.up = "stable" => c.timers = 0 /\ s = 0,
         NEW n, n = OnStopped(c, state)
  PROVE  /\ n \in Client /\ n.state = state /\ n.up = "no"
         /\ s + n.timers <= n.attempt
         /\ n.orphans = c.orphans /\ n.timers \in {c.timers, c.timers + 1}
  <1> DEFINE attempt == IF c.up = "stable" THEN 0 ELSE c.attempt
  <1>1. /\ attempt \in 0..MaxAttempts /\ s + c.timers <= attempt
        /\ c.timers \in Nat /\ c.orphans \in 0..MaxOrphans
    BY PolicyAssumption DEF Client
  <1>2. CASE attempt >= MaxAttempts
    <2>1. n = [c EXCEPT !.state = state, !.up = "no", !.attempt = attempt]
      BY <1>2 DEF OnStopped
    <2> HIDE DEF attempt
    <2>2. n = [state |-> state, attempt |-> attempt, up |-> "no",
               timers |-> c.timers, orphans |-> c.orphans]
      BY <2>1 DEF Client
    <2> QED BY <1>1, <2>2 DEF Client
  <1>3. CASE ~(attempt >= MaxAttempts)
    <2>1. n = [c EXCEPT !.state = state, !.up = "no", !.attempt = attempt + 1, !.timers = @ + 1]
      BY <1>3 DEF OnStopped
    <2> HIDE DEF attempt
    <2>2. n = [state |-> state, attempt |-> attempt + 1, up |-> "no",
               timers |-> c.timers + 1, orphans |-> c.orphans]
      BY <2>1 DEF Client
    <2>3. attempt + 1 \in 0..MaxAttempts /\ s + (c.timers + 1) <= attempt + 1
      BY <1>1, <1>3, PolicyAssumption
    <2> QED BY <1>1, <2>2, <2>3 DEF Client
  <1> QED BY <1>2, <1>3

\* A client that replaces another has made no attempt and inherits its timers.
LEMMA ReplacedIsNew ==
  ASSUME ClientInv, client.orphans + client.timers <= MaxOrphans
  PROVE  /\ Replaced \in Client
         /\ Replaced.timers = 0 /\ Replaced.attempt = 0 /\ Replaced.up = "no"
         /\ Replaced.state = "starting"
  BY PolicyAssumption DEF ClientInv, ClientTypeOK, Client, Replaced, NewClient

-------------------------------------------------------------------------------
(* The invariant holds initially and is preserved by every action. *)

LEMMA ClientInitInv == ClientInit => ClientInv
  BY PolicyAssumption DEF ClientInit, ClientInv, ClientTypeOK, Client, NewClient

LEMMA ClientMovesInv ==
  ASSUME ClientInv, ClientRuns \/ ClientFails \/ StaysUp
  PROVE  ClientInv'
  <1> USE PolicyAssumption DEF ClientInv, ClientTypeOK, Client
  <1>1. CASE ClientRuns BY <1>1 DEF ClientRuns, OnRunning
  <1>2. CASE ClientFails BY <1>2 DEF ClientFails
  <1>3. CASE StaysUp BY <1>3 DEF StaysUp
  <1> QED BY <1>1, <1>2, <1>3

\* A timer of a client that is gone owes this one nothing.
LEMMA OrphanTimerInv ==
  ASSUME ClientInv, OrphanTimer
  PROVE  ClientInv'
  <1> DEFINE state == IF client.state = "stopped" THEN "starting" ELSE client.state
  <1>1. client \in Client /\ client.orphans \in 0..MaxOrphans /\ client.orphans > 0
    BY DEF ClientInv, ClientTypeOK, Client, OrphanTimer
  <1>2. client.orphans - 1 \in 0..MaxOrphans /\ client.timers \in Nat
    BY <1>1, PolicyAssumption DEF Client
  <1>3. state \in {"starting", "running", "stopping", "stopped"} BY <1>1 DEF Client
  <1>4. state = "stopping" => client.state = "stopping" OBVIOUS
  <1>5. client' = [client EXCEPT !.orphans = @ - 1, !.state = state] /\ streak' = streak
    BY DEF OrphanTimer
  <1> HIDE DEF state
  <1>6. client' = [state |-> state, attempt |-> client.attempt, up |-> client.up,
                   timers |-> client.timers, orphans |-> client.orphans - 1]
    BY <1>1, <1>5 DEF Client
  <1>7. client' \in Client BY <1>1, <1>2, <1>3, <1>6 DEF Client
  <1>8. client'.state = "stopping" => client'.orphans + client'.timers <= MaxOrphans
    BY <1>1, <1>2, <1>4, <1>6, PolicyAssumption DEF ClientInv
  <1> QED BY <1>5, <1>6, <1>7, <1>8 DEF ClientInv, ClientTypeOK

\* A timer of its own turns from a restart that is due into one that is made,
\* or into none.
LEMMA RestartTimerInv ==
  ASSUME ClientInv, RestartTimer
  PROVE  ClientInv'
  <1> DEFINE state == IF client.state = "stopped" THEN "starting" ELSE client.state
  <1>1. /\ client \in Client /\ client.timers \in Nat /\ client.timers > 0
        /\ client.orphans \in 0..MaxOrphans /\ client.attempt \in 0..MaxAttempts
        /\ streak \in Nat /\ streak + client.timers <= client.attempt
    BY DEF ClientInv, ClientTypeOK, Client, RestartTimer
  <1>2. client.up # "stable" BY <1>1 DEF ClientInv
  <1>3. state \in {"starting", "running", "stopping", "stopped"} BY <1>1 DEF Client
  <1>4. state = "stopping" => client.state = "stopping" OBVIOUS
  <1>5. client' = [state |-> state, attempt |-> client.attempt, up |-> client.up,
                   timers |-> client.timers - 1, orphans |-> client.orphans]
    <2>1. CASE client.state = "stopped"
      <3>1. client' = [client EXCEPT !.state = "starting", !.timers = @ - 1]
        BY <2>1 DEF RestartTimer
      <3> QED BY <1>1, <2>1, <3>1 DEF Client
    <2>2. CASE client.state # "stopped"
      <3>1. client' = [client EXCEPT !.timers = @ - 1] BY <2>2 DEF RestartTimer
      <3> QED BY <1>1, <2>2, <3>1 DEF Client
    <2> QED BY <2>1, <2>2
  <1>6. streak' \in {streak, streak + 1} BY DEF RestartTimer
  <1> HIDE DEF state
  <1>7. client' \in Client BY <1>1, <1>3, <1>5 DEF Client
  <1>8. streak' \in Nat /\ streak' + client'.timers <= client'.attempt
    BY <1>1, <1>5, <1>6
  <1>9. client'.state = "stopping" => client'.orphans + client'.timers <= MaxOrphans
    BY <1>1, <1>4, <1>5, PolicyAssumption DEF ClientInv
  <1> QED BY <1>2, <1>5, <1>7, <1>8, <1>9 DEF ClientInv, ClientTypeOK

LEMMA ServerDiesInv ==
  ASSUME ClientInv, ServerDies
  PROVE  ClientInv'
  <1> DEFINE n == OnStopped(client, "stopped")
  <1>1. client \in Client /\ streak \in Nat BY DEF ClientInv, ClientTypeOK
  <1>2. n \in Client /\ n.state = "stopped" /\ n.up = "no" /\ streak + n.timers <= n.attempt
    BY <1>1, OnStoppedCounts DEF ClientInv
  <1>3. client' = n /\ streak' = streak BY DEF ServerDies
  <1> HIDE DEF n
  <1> QED BY <1>1, <1>2, <1>3 DEF ClientInv, ClientTypeOK

LEMMA SettingsChangeInv ==
  ASSUME ClientInv, SettingsChange
  PROVE  ClientInv'
  <1>1. /\ client \in Client /\ streak \in Nat
        /\ client.timers \in Nat /\ client.orphans \in 0..MaxOrphans
        /\ client.timers + client.orphans < MaxOrphans
    BY DEF ClientInv, ClientTypeOK, Client, SettingsChange
  <1>2. CASE client.state = "running"
    <2> DEFINE n == OnStopped(client, "stopping")
    <2>1. /\ n \in Client /\ n.up = "no" /\ streak + n.timers <= n.attempt
          /\ n.orphans = client.orphans /\ n.timers \in {client.timers, client.timers + 1}
      BY <1>1, OnStoppedCounts DEF ClientInv
    <2>2. client' = n /\ streak' = streak BY <1>2 DEF SettingsChange
    <2>3. n.orphans + n.timers <= MaxOrphans BY <1>1, <2>1, PolicyAssumption
    <2> HIDE DEF n
    <2> QED BY <1>1, <2>1, <2>2, <2>3 DEF ClientInv, ClientTypeOK
  <1>3. CASE client.state = "stopped"
    <2>1. client' = Replaced /\ streak' = 0 BY <1>3 DEF SettingsChange
    <2>2. client.orphans + client.timers <= MaxOrphans BY <1>1, PolicyAssumption
    <2> QED BY <2>1, <2>2, ReplacedIsNew DEF ClientInv, ClientTypeOK
  <1> QED BY <1>2, <1>3 DEF SettingsChange

LEMMA StopEndsInv ==
  ASSUME ClientInv, StopEnds
  PROVE  ClientInv'
  <1>1. client' = Replaced /\ streak' = 0 /\ client.state = "stopping" BY DEF StopEnds
  <1> QED BY <1>1, ReplacedIsNew DEF ClientInv, ClientTypeOK

LEMMA ClientStepInv == ClientInv /\ [ClientNext]_clientVars => ClientInv'
  <1> SUFFICES ASSUME ClientInv, [ClientNext]_clientVars PROVE ClientInv'
    OBVIOUS
  <1>1. CASE ClientRuns \/ ClientFails \/ StaysUp BY <1>1, ClientMovesInv
  <1>2. CASE OrphanTimer BY <1>2, OrphanTimerInv
  <1>3. CASE RestartTimer BY <1>3, RestartTimerInv
  <1>4. CASE ServerDies BY <1>4, ServerDiesInv
  <1>5. CASE SettingsChange BY <1>5, SettingsChangeInv
  <1>6. CASE StopEnds BY <1>6, StopEndsInv
  <1>7. CASE UNCHANGED clientVars BY <1>7 DEF ClientInv, ClientTypeOK, clientVars
  <1> QED BY <1>1, <1>2, <1>3, <1>4, <1>5, <1>6, <1>7 DEF ClientNext

\* The streak never exceeds the attempts that paid for it.
LEMMA StreakBounded == ClientInv => CrashLoopBounded
  BY PolicyAssumption DEF ClientInv, ClientTypeOK, Client, CrashLoopBounded

\* The client alone: its values stay in their sets, and a server that crashes
\* in a loop is started again at most maxAttempts times between two sessions
\* that lasted.
THEOREM ClientRestartsBounded == ClientSpec => [](ClientTypeOK /\ CrashLoopBounded)
  <1>1. ClientInv => ClientTypeOK BY DEF ClientInv
  <1> QED BY ClientInitInv, ClientStepInv, StreakBounded, <1>1, PTL DEF ClientSpec

-------------------------------------------------------------------------------
(* The session. *)

ProcessOK ==
  /\ server \in Server
  /\ client.state \in {"starting", "stopped"} => server.boot = "down"

EditorOK ==
  /\ disk \in [Files -> Texts \cup {Gone}]
  /\ buffer \in [Files -> Texts \cup {Closed}]
  /\ source \in [Files -> Sources]
  /\ hib \in {"active", "hibernating", "hibernated"}
  /\ events \in 0..MaxEvents

\* The entry a demand has found hydratable is still what it was, or it became
\* full and was demoted since.
IndexOK ==
  /\ IsIndex(ix) /\ overtaken \subseteq Texts /\ tasks \subseteq Task
  /\ \A f \in DOMAIN ix.files :
       ix.files[f].table # NoTable => Fits(ix.files[f].table, ix.files[f].text)
  /\ \A k \in tasks : (k.by = "hydrate" /\ IsHydratable(ix, k.file)) =>
       ix.files[k.file].text \in {k.text} \cup overtaken

\* Nothing is restored yet, so that nothing can be hydrated.
BootOK ==
  server.boot \in {"down", "manifest"} =>
    /\ \A f \in DOMAIN ix.files : ix.files[f].kind = "full"
    /\ \A k \in tasks : k.by # "hydrate"

SavesOK ==
  /\ DOMAIN saves \subseteq Slots
  /\ \A s \in DOMAIN saves :
       IsSave(saves[s]) /\ \A e \in saves[s].entries : Fits(e.table, e.text)

CacheOK == IsCache(cache) /\ \A e \in cache.entries : Fits(e.table, e.text)

IInv == ClientInv /\ ProcessOK /\ EditorOK /\ IndexOK /\ BootOK /\ SavesOK /\ CacheOK

-------------------------------------------------------------------------------
(* The client. *)

\* A step of a session is a step of its client, or none.
LEMMA NextIsClientStep == Next => [ClientNext]_clientVars
  <1> SUFFICES ASSUME Next PROVE [ClientNext]_clientVars
    OBVIOUS
  <1> USE DEF ClientNext, clientVars
  <1>1. CASE ServerStarts \/ ServerFails \/ ServerStays
    BY <1>1 DEF ServerStarts, ServerFails, ServerStays
  <1>2. CASE ServerCrashes \/ TimerFires \/ StopRequested \/ ServerStops
    BY <1>2 DEF ServerCrashes, TimerFires, StopRequested, ServerStops
  <1>3. CASE Upgrade \/ Hibernate \/ Pressure
    BY <1>3 DEF Upgrade, Hibernate, Pressure
  <1>4. ASSUME NEW f \in Files, NEW t \in Texts \cup {Gone}, DiskChanges(f, t)
        PROVE  UNCHANGED clientVars
    BY <1>4 DEF DiskChanges
  <1>5. ASSUME NEW s \in Slots, SaveSteps(s) \/ Deadline(s) PROVE UNCHANGED clientVars
    BY <1>5 DEF SaveSteps, SaveCollects, SaveCannotStart, SaveLists, SavePrunes, SaveKeeps,
                SaveHasPruned, SaveWrites, SaveHasWritten, SaveMarks, SaveFinishes, Deadline,
                Goes, SaveEnds
  <1>6. CASE BootSteps
    BY <1>6 DEF BootSteps, RestoresStubs, LoadsCache, ReadsCacheIndex, DeletesCache,
                RestoresEntries, RestoresNothing, RefreshReads, Refreshes, Refreshed, Booted
  <1>7. ASSUME NEW f \in Files, Open(f) \/ Close(f) \/ Request(f) \/ Scan(f)
        PROVE  UNCHANGED clientVars
    BY <1>7 DEF Open, Close, Request, Scan
  <1>8. ASSUME NEW f \in Files, NEW t \in Texts,
               Edit(f, t) \/ DemandEnds(f, t) \/ HydrateEnds(f, t) \/ ChangeEnds(f, t)
        PROVE  UNCHANGED clientVars
    BY <1>8 DEF Edit, DemandEnds, HydrateEnds, ChangeEnds
  <1> QED BY <1>1, <1>2, <1>3, <1>4, <1>5, <1>6, <1>7, <1>8 DEF Next

\* A server that crashes in a loop is started again at most maxAttempts times
\* between two sessions that lasted, whatever the server, its cache and the
\* editor do: the bound of restartPolicy.ts.
THEOREM RestartsBounded == Spec => []CrashLoopBounded
  <1>1. Init => ClientInv BY ClientInitInv DEF Init
  <1>2. ClientInv /\ [Next]_vars => ClientInv'
    <2>1. [Next]_vars => [ClientNext]_clientVars BY NextIsClientStep DEF vars, clientVars
    <2> QED BY <2>1, ClientStepInv
  <1> QED BY <1>1, <1>2, StreakBounded, PTL DEF Spec

-------------------------------------------------------------------------------
(* The process, the editor and the files. *)

LEMMA EventTyped ==
  ASSUME EditorOK, NEW kind, Event(kind)
  PROVE  events' \in 0..MaxEvents
  BY SessionAssumption DEF EditorOK, Event

\* A process runs only under a client that runs or stops.
LEMMA ProcessStep == ClientInv /\ ProcessOK /\ EditorOK /\ CacheOK /\ Next => ProcessOK'
  <1> SUFFICES ASSUME ClientInv, ProcessOK, EditorOK, CacheOK, Next PROVE ProcessOK'
    OBVIOUS
  <1>1. client \in Client /\ streak \in Nat BY DEF ClientInv, ClientTypeOK
  <1>2. /\ server \in Server
        /\ server = [boot |-> server.boot, cached |-> server.cached, reading |-> server.reading,
                     closing |-> server.closing]
        /\ server.boot \in Boots /\ Down \in Server /\ Down.boot = "down"
    BY DEF ProcessOK, Server, Down, Boots
  <1> DEFINE Same == client' = client
                     /\ server' \in Server /\ (server.boot = "down" => server'.boot = "down")
  <1>3. Same => ProcessOK' BY DEF ProcessOK
  <1>4. UNCHANGED <<client, server>> => Same BY <1>2
  <1>5. ASSUME NEW c \in {"no", "saving", "done"}, server' = [server EXCEPT !.closing = c],
               client' = client
        PROVE  Same
    <2>1. server' = [boot |-> server.boot, cached |-> server.cached, reading |-> server.reading,
                     closing |-> c]
      BY <1>2, <1>5
    <2> QED BY <1>2, <1>5, <2>1 DEF Server
  <1>6. ASSUME NEW b \in Boots, server.boot # "down", server' = [server EXCEPT !.boot = b],
               client' = client
        PROVE  Same
    <2>1. server' = [boot |-> b, cached |-> server.cached, reading |-> server.reading,
                     closing |-> server.closing]
      BY <1>2, <1>6
    <2> QED BY <1>2, <1>6, <2>1 DEF Server
  <1> HIDE DEF Same
  <1>7. CASE ServerStarts
    <2>1. server' = [boot |-> "manifest", cached |-> {}, reading |-> {}, closing |-> "no"]
      BY <1>7 DEF ServerStarts, Down
    <2>2. client'.state = "running"
      BY <1>1, <1>7 DEF ServerStarts, ClientRuns, OnRunning, Client
    <2> QED BY <2>1, <2>2 DEF ProcessOK, Server, Boots
  <1>8. CASE ServerFails
    BY <1>1, <1>8 DEF ServerFails, ClientFails, Client, ProcessOK
  <1>9. CASE ServerStays
    BY <1>1, <1>9 DEF ServerStays, StaysUp, Client, ProcessOK
  <1>10. CASE ServerCrashes \/ ServerStops
    BY <1>2, <1>10 DEF ServerCrashes, ServerStops, Gones, ProcessOK
  <1>11. CASE TimerFires
    <2>1. server' = server BY <1>11 DEF TimerFires
    <2>2. client'.state \in {"starting", "stopped"} => client.state \in {"starting", "stopped"}
      <3>1. CASE RestartTimer
        <4>1. CASE client.state = "stopped" BY <4>1
        <4>2. CASE client.state # "stopped"
          <5>1. client' = [client EXCEPT !.timers = @ - 1] BY <3>1, <4>2 DEF RestartTimer
          <5> QED BY <1>1, <5>1 DEF Client
        <4> QED BY <4>1, <4>2
      <3>2. CASE OrphanTimer
        <4>1. client' = [client EXCEPT !.orphans = @ - 1,
                                       !.state = IF @ = "stopped" THEN "starting" ELSE @]
          BY <3>2 DEF OrphanTimer
        <4> QED BY <1>1, <4>1 DEF Client
      <3> QED BY <1>11, <3>1, <3>2 DEF TimerFires
    <2> QED BY <1>2, <2>1, <2>2 DEF ProcessOK
  <1>12. CASE StopRequested
    <2>1. CASE client.state = "running"
      <3>1. client' = OnStopped(client, "stopping")
        BY <1>12, <2>1 DEF StopRequested, SettingsChange
      <3>2. client'.state = "stopping" BY <1>1, <3>1, OnStoppedCounts DEF ClientInv
      <3>3. server' \in Server
        <4>1. CASE IsUp
          <5>1. server' = [server EXCEPT !.closing = "saving"] BY <1>12, <4>1 DEF StopRequested
          <5>2. server' = [boot |-> server.boot, cached |-> server.cached,
                           reading |-> server.reading, closing |-> "saving"]
            BY <1>2, <5>1
          <5> QED BY <1>2, <5>2 DEF Server
        <4>2. CASE ~IsUp BY <1>2, <1>12, <4>2 DEF StopRequested
        <4> QED BY <4>1, <4>2
      <3> QED BY <3>2, <3>3 DEF ProcessOK
    <2>2. CASE client.state = "stopped"
      <3>1. server.boot = "down" BY <2>2 DEF ProcessOK
      <3>2. server' = server BY <1>12, <3>1 DEF StopRequested, IsUp
      <3> QED BY <1>2, <3>1, <3>2 DEF ProcessOK
    <2> QED BY <1>12, <2>1, <2>2 DEF StopRequested, SettingsChange
  <1>13. CASE Upgrade \/ Hibernate \/ Pressure
    BY <1>3, <1>4, <1>13 DEF Upgrade, Hibernate, Pressure, clientVars
  <1>14. ASSUME NEW f \in Files, NEW t \in Texts \cup {Gone}, DiskChanges(f, t)
         PROVE  ProcessOK'
    BY <1>3, <1>4, <1>14 DEF DiskChanges, clientVars
  <1>15. ASSUME NEW s \in Slots, SaveSteps(s) \/ Deadline(s) PROVE ProcessOK'
    <2>1. CASE Deadline(s) \/ SaveEnds(s)
      <3>1. client' = client
            /\ server' \in {server, [server EXCEPT !.closing = "done"]}
        BY <2>1 DEF Deadline, SaveEnds, Resumed, clientVars
      <3> QED BY <1>3, <1>4, <1>5, <3>1
    <2>2. CASE \E save : Goes(s, save) BY <1>3, <1>4, <2>2 DEF Goes, clientVars
    <2> QED BY <1>15, <2>1, <2>2
          DEF SaveSteps, SaveCollects, SaveCannotStart, SaveLists, SavePrunes, SaveKeeps,
              SaveHasPruned, SaveWrites, SaveHasWritten, SaveMarks, SaveFinishes
  <1>16. CASE \/ RestoresStubs \/ LoadsCache \/ ReadsCacheIndex \/ DeletesCache
              \/ RestoresNothing \/ Refreshed
    <2>1. PICK b \in Boots : server' = [server EXCEPT !.boot = b]
      BY <1>16 DEF RestoresStubs, LoadsCache, ReadsCacheIndex, DeletesCache, RestoresNothing,
                   Refreshed, Booted, Boots, LoadEnds
    <2>2. client' = client /\ server.boot # "down"
      BY <1>16 DEF RestoresStubs, LoadsCache, ReadsCacheIndex, DeletesCache, RestoresNothing,
                   Refreshed, Booted, clientVars
    <2> QED BY <1>3, <1>6, <2>1, <2>2
  <1>17. CASE RestoresEntries
    <2>1. PICK loaded \in Loads(cache) :
            server' = [server EXCEPT !.boot = "refresh",
                         !.cached = {[uri |-> e.uri, text |-> e.text] : e \in loaded}]
      BY <1>17 DEF RestoresEntries
    <2> DEFINE seen == {[uri |-> e.uri, text |-> e.text] : e \in loaded}
    <2>2. \A e \in loaded : e \in Cached BY DEF Loads, CacheOK, IsCache
    <2>3. seen \subseteq [uri : Files, text : Texts] BY <2>2 DEF Cached
    <2>4. client' = client /\ server.boot # "down" BY <1>17 DEF RestoresEntries, clientVars
    <2> HIDE DEF seen
    <2>5. server' = [boot |-> "refresh", cached |-> seen, reading |-> server.reading,
                     closing |-> server.closing]
      BY <1>2, <2>1 DEF seen
    <2> QED BY <1>2, <1>3, <2>3, <2>4, <2>5 DEF Server, Boots, Same
  <1>18. CASE RefreshReads \/ Refreshes
    <2>1. ASSUME NEW C, NEW R, C \subseteq [uri : Files, text : Texts],
                 R \subseteq [uri : Files, text : Texts],
                 server' = [boot |-> server.boot, cached |-> C, reading |-> R,
                            closing |-> server.closing]
          PROVE  server' \in Server /\ server'.boot = server.boot
      BY <1>2, <2>1 DEF Server
    <2>2. server.cached \subseteq [uri : Files, text : Texts]
          /\ server.reading \subseteq [uri : Files, text : Texts]
      BY <1>2 DEF Server
    <2>3. server' \in Server /\ server'.boot = server.boot
      <3>1. CASE RefreshReads
        <4>1. PICK e \in server.cached :
                server' = [server EXCEPT !.cached = @ \ {e},
                  !.reading = IF IsStaleOnDisk(e) THEN {[uri |-> e.uri, text |-> disk[e.uri]]}
                              ELSE {}]
          BY <3>1 DEF RefreshReads
        <4> DEFINE R == IF IsStaleOnDisk(e) THEN {[uri |-> e.uri, text |-> disk[e.uri]]} ELSE {}
        <4>2. IsStaleOnDisk(e) => disk[e.uri] \in Texts
          BY <2>2 DEF IsStaleOnDisk, EditorOK
        <4>3. R \subseteq [uri : Files, text : Texts] BY <2>2, <4>2
        <4> HIDE DEF R
        <4>4. server' = [server EXCEPT !.cached = @ \ {e}, !.reading = R] BY <4>1 DEF R
        <4>5. server' = [boot |-> server.boot, cached |-> server.cached \ {e}, reading |-> R,
                         closing |-> server.closing]
          BY <1>2, <4>4
        <4>6. server.cached \ {e} \subseteq [uri : Files, text : Texts] BY <2>2
        <4> QED BY <2>1, <4>3, <4>5, <4>6
      <3>2. CASE Refreshes
        <4>1. server' = [boot |-> server.boot, cached |-> server.cached, reading |-> {},
                         closing |-> server.closing]
          BY <1>2, <3>2 DEF Refreshes
        <4>2. {} \subseteq [uri : Files, text : Texts] OBVIOUS
        <4> QED BY <2>1, <2>2, <4>1, <4>2
      <3> QED BY <1>18, <3>1, <3>2
    <2>4. client' = client BY <1>18 DEF RefreshReads, Refreshes, clientVars
    <2> QED BY <1>3, <2>3, <2>4 DEF Same
  <1>19. ASSUME NEW f \in Files, Open(f) \/ Close(f) \/ Request(f) \/ Scan(f)
         PROVE  ProcessOK'
    BY <1>3, <1>4, <1>19 DEF Open, Close, Request, Scan, clientVars
  <1>20. ASSUME NEW f \in Files, NEW t \in Texts,
                Edit(f, t) \/ DemandEnds(f, t) \/ HydrateEnds(f, t) \/ ChangeEnds(f, t)
         PROVE  ProcessOK'
    BY <1>3, <1>4, <1>20 DEF Edit, DemandEnds, HydrateEnds, ChangeEnds, clientVars
  <1> QED
    BY <1>7, <1>8, <1>9, <1>10, <1>11, <1>12, <1>13, <1>14, <1>15, <1>16, <1>17, <1>18,
       <1>19, <1>20 DEF Next, BootSteps

\* What the editor and the files hold, and who last modified an entry.
LEMMA EditorStep == EditorOK /\ CacheOK /\ Next => EditorOK'
  <1> SUFFICES ASSUME EditorOK, CacheOK, Next PROVE EditorOK'
    OBVIOUS
  <1> DEFINE Typed == /\ disk' \in [Files -> Texts \cup {Gone}]
                      /\ buffer' \in [Files -> Texts \cup {Closed}]
                      /\ source' \in [Files -> Sources]
                      /\ hib' \in {"active", "hibernating", "hibernated"}
  <1>1. events' \in 0..MaxEvents
    <2>1. (\E kind : Event(kind)) \/ events' = events
      BY DEF Next, ServerStarts, ServerFails, ServerCrashes, ServerStays, TimerFires,
             StopRequested, ServerStops, Upgrade, DiskChanges, SaveSteps, SaveCollects,
             SaveCannotStart, SaveLists, SavePrunes, SaveKeeps, SaveHasPruned, SaveWrites,
             SaveHasWritten, SaveMarks, SaveFinishes, Fails, Deadline, Hibernate, BootSteps,
             RestoresStubs, LoadsCache, ReadsCacheIndex, DeletesCache, RestoresEntries,
             RestoresNothing, RefreshReads, Refreshes, Refreshed, Booted, Open, Close, Request, Scan, Edit, DemandEnds,
             HydrateEnds, ChangeEnds, Pressure
    <2> QED BY <2>1, EventTyped DEF EditorOK
  <1>2. Typed => EditorOK' BY <1>1 DEF EditorOK
  <1>3. UNCHANGED <<disk, buffer, source, hib>> => Typed BY DEF EditorOK
  <1>4. Unindexed \in [Files -> Sources] BY DEF Unindexed, Sources
  <1>5. CASE ServerStarts \/ ServerFails \/ ServerStays \/ TimerFires \/ StopRequested \/ Upgrade
             \/ Hibernate \/ Pressure
    BY <1>2, <1>3, <1>5
       DEF ServerStarts, ServerFails, ServerStays, TimerFires, StopRequested, Upgrade, Hibernate,
           Pressure, indexVars, EditorOK
  <1>6. CASE ServerCrashes \/ ServerStops
    BY <1>1, <1>4, <1>6 DEF ServerCrashes, ServerStops, Gones, EditorOK
  <1>7. ASSUME NEW f \in Files, NEW t \in Texts \cup {Gone}, DiskChanges(f, t)
        PROVE  EditorOK'
    BY <1>1, <1>7 DEF DiskChanges, indexVars, EditorOK
  <1>8. ASSUME NEW s \in Slots, SaveSteps(s) \/ Deadline(s) PROVE EditorOK'
    <2>1. CASE Deadline(s) \/ SaveEnds(s)
      BY <1>1, <1>4, <2>1 DEF Deadline, SaveEnds, Resumed, EditorOK
    <2>2. CASE \E save : Goes(s, save) BY <1>2, <1>3, <2>2 DEF Goes, indexVars
    <2> QED BY <1>8, <2>1, <2>2
          DEF SaveSteps, SaveCollects, SaveCannotStart, SaveLists, SavePrunes, SaveKeeps,
              SaveHasPruned, SaveWrites, SaveHasWritten, SaveMarks, SaveFinishes
  <1>9. CASE \/ RestoresStubs \/ LoadsCache \/ ReadsCacheIndex \/ DeletesCache
             \/ RestoresNothing \/ RefreshReads \/ Refreshed
    BY <1>2, <1>3, <1>9
       DEF RestoresStubs, LoadsCache, ReadsCacheIndex, DeletesCache, RestoresNothing,
           RefreshReads, Refreshed, Booted, indexVars
  <1>10. CASE RestoresEntries BY <1>1, <1>10 DEF RestoresEntries, EditorOK, Sources
  <1>11. CASE Refreshes BY <1>1, <1>11 DEF Refreshes, EditorOK, Sources
  <1>12. ASSUME NEW f \in Files, Open(f) \/ Close(f) PROVE EditorOK'
    BY <1>1, <1>12 DEF Open, Close, EditorOK, Sources
  <1>13. ASSUME NEW f \in Files, Request(f) \/ Scan(f) PROVE EditorOK'
    BY <1>1, <1>13 DEF Request, Scan, EditorOK, Sources, indexVars
  <1>14. ASSUME NEW f \in Files, NEW t \in Texts,
                Edit(f, t) \/ DemandEnds(f, t) \/ HydrateEnds(f, t) \/ ChangeEnds(f, t)
         PROVE  EditorOK'
    BY <1>1, <1>14 DEF Edit, DemandEnds, HydrateEnds, ChangeEnds, EditorOK, Sources, indexVars
  <1> QED
    BY <1>5, <1>6, <1>7, <1>8, <1>9, <1>10, <1>11, <1>12, <1>13, <1>14 DEF Next, BootSteps

-------------------------------------------------------------------------------
(* The index and the upserts. *)

\* Entries that are built or lose their tables, while no demand turns to the
\* cache, in a process that restores nothing: all is well as before.
LEMMA MovesStep ==
  ASSUME IndexOK, BootOK, Moves(ix, ix'), overtaken' = overtaken,
         tasks' \subseteq Task, \A k \in tasks' : k \in tasks \/ k.by # "hydrate",
         \/ server'.boot \notin {"down", "manifest"}
         \/ server.boot \in {"down", "manifest"}
         \/ DOMAIN ix'.files = {} /\ \A k \in tasks' : k.by # "hydrate"
  PROVE  IndexOK' /\ BootOK'
  <1>1. IsIndex(ix') BY DEF Moves
  <1>2. ASSUME NEW g \in DOMAIN ix'.files PROVE Kept(ix, ix', g) \/ Built(ix', g)
    BY DEF Moves
  <1>3. ASSUME NEW f \in DOMAIN ix'.files, ix'.files[f].table # NoTable
        PROVE  IsOf(ix'.files[f].table, ix'.files[f].text) \/ ix'.files[f].text \in overtaken'
    <2>1. CASE Kept(ix, ix', f) BY <1>3, <2>1 DEF Kept, IndexOK, Fits, IsOf, NoTable
    <2>2. CASE Built(ix', f)
      <3>1. f \in Files BY <1>1 DEF IsIndex
      <3> QED BY <1>3, <2>2, <3>1 DEF Built, IsOf
    <2> QED BY <1>2, <2>1, <2>2
  <1>4. ASSUME NEW k \in tasks', k.by = "hydrate", IsHydratable(ix', k.file)
        PROVE  ix'.files[k.file].text \in {k.text} \cup overtaken'
    <2>1. k \in tasks BY <1>4
    <2>2. k.file \in DOMAIN ix'.files /\ ix'.files[k.file].kind # "full"
      BY <1>4 DEF IsHydratable, Has
    <2>3. Kept(ix, ix', k.file) BY <1>2, <2>2 DEF Built
    <2>4. IsHydratable(ix, k.file) BY <1>4, <2>3 DEF Kept, IsHydratable, Has
    <2> QED BY <1>4, <2>1, <2>3, <2>4 DEF Kept, IndexOK
  <1>5. IndexOK' BY <1>1, <1>3, <1>4 DEF IndexOK, Fits
  <1>6. BootOK'
    <2>1. ASSUME server'.boot \in {"down", "manifest"}, server.boot \in {"down", "manifest"}
          PROVE  /\ \A f \in DOMAIN ix'.files : ix'.files[f].kind = "full"
                 /\ \A k \in tasks' : k.by # "hydrate"
      BY <1>2, <2>1 DEF BootOK, Kept, Built
    <2> QED BY <2>1 DEF BootOK
  <1> QED BY <1>5, <1>6

LEMMA SameIndexMoves ==
  ASSUME IndexOK, ix' \in {ix, EmptyIndex}
  PROVE  Moves(ix, ix')
  <1>1. CASE ix' = ix BY <1>1 DEF IndexOK, Moves, Kept
  <1>2. CASE ix' = EmptyIndex BY <1>2, EmptyIndexTyped DEF Moves
  <1> QED BY <1>1, <1>2

\* The process starts, goes, closes, or changes nothing the index depends on.
LEMMA ProcessIndexStep ==
  ASSUME IInv, \/ ServerStarts \/ ServerFails \/ ServerCrashes \/ ServerStays \/ TimerFires
               \/ StopRequested \/ ServerStops \/ Upgrade \/ Hibernate
               \/ \E f \in Files, t \in Texts \cup {Gone} : DiskChanges(f, t)
  PROVE  IndexOK' /\ BootOK'
  <1>1. IndexOK /\ BootOK /\ tasks \subseteq Task /\ EmptyIndex = EmptyIndex
    BY DEF IInv, IndexOK
  <1>2. CASE ServerStarts
    <2>1. tasks' = {[by |-> "didChange", file |-> f, text |-> buffer[f]] : f \in Opened}
          /\ ix' = ix /\ overtaken' = overtaken
      BY <1>2 DEF ServerStarts, indexVars
    <2>2. \A k \in tasks' : k \in Task /\ k.by # "hydrate"
      BY <2>1 DEF Task, Opened, IsOpen, IInv, EditorOK
    <2>3. server.boot = "down"
      BY <1>2 DEF ServerStarts, ClientRuns, IInv, ProcessOK
    <2> QED BY <1>1, <2>1, <2>2, <2>3, SameIndexMoves, MovesStep
  <1>3. CASE ServerCrashes \/ ServerStops
    <2>1. ix' = EmptyIndex /\ tasks' = {} /\ overtaken' = overtaken
      BY <1>3 DEF ServerCrashes, ServerStops, Gones
    <2> QED BY <1>1, <2>1, EmptyIndexTyped, SameIndexMoves, MovesStep
  <1>4. CASE StopRequested
    <2>1. ix' = ix /\ tasks' = tasks /\ overtaken' = overtaken
      BY <1>4 DEF StopRequested, indexVars
    <2>2. server' = server \/ server' = [server EXCEPT !.closing = "saving"]
      BY <1>4 DEF StopRequested
    <2>3. server'.boot = server.boot BY <2>2 DEF IInv, ProcessOK, Server
    <2> QED BY <1>1, <2>1, <2>3, SameIndexMoves, MovesStep
  <1>5. CASE \/ ServerFails \/ ServerStays \/ TimerFires \/ Upgrade \/ Hibernate
             \/ \E f \in Files, t \in Texts \cup {Gone} : DiskChanges(f, t)
    <2>1. ix' = ix /\ tasks' = tasks /\ overtaken' = overtaken /\ server' = server
      BY <1>5 DEF ServerFails, ServerStays, TimerFires, Upgrade, Hibernate, DiskChanges, indexVars
    <2> QED BY <1>1, <2>1, SameIndexMoves, MovesStep
  <1> QED BY <1>2, <1>3, <1>4, <1>5

\* A save leaves the index alone, or whoever waited for it clears the index.
LEMMA SaveIndexStep ==
  ASSUME IInv, NEW s \in Slots, SaveSteps(s) \/ Deadline(s)
  PROVE  IndexOK' /\ BootOK'
  <1>1. IndexOK /\ BootOK /\ tasks \subseteq Task BY DEF IInv, IndexOK
  <1>2. tasks' = tasks /\ overtaken' = overtaken /\ ix' \in {ix, EmptyIndex}
        /\ server' \in {server, [server EXCEPT !.closing = "done"]}
    <2>1. CASE Deadline(s) \/ SaveEnds(s) BY <2>1 DEF Deadline, SaveEnds, Resumed
    <2>2. CASE \E save : Goes(s, save) BY <2>2 DEF Goes, indexVars
    <2> QED BY <2>1, <2>2
          DEF SaveSteps, SaveCollects, SaveCannotStart, SaveLists, SavePrunes, SaveKeeps,
              SaveHasPruned, SaveWrites, SaveHasWritten, SaveMarks, SaveFinishes
  <1>3. server'.boot = server.boot BY <1>2 DEF IInv, ProcessOK, Server
  <1> QED BY <1>1, <1>2, <1>3, SameIndexMoves, MovesStep

\* What the editor does to documents, the end of an upsert and of a scanned file.
LEMMA DocumentIndexStep ==
  ASSUME IInv, NEW f \in Files,
         \/ Open(f) \/ Close(f) \/ Request(f) \/ Scan(f)
         \/ \E t \in Texts : Edit(f, t) \/ ChangeEnds(f, t)
  PROVE  IndexOK' /\ BootOK'
  <1>1. IndexOK /\ BootOK /\ IsIndex(ix) /\ tasks \subseteq Task
        /\ disk \in [Files -> Texts \cup {Gone}]
    BY DEF IInv, IndexOK, EditorOK
  <1>2. ASSUME overtaken' = overtaken, server' = server, Moves(ix, ix'), NEW k,
               tasks' \subseteq tasks \cup {k}, k \in Task /\ k.by # "hydrate"
        PROVE  IndexOK' /\ BootOK'
    BY <1>1, <1>2, MovesStep
  <1>3. ASSUME overtaken' = overtaken, server' = server, Moves(ix, ix'), tasks' \subseteq tasks
        PROVE  IndexOK' /\ BootOK'
    BY <1>1, <1>3, MovesStep
  <1>4. CASE Open(f)
    <2>1. CASE IsUp
      <3>1. Moves(ix, ix') BY <1>1, <1>4, <2>1, InvalidateWithDependentsMoves DEF Open
      <3> DEFINE k == [by |-> "didChange", file |-> f, text |-> disk[f]]
      <3>2. k \in Task /\ k.by # "hydrate" BY <1>1, <1>4 DEF Open, Task
      <3>3. tasks' = tasks \cup {k} /\ overtaken' = overtaken /\ server' = server
        BY <1>4, <2>1 DEF Open
      <3> HIDE DEF k
      <3> QED BY <1>2, <3>1, <3>2, <3>3
    <2>2. CASE ~IsUp BY <1>1, <1>3, <1>4, <2>2, SameIndexMoves DEF Open
    <2> QED BY <2>1, <2>2
  <1>5. CASE Close(f)
    <2>1. Moves(ix, ix') BY <1>1, <1>5, RemoveFileMoves DEF Close
    <2> QED BY <1>3, <1>5, <2>1 DEF Close
  <1>6. CASE Request(f)
    <2>1. Moves(ix, ix') /\ overtaken' = overtaken /\ server' = server
      BY <1>1, <1>6, SameIndexMoves DEF Request, indexVars
    <2>2. CASE disk[f] # Gone
      <3> DEFINE k == [by |-> "demand", file |-> f, text |-> disk[f]]
      <3>1. k \in Task /\ k.by # "hydrate" BY <1>1, <2>2 DEF Task
      <3>2. tasks' \subseteq tasks \cup {k} BY <1>6 DEF Request
      <3> HIDE DEF k
      <3> QED BY <1>2, <2>1, <3>1, <3>2
    <2>3. CASE disk[f] = Gone BY <1>3, <1>6, <2>1, <2>3 DEF Request
    <2> QED BY <2>2, <2>3
  <1>7. CASE Scan(f)
    <2>1. PICK warm \in SUBSET Imports[<<f, disk[f]>>] :
            ix' = RewireDependents(UpsertBackgroundFile(ix, f, 0, disk[f], warm), f)
      BY <1>7 DEF Scan
    <2> DEFINE j == UpsertBackgroundFile(ix, f, 0, disk[f], warm)
    <2>2. disk[f] \in Texts BY <1>1, <1>7 DEF Scan
    <2>3. Moves(ix, j) BY <1>1, <2>2, UpsertBackgroundFileMoves
    <2>4. ix' = RewireDependents(j, f) BY <2>1
    <2> HIDE DEF j
    <2>5. Moves(j, ix') BY <2>3, <2>4, RewireDependentsMoves DEF Moves
    <2> QED BY <1>3, <1>7, <2>3, <2>5, MovesTrans DEF Scan
  <1>8. ASSUME NEW t \in Texts, Edit(f, t) PROVE IndexOK' /\ BootOK'
    <2>1. Moves(ix, ix') BY <1>1, <1>8, InvalidateWithDependentsMoves DEF Edit
    <2> DEFINE k == [by |-> "didChange", file |-> f, text |-> t]
    <2>2. k \in Task /\ k.by # "hydrate" BY DEF Task
    <2>3. tasks' = tasks \cup {k} /\ overtaken' = overtaken /\ server' = server
      BY <1>8 DEF Edit
    <2> HIDE DEF k
    <2> QED BY <1>2, <2>1, <2>2, <2>3
  <1>9. ASSUME NEW t \in Texts, ChangeEnds(f, t) PROVE IndexOK' /\ BootOK'
    <2> DEFINE j == Upserted(f, t)
    <2>1. Moves(ix, j) BY <1>1, UpsertMoves DEF Upserted
    <2>2. ix' = RewireDependents(j, f) BY <1>9 DEF ChangeEnds
    <2> HIDE DEF j
    <2>3. Moves(j, ix') BY <2>1, <2>2, RewireDependentsMoves DEF Moves
    <2> QED BY <1>3, <1>9, <2>1, <2>3, MovesTrans DEF ChangeEnds
  <1> QED BY <1>4, <1>5, <1>6, <1>7, <1>8, <1>9

\* What is restored was filed under its text, and only after it is there does
\* a demand look for something to hydrate.
LEMMA BootIndexStep ==
  ASSUME IInv, BootSteps
  PROVE  IndexOK' /\ BootOK'
  <1>1. /\ IndexOK /\ BootOK /\ CacheOK /\ IsIndex(ix) /\ tasks \subseteq Task
        /\ server \in Server /\ disk \in [Files -> Texts \cup {Gone}]
        /\ server.reading \subseteq [uri : Files, text : Texts]
    BY DEF IInv, IndexOK, ProcessOK, EditorOK, Server
  <1>2. ASSUME NEW b, server' = [server EXCEPT !.boot = b] PROVE server'.boot = b
    BY <1>1, <1>2 DEF Server
  <1>3. CASE RestoresStubs
    <2>1. /\ ix' = RestoreStubs(ix, cache.manifest) /\ tasks' = tasks /\ overtaken' = overtaken
          /\ server.boot = "manifest" /\ server' = [server EXCEPT !.boot = "done"]
      BY <1>3 DEF RestoresStubs, Booted
    <2>2. \A r \in cache.manifest : r \in Record BY <1>1 DEF CacheOK, IsCache
    <2>3. /\ IsIndex(ix')
          /\ \A g \in DOMAIN ix'.files :
               Kept(ix, ix', g) \/ (ix'.files[g].kind = "stub" /\ ix'.files[g].table = NoTable)
      BY <1>1, <2>1, <2>2, RestoreStubsTyped
    <2>4. \A f \in DOMAIN ix'.files : ix'.files[f].table # NoTable =>
            IsOf(ix'.files[f].table, ix'.files[f].text) \/ ix'.files[f].text \in overtaken'
      BY <1>1, <2>1, <2>3 DEF Kept, IndexOK, Fits
    <2>5. \A k \in tasks' : k.by # "hydrate" BY <1>1, <2>1 DEF BootOK
    <2>6. IndexOK' BY <1>1, <2>1, <2>3, <2>4, <2>5 DEF IndexOK, Fits
    <2>7. BootOK' BY <1>2, <2>1 DEF BootOK
    <2> QED BY <2>6, <2>7
  <1>4. CASE LoadsCache \/ ReadsCacheIndex \/ DeletesCache \/ RestoresNothing \/ Refreshed
    <2>1. /\ ix' = ix /\ tasks' = tasks /\ overtaken' = overtaken
          /\ \E b \in {"index", "delete", "entries", "done", "degraded"} :
               server' = [server EXCEPT !.boot = b]
      BY <1>4 DEF LoadsCache, ReadsCacheIndex, DeletesCache, RestoresNothing, Refreshed, Booted,
                  LoadEnds, indexVars
    <2>2. server'.boot \notin {"down", "manifest"} BY <1>2, <2>1
    <2> QED BY <1>1, <2>1, <2>2, SameIndexMoves, MovesStep
  <1>5. CASE RestoresEntries
    <2>1. PICK loaded \in Loads(cache) :
            /\ ix' = RestoreCachedEntries(ix, loaded)
            /\ server' = [server EXCEPT !.boot = "refresh",
                            !.cached = {[uri |-> e.uri, text |-> e.text] : e \in loaded}]
      BY <1>5 DEF RestoresEntries
    <2>2. tasks' = tasks /\ overtaken' = overtaken /\ server.boot = "entries"
      BY <1>5 DEF RestoresEntries
    <2>3. \A e \in loaded : e \in Cached /\ e \in cache.entries
      BY <1>1 DEF Loads, CacheOK, IsCache
    <2>4. /\ IsIndex(ix')
          /\ \A g \in DOMAIN ix'.files :
               \/ Kept(ix, ix', g)
               \/ /\ ix'.files[g].kind = "full"
                  /\ \E e \in loaded : ix'.files[g].table = e.table /\ ix'.files[g].text = e.text
      BY <1>1, <2>1, <2>3, RestoreCachedEntriesTyped
    <2>5. \A f \in DOMAIN ix'.files : ix'.files[f].table # NoTable =>
            IsOf(ix'.files[f].table, ix'.files[f].text) \/ ix'.files[f].text \in overtaken'
      BY <1>1, <2>2, <2>3, <2>4 DEF Kept, IndexOK, CacheOK, Fits
    <2>6. ASSUME NEW k \in tasks', k.by = "hydrate", IsHydratable(ix', k.file)
          PROVE  ix'.files[k.file].text \in {k.text} \cup overtaken'
      <3>1. Kept(ix, ix', k.file) BY <2>4, <2>6 DEF IsHydratable, Has
      <3>2. IsHydratable(ix, k.file) BY <2>6, <3>1 DEF Kept, IsHydratable, Has
      <3> QED BY <1>1, <2>2, <2>6, <3>1, <3>2 DEF Kept, IndexOK
    <2>7. IndexOK' BY <1>1, <2>2, <2>4, <2>5, <2>6 DEF IndexOK, Fits
    <2>8. server'.boot = "refresh" BY <1>1, <2>1 DEF Server
    <2> QED BY <2>7, <2>8 DEF BootOK
  <1>6. CASE Refreshes
    <2>1. tasks' = tasks /\ overtaken' = overtaken /\ server' = [server EXCEPT !.reading = {}]
      BY <1>6 DEF Refreshes
    <2>2. PICK e \in server.reading :
            \E warm : ix' = UpsertBackgroundFile(InvalidateWithDependents(ix, e.uri),
                                                e.uri, 0, e.text, warm)
      BY <1>6 DEF Refreshes
    <2>3. server'.boot = server.boot BY <1>1, <2>1 DEF Server
    <2>4. Moves(ix, ix')
      <3>1. e.uri \in Files /\ e.text \in Texts BY <1>1
      <3> DEFINE j == InvalidateWithDependents(ix, e.uri)
      <3>2. Moves(ix, j) BY <1>1, InvalidateWithDependentsMoves
      <3>3. \E warm : ix' = UpsertBackgroundFile(j, e.uri, 0, e.text, warm) BY <2>2
      <3> HIDE DEF j
      <3>4. Moves(j, ix') BY <3>1, <3>2, <3>3, UpsertBackgroundFileMoves DEF Moves
      <3> QED BY <3>2, <3>4, MovesTrans
    <2> QED BY <1>1, <2>1, <2>3, <2>4, MovesStep
  <1>7. CASE RefreshReads
    <2>1. ix' = ix /\ tasks' = tasks /\ overtaken' = overtaken
      BY <1>7 DEF RefreshReads, indexVars
    <2>2. server'.boot = server.boot BY <1>1, <1>7 DEF RefreshReads, Server
    <2> QED BY <1>1, <2>1, <2>2, SameIndexMoves, MovesStep
  <1> QED BY <1>3, <1>4, <1>5, <1>6, <1>7 DEF BootSteps

\* A demand that has read its file.
LEMMA DemandIndexStep ==
  ASSUME IInv, NEW f \in Files, NEW t \in Texts, DemandEnds(f, t)
  PROVE  IndexOK' /\ BootOK'
  <1> DEFINE task == [by |-> "demand", file |-> f, text |-> t]
  <1>1. IndexOK /\ BootOK /\ IsIndex(ix) /\ tasks \subseteq Task BY DEF IInv, IndexOK
  <1>2. overtaken' = overtaken /\ server' = server BY DEF DemandEnds
  <1>3. CASE CanHydrate(cache, ix, f, t)
    <2> DEFINE k == [by |-> "hydrate", file |-> f, text |-> ix.files[f].text]
    <2>1. /\ IsHydratable(ix, f) /\ f \in DOMAIN ix.files /\ ix.files[f].kind # "full"
          /\ ix.files[f].text \in Texts
      BY <1>1, <1>3 DEF CanHydrate, IsHydratable, Has, IsIndex, Entry
    <2>2. tasks' = (tasks \ {task}) \cup {k} /\ ix' = ix
      BY <1>3 DEF DemandEnds, indexVars
    <2>3. k \in Task /\ k.file = f /\ k.text = ix.files[f].text BY <2>1 DEF Task
    <2> HIDE DEF k
    <2>4. IndexOK' BY <1>1, <1>2, <2>2, <2>3 DEF IndexOK, Fits
    <2>5. BootOK' BY <1>1, <1>2, <2>1, <2>2 DEF BootOK
    <2> QED BY <2>4, <2>5
  <1>4. CASE ~CanHydrate(cache, ix, f, t)
    <2>1. tasks' = tasks \ {task} /\ ix' = Upserted(f, t) BY <1>4 DEF DemandEnds
    <2>2. Moves(ix, ix') BY <1>1, <2>1, UpsertMoves DEF Upserted
    <2> HIDE DEF task
    <2> QED BY <1>1, <1>2, <2>1, <2>2, MovesStep
  <1> QED BY <1>3, <1>4

\* One that has read a file of the cache: what it installs was filed under the
\* text it asked for, which is that of the entry, or the entry was overtaken.
LEMMA HydrateIndexStep ==
  ASSUME IInv, NEW f \in Files, NEW t \in Texts, HydrateEnds(f, t)
  PROVE  IndexOK' /\ BootOK'
  <1> DEFINE task == [by |-> "hydrate", file |-> f, text |-> t]
  <1>1. IndexOK /\ BootOK /\ CacheOK /\ IsIndex(ix) /\ tasks \subseteq Task
    BY DEF IInv, IndexOK
  <1>2. /\ overtaken' = overtaken /\ server' = server
        /\ task \in tasks /\ tasks' = tasks \ {task}
    BY DEF HydrateEnds
  <1>3. task.by = "hydrate" /\ task.file = f /\ task.text = t OBVIOUS
  <1>4. CASE IsHydratable(ix, f) /\ t \in Hashes(cache.entries)
    <2> DEFINE e == CHOOSE o \in cache.entries : o.text = t
    <2>1. e \in cache.entries /\ e.text = t BY <1>4 DEF Hashes
    <2>2. ix' = HydrateStub(ix, f, e.table) BY <1>4 DEF HydrateEnds, Hydrated
    <2> HIDE DEF e, task
    <2>3. e.table \in Tables /\ (IsOf(e.table, t) \/ t \in overtaken)
      BY <1>1, <2>1 DEF CacheOK, IsCache, Cached, Fits
    <2>4. /\ IsIndex(ix') /\ DOMAIN ix'.files = DOMAIN ix.files
          /\ ix'.files[f].table = e.table /\ ix'.files[f].text = ix.files[f].text
          /\ ix'.files[f].kind = "full"
          /\ \A g \in DOMAIN ix.files : g # f => ix'.files[g] = ix.files[g]
      BY <1>1, <1>4, <2>2, <2>3, HydrateStubTyped
    <2>5. ix.files[f].text \in {t} \cup overtaken BY <1>1, <1>2, <1>3, <1>4 DEF IndexOK
    <2>6. \A g \in DOMAIN ix'.files : ix'.files[g].table # NoTable =>
            IsOf(ix'.files[g].table, ix'.files[g].text) \/ ix'.files[g].text \in overtaken'
      BY <1>1, <1>2, <2>3, <2>4, <2>5 DEF IndexOK, Fits
    <2>7. ASSUME NEW k \in tasks', k.by = "hydrate", IsHydratable(ix', k.file)
          PROVE  ix'.files[k.file].text \in {k.text} \cup overtaken'
      <3>1. k \in tasks /\ k.file # f BY <1>2, <2>4, <2>7 DEF IsHydratable, Has
      <3>2. IsHydratable(ix, k.file) /\ ix'.files[k.file] = ix.files[k.file]
        BY <2>4, <2>7, <3>1 DEF IsHydratable, Has
      <3> QED BY <1>1, <1>2, <2>7, <3>1, <3>2 DEF IndexOK
    <2>8. IndexOK' BY <1>1, <1>2, <2>4, <2>6, <2>7 DEF IndexOK, Fits
    <2>9. BootOK' BY <1>1, <1>2, <2>4 DEF BootOK
    <2> QED BY <2>8, <2>9
  <1>5. CASE ~(IsHydratable(ix, f) /\ t \in Hashes(cache.entries))
    <2>1. ix' = Upserted(f, t) BY <1>5 DEF HydrateEnds
    <2>2. Moves(ix, ix') BY <1>1, <2>1, UpsertMoves DEF Upserted
    <2> HIDE DEF task
    <2> QED BY <1>1, <1>2, <2>2, MovesStep
  <1> QED BY <1>4, <1>5

\* Demotion turns full entries into hydratable ones; a demand under way for one
\* of them is overtaken.
LEMMA PressureIndexStep ==
  ASSUME IInv, Pressure
  PROVE  IndexOK' /\ BootOK'
  <1> DEFINE hit == {k \in tasks : k.by = "hydrate" /\ Has(ix, k.file)
                                   /\ ix.files[k.file].kind = "full"}
             more == {ix.files[k.file].text : k \in hit}
  <1>1. IndexOK /\ IsIndex(ix) /\ tasks \subseteq Task /\ overtaken \subseteq Texts
    BY DEF IInv, IndexOK
  <1>2. /\ ix' = DemoteNonEssentialEntries(ix, Opened) /\ overtaken' = overtaken \cup more
        /\ tasks' = tasks /\ server' = server /\ server.boot \notin {"down", "manifest"}
    BY DEF Pressure
  <1>3. /\ IsIndex(ix') /\ DOMAIN ix'.files = DOMAIN ix.files
        /\ \A g \in DOMAIN ix.files :
             /\ ix'.files[g].text = ix.files[g].text
             /\ ix'.files[g].table \in {NoTable, ix.files[g].table}
             /\ \/ ix'.files[g].kind = ix.files[g].kind
                \/ ix.files[g].kind = "full" /\ ix'.files[g].kind = "demoted"
    BY <1>1, <1>2, DemoteTyped
  <1>4. more \subseteq Texts BY <1>1 DEF Has, IsIndex, Entry
  <1>5. \A g \in DOMAIN ix'.files : ix'.files[g].table # NoTable =>
          IsOf(ix'.files[g].table, ix'.files[g].text) \/ ix'.files[g].text \in overtaken'
    BY <1>1, <1>2, <1>3 DEF IndexOK, Fits
  <1>6. ASSUME NEW k \in tasks', k.by = "hydrate", IsHydratable(ix', k.file)
        PROVE  ix'.files[k.file].text \in {k.text} \cup overtaken'
    <2>1. k \in tasks /\ k.file \in DOMAIN ix.files
      BY <1>2, <1>3, <1>6 DEF IsHydratable, Has
    <2>2. CASE ix.files[k.file].kind = "full"
      <3>1. k \in hit BY <1>6, <2>1, <2>2 DEF Has
      <3>2. ix.files[k.file].text \in more BY <3>1
      <3> HIDE DEF more
      <3> QED BY <1>2, <1>3, <2>1, <3>2
    <2>3. CASE ix.files[k.file].kind # "full"
      <3>1. IsHydratable(ix, k.file)
        BY <1>3, <1>6, <2>1, <2>3 DEF IsHydratable, Has
      <3> HIDE DEF more
      <3> QED BY <1>1, <1>2, <1>3, <1>6, <2>1, <3>1 DEF IndexOK
    <2> QED BY <2>2, <2>3
  <1> HIDE DEF more, hit
  <1>7. IndexOK' BY <1>1, <1>2, <1>3, <1>4, <1>5, <1>6 DEF IndexOK, Fits
  <1>8. BootOK' BY <1>2 DEF BootOK
  <1> QED BY <1>7, <1>8

-------------------------------------------------------------------------------
(* Saves and the cache. *)

\* A save is made of its five fields.
LEMMA SaveFields ==
  ASSUME NEW phase \in SavePhases, NEW by \in {"hibernate", "shutdown", "nobody"},
         NEW entries, \A e \in entries : e \in Cached,
         NEW left \in SUBSET (Texts \cup Files), NEW clean \in BOOLEAN,
         NEW s, s = [phase |-> phase, by |-> by, entries |-> entries, left |-> left,
                     clean |-> clean]
  PROVE  IsSave(s) /\ s.entries = entries
  BY DEF IsSave

\* What the steps of a save make of it, its entries apart.
LEMMA SaveUpdates ==
  ASSUME NEW s, IsSave(s), NEW phase \in SavePhases, NEW left \in SUBSET (Texts \cup Files),
         NEW n,
         \/ n = [s EXCEPT !.clean = FALSE]
         \/ n = [s EXCEPT !.by = "nobody"]
         \/ n = [s EXCEPT !.phase = phase]
         \/ n = [s EXCEPT !.left = left]
         \/ n = [s EXCEPT !.phase = phase, !.clean = FALSE]
         \/ n = [s EXCEPT !.left = left, !.clean = FALSE]
  PROVE  IsSave(n) /\ n.entries = s.entries
  <1>1. s = [phase |-> s.phase, by |-> s.by, entries |-> s.entries, left |-> s.left,
             clean |-> s.clean]
    BY DEF IsSave
  <1>2. /\ s.phase \in SavePhases /\ s.by \in {"hibernate", "shutdown", "nobody"}
        /\ (\A e \in s.entries : e \in Cached)
        /\ s.left \subseteq Texts \cup Files /\ s.clean \in BOOLEAN
    BY DEF IsSave
  <1>3. PICK ph \in SavePhases, by \in {"hibernate", "shutdown", "nobody"},
             lf \in SUBSET (Texts \cup Files), cl \in BOOLEAN :
          n = [phase |-> ph, by |-> by, entries |-> s.entries, left |-> lf, clean |-> cl]
    <2>1. CASE n = [s EXCEPT !.clean = FALSE]
      <3>1. n = [phase |-> s.phase, by |-> s.by, entries |-> s.entries, left |-> s.left,
                 clean |-> FALSE]
        BY <1>1, <2>1
      <3> QED BY <1>2, <3>1
    <2>2. CASE n = [s EXCEPT !.by = "nobody"]
      <3>1. n = [phase |-> s.phase, by |-> "nobody", entries |-> s.entries, left |-> s.left,
                 clean |-> s.clean]
        BY <1>1, <2>2
      <3> QED BY <1>2, <3>1
    <2>3. CASE \/ n = [s EXCEPT !.phase = phase]
               \/ n = [s EXCEPT !.left = left]
      <3>1. PICK ph \in {phase, s.phase}, lf \in {left, s.left} :
              n = [phase |-> ph, by |-> s.by, entries |-> s.entries, left |-> lf,
                   clean |-> s.clean]
        BY <1>1, <2>3
      <3> QED BY <1>2, <3>1
    <2>4. CASE \/ n = [s EXCEPT !.phase = phase, !.clean = FALSE]
               \/ n = [s EXCEPT !.left = left, !.clean = FALSE]
      <3>1. PICK ph \in {phase, s.phase}, lf \in {left, s.left} :
              n = [phase |-> ph, by |-> s.by, entries |-> s.entries, left |-> lf,
                   clean |-> FALSE]
        BY <1>1, <2>4
      <3> QED BY <1>2, <3>1
    <2> QED BY <2>1, <2>2, <2>3, <2>4
  <1> QED BY <1>2, <1>3, SaveFields

LEMMA SaveCollecting ==
  ASSUME NEW s, IsSave(s), NEW entries, \A e \in entries : e \in Cached,
         NEW n, n = [s EXCEPT !.phase = "list", !.entries = entries]
  PROVE  IsSave(n) /\ n.entries = entries
  <1>1. n = [phase |-> "list", by |-> s.by, entries |-> entries, left |-> s.left,
             clean |-> s.clean]
    BY DEF IsSave
  <1> QED BY <1>1 DEF IsSave, SavePhases

\* The saves that go on keep what they hold, and fit as before.
LEMMA SavesFrame ==
  ASSUME SavesOK, DOMAIN saves' \subseteq DOMAIN saves, overtaken \subseteq overtaken',
         \A s \in DOMAIN saves' : saves'[s] = saves[s]
  PROVE  SavesOK'
  BY DEF SavesOK, Fits, IsSave

LEMMA CacheFrame ==
  ASSUME CacheOK, cache' = cache, overtaken \subseteq overtaken'
  PROVE  CacheOK'
  BY DEF CacheOK, Fits

\* A save begins, and the others are clean no longer.
LEMMA StartingStep ==
  ASSUME SavesOK, overtaken' = overtaken, NEW by \in {"hibernate", "shutdown"}, Starting(by)
  PROVE  SavesOK'
  <1>1. PICK s \in Slots \ DOMAIN saves :
          saves' = [r \in DOMAIN saves \cup {s} |->
            IF r = s THEN [phase |-> "mkdir", by |-> by, entries |-> {}, left |-> {},
                           clean |-> DOMAIN saves = {}]
            ELSE [saves[r] EXCEPT !.clean = FALSE]]
    BY DEF Starting
  <1> DEFINE n == [phase |-> "mkdir", by |-> by, entries |-> {}, left |-> {},
                   clean |-> DOMAIN saves = {}]
  <1>2. IsSave(n) /\ n.entries = {} BY DEF IsSave, SavePhases
  <1>3. ASSUME NEW r \in DOMAIN saves
        PROVE  /\ IsSave([saves[r] EXCEPT !.clean = FALSE])
               /\ [saves[r] EXCEPT !.clean = FALSE].entries = saves[r].entries
    <2> DEFINE o == saves[r]
               m == [o EXCEPT !.clean = FALSE]
    <2>1. IsSave(o) /\ "mkdir" \in SavePhases /\ {} \in SUBSET (Texts \cup Files)
      BY DEF SavesOK, SavePhases
    <2> HIDE DEF o
    <2>2. IsSave(m) /\ m.entries = o.entries BY <2>1, SaveUpdates
    <2> QED BY <2>2 DEF o
  <1>4. saves'[s] = n /\ DOMAIN saves' = DOMAIN saves \cup {s} BY <1>1
  <1>5. \A r \in DOMAIN saves : saves'[r] = [saves[r] EXCEPT !.clean = FALSE] BY <1>1
  <1> HIDE DEF n
  <1>6. ASSUME NEW r \in DOMAIN saves'
        PROVE  IsSave(saves'[r]) /\ \A e \in saves'[r].entries : IsOf(e.table, e.text) \/ e.text \in overtaken'
    BY <1>2, <1>3, <1>4, <1>5 DEF SavesOK, Fits
  <1> QED BY <1>4, <1>6 DEF SavesOK, Fits, IsSave

\* One save takes a step.
LEMMA GoesStep ==
  ASSUME SavesOK, NEW s \in DOMAIN saves, NEW save, Goes(s, save), IsSave(save),
         \A e \in save.entries : Fits(e.table, e.text)
  PROVE  SavesOK'
  <1>1. saves' = [saves EXCEPT ![s] = save] /\ overtaken' = overtaken BY DEF Goes
  <1>2. ASSUME NEW r \in DOMAIN saves'
        PROVE  r \in DOMAIN saves /\ saves'[r] \in {save, saves[r]}
    BY <1>1
  <1>3. DOMAIN saves' \subseteq Slots BY <1>1 DEF SavesOK
  <1>4. ASSUME NEW r \in DOMAIN saves'
        PROVE  /\ IsSave(saves'[r])
               /\ \A e \in saves'[r].entries : IsOf(e.table, e.text) \/ e.text \in overtaken'
    BY <1>1, <1>2, <1>4 DEF SavesOK, Fits
  <1> QED BY <1>3, <1>4 DEF SavesOK, Fits, IsSave

\* Steps that leave the entries of the save as they are.
LEMMA UpdateStep ==
  ASSUME SavesOK, NEW s \in DOMAIN saves, NEW phase \in SavePhases,
         NEW left \in SUBSET (Texts \cup Files), NEW save, Goes(s, save),
         \/ save = [saves[s] EXCEPT !.phase = phase]
         \/ save = [saves[s] EXCEPT !.left = left]
         \/ save = [saves[s] EXCEPT !.phase = phase, !.left = left]
         \/ save = [saves[s] EXCEPT !.phase = phase, !.clean = FALSE]
         \/ save = [saves[s] EXCEPT !.left = left, !.clean = FALSE]
  PROVE  SavesOK'
  <1>1. IsSave(saves[s]) /\ \A e \in saves[s].entries : Fits(e.table, e.text) BY DEF SavesOK
  <1> DEFINE o == saves[s]
  <1>2. \/ save = [o EXCEPT !.phase = phase]
        \/ save = [o EXCEPT !.left = left]
        \/ save = [o EXCEPT !.phase = phase, !.left = left]
        \/ save = [o EXCEPT !.phase = phase, !.clean = FALSE]
        \/ save = [o EXCEPT !.left = left, !.clean = FALSE]
    OBVIOUS
  <1>3. IsSave(o) BY <1>1
  <1> HIDE DEF o
  <1>4. IsSave(save) /\ save.entries = o.entries
    <2>1. CASE save = [o EXCEPT !.phase = phase] BY <1>3, <2>1, SaveUpdates
    <2>2. CASE save = [o EXCEPT !.left = left]
      <3>1. "mkdir" \in SavePhases BY DEF SavePhases
      <3> QED BY <1>3, <2>2, <3>1, SaveUpdates
    <2>3. CASE save = [o EXCEPT !.phase = phase, !.left = left]
      <3>1. save = [phase |-> phase, by |-> o.by, entries |-> o.entries, left |-> left,
                    clean |-> o.clean]
        BY <1>3, <2>3 DEF IsSave
      <3> QED BY <1>3, <3>1 DEF IsSave
    <2>4. CASE save = [o EXCEPT !.phase = phase, !.clean = FALSE] BY <1>3, <2>4, SaveUpdates
    <2>5. CASE save = [o EXCEPT !.left = left, !.clean = FALSE] BY <1>3, <2>5, SaveUpdates
    <2> QED BY <1>2, <2>1, <2>2, <2>3, <2>4, <2>5
  <1> QED BY <1>1, <1>4, GoesStep DEF o

\* A save only writes what it holds, and only collects what the index holds.
LEMMA SaveStoreStep ==
  ASSUME IInv, NEW s \in Slots, SaveSteps(s) \/ Deadline(s)
  PROVE  SavesOK' /\ CacheOK'
  <1>1. SavesOK /\ CacheOK /\ IndexOK /\ IsCache(cache) /\ IsIndex(ix)
    BY DEF IInv, CacheOK, IndexOK
  <1> DEFINE save == saves[s]
  <1>2. s \in DOMAIN saves
    BY DEF SaveSteps, SaveCollects, SaveCannotStart, SaveLists, SavePrunes, SaveKeeps,
           SaveHasPruned, SaveWrites, SaveHasWritten, SaveMarks, SaveFinishes, Deadline, In
  <1>3. /\ IsSave(save) /\ (\A e \in save.entries : Fits(e.table, e.text) /\ e \in Cached)
        /\ save.left \subseteq Texts \cup Files
    BY <1>1, <1>2 DEF SavesOK, IsSave
  <1>4. overtaken' = overtaken
    BY DEF SaveSteps, SaveCollects, SaveCannotStart, SaveLists, SavePrunes, SaveKeeps,
           SaveHasPruned, SaveWrites, SaveHasWritten, SaveMarks, SaveFinishes, Deadline,
           Goes, SaveEnds
  <1>5. ASSUME \/ cache' = cache
               \/ \E t : cache' = RemoveEntry(cache, t)
               \/ \E e \in save.entries : cache' = SaveEntry(cache, e)
               \/ cache' = WriteCacheIndex(cache)
               \/ cache' = WriteManifest(cache, save.entries)
               \/ cache' = [cache EXCEPT !.dir = TRUE]
        PROVE  CacheOK'
    <2>1. CASE cache' = cache BY <1>1, <1>4, <2>1, CacheFrame
    <2>2. CASE cache' # cache
      <3> HIDE DEF save
      <3>1. IsCache(cache') /\ cache'.entries \subseteq cache.entries \cup save.entries
        BY <1>1, <1>3, <1>5, <2>2, CacheWrites
      <3>2. \A e \in cache'.entries : IsOf(e.table, e.text) \/ e.text \in overtaken'
        BY <1>1, <1>3, <1>4, <3>1 DEF CacheOK, Fits
      <3> QED BY <3>1, <3>2 DEF CacheOK, Fits
    <2> QED BY <2>1, <2>2
  <1>6. ASSUME SaveEnds(s) PROVE SavesOK'
    BY <1>1, <1>4, <1>6, SavesFrame DEF SaveEnds
  <1>7. CASE SaveCollects(s)
    <2> DEFINE n == [save EXCEPT !.phase = "list", !.entries = Collected(ix)]
    <2>1. Goes(s, n) /\ cache' = [cache EXCEPT !.dir = TRUE] BY <1>7 DEF SaveCollects
    <2>2. \A e \in Collected(ix) : e \in Cached /\ Fits(e.table, e.text)
      BY <1>1, CollectedTyped DEF IndexOK
    <2> HIDE DEF save
    <2>3. IsSave(n) /\ n.entries = Collected(ix) BY <1>3, <2>2, SaveCollecting
    <2> HIDE DEF n
    <2>4. SavesOK' BY <1>1, <1>2, <2>1, <2>2, <2>3, GoesStep
    <2> QED BY <1>5, <2>1, <2>4
  <1>8. CASE SaveCannotStart(s) \/ SaveFinishes(s)
    BY <1>5, <1>6, <1>8 DEF SaveCannotStart, SaveFinishes
  <1>9. CASE SaveLists(s)
    <2> DEFINE left == StaleHashes(cache, save.entries)
    <2>1. left \subseteq Texts BY <1>1 DEF StaleHashes, Hashes, IsCache, Cached
    <2>2. Goes(s, [saves[s] EXCEPT !.phase = "prune", !.left = left]) /\ cache' = cache
      BY <1>9 DEF SaveLists
    <2> HIDE DEF left, save
    <2>3. left \in SUBSET (Texts \cup Files) /\ "prune" \in SavePhases
      BY <2>1 DEF SavePhases
    <2>4. SavesOK' BY <1>1, <1>2, <2>2, <2>3, UpdateStep
    <2> QED BY <1>5, <2>2, <2>4
  <1>10. CASE SavePrunes(s)
    <2>1. PICK t : cache' = RemoveEntry(cache, t) /\ Goes(s, [saves[s] EXCEPT !.left = @ \ {t}])
      BY <1>10 DEF SavePrunes
    <2>2. save.left \ {t} \in SUBSET (Texts \cup Files) /\ "prune" \in SavePhases
      BY <1>3 DEF SavePhases
    <2>3. SavesOK' BY <1>1, <1>2, <2>1, <2>2, UpdateStep
    <2> QED BY <1>5, <2>1, <2>3
  <1>11. CASE SaveKeeps(s)
    <2>1. cache' = cache /\ Goes(s, [saves[s] EXCEPT !.left = {}, !.clean = FALSE])
      BY <1>11 DEF SaveKeeps
    <2>2. {} \in SUBSET (Texts \cup Files) /\ "prune" \in SavePhases BY DEF SavePhases
    <2>3. SavesOK' BY <1>1, <1>2, <2>1, <2>2, UpdateStep
    <2> QED BY <1>5, <2>1, <2>3
  <1>12. CASE SaveHasPruned(s)
    <2> DEFINE left == {e.uri : e \in save.entries}
    <2>1. cache' = cache /\ Goes(s, [saves[s] EXCEPT !.phase = "write", !.left = left])
      BY <1>12 DEF SaveHasPruned
    <2>2. left \in SUBSET (Texts \cup Files) /\ "write" \in SavePhases
      BY <1>3 DEF SavePhases, Cached
    <2> HIDE DEF left, save
    <2>3. SavesOK' BY <1>1, <1>2, <2>1, <2>2, UpdateStep
    <2> QED BY <1>5, <2>1, <2>3
  <1>13. CASE SaveWrites(s)
    <2>1. PICK e \in save.entries :
            /\ cache' \in {cache, SaveEntry(cache, e)}
            /\ \/ Goes(s, [saves[s] EXCEPT !.left = @ \ {e.uri}])
               \/ Goes(s, [saves[s] EXCEPT !.left = @ \ {e.uri}, !.clean = FALSE])
      BY <1>13 DEF SaveWrites
    <2>2. save.left \ {e.uri} \in SUBSET (Texts \cup Files) /\ "write" \in SavePhases
      BY <1>3 DEF SavePhases
    <2>3. SavesOK' BY <1>1, <1>2, <2>1, <2>2, UpdateStep
    <2> HIDE DEF save
    <2> QED BY <1>5, <2>1, <2>3
  <1>14. CASE SaveHasWritten(s)
    <2>1. cache' = cache /\ Goes(s, [saves[s] EXCEPT !.phase = "index"])
      BY <1>14 DEF SaveHasWritten
    <2>2. {} \in SUBSET (Texts \cup Files) /\ "index" \in SavePhases BY DEF SavePhases
    <2>3. SavesOK' BY <1>1, <1>2, <2>1, <2>2, UpdateStep
    <2> QED BY <1>5, <2>1, <2>3
  <1>15. CASE SaveMarks(s)
    <2>1. /\ cache' \in {cache, WriteCacheIndex(cache)}
          /\ \/ Goes(s, [saves[s] EXCEPT !.phase = "manifest"])
             \/ Goes(s, [saves[s] EXCEPT !.phase = "manifest", !.clean = FALSE])
      BY <1>15 DEF SaveMarks
    <2>2. {} \in SUBSET (Texts \cup Files) /\ "manifest" \in SavePhases BY DEF SavePhases
    <2>3. SavesOK' BY <1>1, <1>2, <2>1, <2>2, UpdateStep
    <2> QED BY <1>5, <2>1, <2>3
  <1>16. CASE Deadline(s)
    <2> DEFINE n == [save EXCEPT !.by = "nobody"]
    <2>1. saves' = [saves EXCEPT ![s] = n] /\ cache' = cache BY <1>16 DEF Deadline
    <2>2. "mkdir" \in SavePhases /\ {} \in SUBSET (Texts \cup Files) BY DEF SavePhases
    <2> HIDE DEF save
    <2>5. IsSave(n) /\ n.entries = save.entries BY <1>3, <2>2, SaveUpdates
    <2> HIDE DEF n
    <2>3. ASSUME NEW r \in DOMAIN saves'
          PROVE  /\ IsSave(saves'[r])
                 /\ \A e \in saves'[r].entries : IsOf(e.table, e.text) \/ e.text \in overtaken'
      BY <1>1, <1>3, <1>4, <2>1, <2>5 DEF SavesOK, Fits
    <2>4. SavesOK' BY <1>1, <2>1, <2>3 DEF SavesOK, Fits, IsSave
    <2> QED BY <1>5, <2>1, <2>4
  <1> QED
    BY <1>7, <1>8, <1>9, <1>10, <1>11, <1>12, <1>13, <1>14, <1>15, <1>16 DEF SaveSteps

\* Nothing else writes to a save; the cache is also replaced or emptied.
LEMMA OtherStoreStep ==
  ASSUME IInv, Next,
         \/ ServerStarts \/ ServerFails \/ ServerCrashes \/ ServerStays \/ TimerFires
         \/ StopRequested \/ ServerStops \/ Upgrade \/ Hibernate \/ Pressure \/ BootSteps
         \/ \E f \in Files, t \in Texts \cup {Gone} : DiskChanges(f, t)
         \/ \E f \in Files : Open(f) \/ Close(f) \/ Request(f) \/ Scan(f)
         \/ \E f \in Files, t \in Texts :
              Edit(f, t) \/ DemandEnds(f, t) \/ HydrateEnds(f, t) \/ ChangeEnds(f, t)
  PROVE  SavesOK' /\ CacheOK'
  <1>1. SavesOK /\ CacheOK BY DEF IInv
  <1>2. ASSUME saves' = saves, cache' = cache, overtaken \subseteq overtaken'
        PROVE  SavesOK' /\ CacheOK'
    BY <1>1, <1>2, SavesFrame, CacheFrame
  <1>3. CASE ServerCrashes \/ ServerStops
    <2>1. saves' = [s \in {} |-> {}] /\ cache' = cache /\ overtaken' = overtaken
      BY <1>3 DEF ServerCrashes, ServerStops, Gones
    <2>2. CacheOK' BY <1>1, <2>1, CacheFrame
    <2>3. SavesOK' BY <2>1 DEF SavesOK
    <2> QED BY <2>2, <2>3
  <1>4. CASE StopRequested
    <2>1. cache' = cache /\ overtaken' = overtaken /\ (saves' = saves \/ Starting("shutdown"))
      BY <1>4 DEF StopRequested
    <2> QED BY <1>1, <1>2, <2>1, CacheFrame, StartingStep
  <1>5. CASE Hibernate
    <2>1. cache' = cache /\ overtaken' = overtaken /\ Starting("hibernate")
      BY <1>5 DEF Hibernate
    <2> QED BY <1>1, <2>1, CacheFrame, StartingStep
  <1>6. CASE Upgrade
    <2>1. cache' = [cache EXCEPT !.root = "other"] /\ saves' = saves /\ overtaken' = overtaken
      BY <1>6 DEF Upgrade
    <2>2. IsCache(cache') /\ cache'.entries = cache.entries
      <3>1. IsCache(cache) BY <1>1 DEF CacheOK
      <3>2. cache' = [dir |-> cache.dir, entries |-> cache.entries, root |-> "other",
                      marked |-> cache.marked, manifest |-> cache.manifest]
        BY <2>1, <3>1 DEF IsCache
      <3> QED BY <3>1, <3>2 DEF IsCache
    <2>3. \A e \in cache'.entries : IsOf(e.table, e.text) \/ e.text \in overtaken'
      BY <1>1, <2>1, <2>2 DEF CacheOK, Fits
    <2> QED BY <1>1, <2>1, <2>2, <2>3, SavesFrame DEF CacheOK, Fits
  <1>7. CASE DeletesCache
    <2>1. cache' = EmptyCache /\ saves' = saves /\ overtaken' = overtaken
      BY <1>7 DEF DeletesCache, Booted
    <2>2. CacheOK' BY <2>1, EmptyCacheTyped DEF CacheOK
    <2> QED BY <1>1, <2>1, <2>2, SavesFrame
  <1>8. CASE Pressure BY <1>2, <1>8 DEF Pressure
  <1>9. CASE ServerStarts \/ ServerFails \/ ServerStays \/ TimerFires
    BY <1>2, <1>9 DEF ServerStarts, ServerFails, ServerStays, TimerFires
  <1>10. CASE BootSteps
    BY <1>2, <1>7, <1>10 DEF BootSteps, RestoresStubs, LoadsCache, ReadsCacheIndex,
                             RestoresEntries, RestoresNothing, RefreshReads, Refreshes, Refreshed, Booted
  <1>11. CASE \/ \E f \in Files, t \in Texts \cup {Gone} : DiskChanges(f, t)
              \/ \E f \in Files : Open(f) \/ Close(f) \/ Request(f) \/ Scan(f)
    BY <1>2, <1>11 DEF DiskChanges, Open, Close, Request, Scan
  <1>12. CASE \E f \in Files, t \in Texts :
                Edit(f, t) \/ DemandEnds(f, t) \/ HydrateEnds(f, t) \/ ChangeEnds(f, t)
    BY <1>2, <1>12 DEF Edit, DemandEnds, HydrateEnds, ChangeEnds
  <1> QED BY <1>3, <1>4, <1>5, <1>6, <1>8, <1>9, <1>10, <1>11, <1>12

-------------------------------------------------------------------------------
(* The specification. *)

LEMMA InitInv == Init => IInv
  <1> SUFFICES ASSUME Init PROVE IInv
    OBVIOUS
  <1>1. ClientInv BY ClientInitInv DEF Init
  <1>2. ProcessOK BY DEF Init, ProcessOK, Down, Server, Boots
  <1>3. EditorOK BY SessionAssumption DEF Init, EditorOK, Unindexed, Sources
  <1>4. IndexOK /\ BootOK BY EmptyIndexTyped DEF Init, IndexOK, BootOK
  <1>5. SavesOK BY DEF Init, SavesOK
  <1>6. CacheOK BY EmptyCacheTyped DEF Init, CacheOK
  <1> QED BY <1>1, <1>2, <1>3, <1>4, <1>5, <1>6 DEF IInv

LEMMA NextInv == IInv /\ [Next]_vars => IInv'
  <1> SUFFICES ASSUME IInv, [Next]_vars PROVE IInv'
    OBVIOUS
  <1>1. CASE UNCHANGED vars
    BY <1>1 DEF vars, indexVars, IInv, ClientInv, ClientTypeOK, ProcessOK, EditorOK, IndexOK,
                BootOK, SavesOK, CacheOK, Fits, IsSave, IsCache
  <1>2. CASE Next
    <2>1. ClientInv' BY <1>2, NextIsClientStep, ClientStepInv DEF IInv
    <2>2. ProcessOK' BY <1>2, ProcessStep DEF IInv
    <2>3. EditorOK' BY <1>2, EditorStep DEF IInv
    <2>4. IndexOK' /\ BootOK'
      BY <1>2, ProcessIndexStep, SaveIndexStep, BootIndexStep, DocumentIndexStep,
         DemandIndexStep, HydrateIndexStep, PressureIndexStep DEF Next
    <2>5. SavesOK' /\ CacheOK'
      BY <1>2, SaveStoreStep, OtherStoreStep DEF Next
    <2> QED BY <2>1, <2>2, <2>3, <2>4, <2>5 DEF IInv
  <1> QED BY <1>1, <1>2

\* The inductive invariant holds in every state of every session.
THEOREM SessionInvariant == Spec => []IInv
  BY InitInv, NextInv, PTL DEF Spec

\* Type correctness of a session: the client, the process, its index, the saves
\* and the cache stay in their declared sets.
THEOREM SessionTypeCorrect == Spec => []TypeOK
  <1>1. IInv => TypeOK
    BY DEF IInv, ClientInv, ProcessOK, EditorOK, IndexOK, SavesOK, CacheOK, TypeOK
  <1> QED BY SessionInvariant, <1>1, PTL

\* No table is ever filed under the hash of another text, in the index, in a
\* save or on disk, but for an entry overtaken while its cached table was read.
THEOREM TablesFiled == Spec => []TablesAreOfTheirText
  <1>1. IInv => TablesAreOfTheirText
    BY DEF IInv, IndexOK, SavesOK, CacheOK, TablesAreOfTheirText
  <1> QED BY SessionInvariant, <1>1, PTL

-------------------------------------------------------------------------------
(* What a request got indexed. *)

\* Of the entries of j all but that of f are those of i, perhaps without tables.
Elsewhere(i, j, f) == IsIndex(j) /\ \A g \in DOMAIN j.files : g # f => Kept(i, j, g)

\* The entry of f is new, and of the text t.
Anew(j, f, t) == f \in DOMAIN j.files => j.files[f].kind = "full" /\ j.files[f].text = t

LEMMA StaleElsewhere ==
  ASSUME NEW i, IsIndex(i), NEW origins, NEW reached, NEW f, NEW j, j = Stale(i, origins, reached)
  PROVE  Elsewhere(i, j, f) /\ \A g \in DOMAIN j.files : Kept(i, j, g)
  <1> DEFINE E(g) == [i.files[g] EXCEPT !.table = IF g \in origins THEN NoTable ELSE @,
                                        !.stale = @ \/ g \in reached]
             fs == [g \in DOMAIN i.files |-> E(g)]
  <1>1. j = [i EXCEPT !.files = fs] BY DEF Stale
  <1>2. ASSUME NEW g \in DOMAIN i.files
        PROVE  /\ E(g) \in Entry
               /\ E(g).text = i.files[g].text /\ E(g).kind = i.files[g].kind
               /\ E(g).table \in {NoTable, i.files[g].table}
    BY DEF IsIndex, Entry, NoTable, Tables
  <1>3. fs = [g \in DOMAIN fs |-> fs[g]] /\ DOMAIN fs = DOMAIN i.files
    OBVIOUS
  <1>4. \A g \in DOMAIN i.files : fs[g] = E(g) OBVIOUS
  <1> HIDE DEF fs, E
  <1>5. IsIndex(j) /\ j.files = fs BY <1>1, <1>2, <1>3, <1>4, EntriesTyped
  <1> QED BY <1>2, <1>3, <1>4, <1>5 DEF Elsewhere, Kept

LEMMA ElsewhereTrans ==
  ASSUME NEW i, NEW j, NEW k, NEW f, Elsewhere(i, j, f), Elsewhere(j, k, f)
  PROVE  Elsewhere(i, k, f)
  <1>1. ASSUME NEW g \in DOMAIN k.files, g # f PROVE Kept(i, k, g)
    <2>1. Kept(j, k, g) BY <1>1 DEF Elsewhere
    <2>2. Kept(i, j, g) BY <1>1, <2>1 DEF Elsewhere, Kept
    <2> QED BY <2>1, <2>2 DEF Kept
  <1> QED BY <1>1 DEF Elsewhere

\* Tables are dropped after an entry was built.
LEMMA AnewThenStale ==
  ASSUME NEW i, NEW j, NEW k, NEW f, NEW t, Elsewhere(i, j, f), Anew(j, f, t),
         IsIndex(k), \A g \in DOMAIN k.files : Kept(j, k, g)
  PROVE  Elsewhere(i, k, f) /\ Anew(k, f, t)
  <1>1. Elsewhere(j, k, f) BY DEF Elsewhere
  <1>2. Elsewhere(i, k, f) BY <1>1, ElsewhereTrans
  <1> QED BY <1>2 DEF Anew, Kept

LEMMA InstallElsewhere ==
  ASSUME NEW i, IsIndex(i), NEW f \in Files, NEW t \in Texts, NEW table \in Tables,
         NEW j, j = InstallFull(i, f, 0, t, table)
  PROVE  Elsewhere(i, j, f) /\ Anew(j, f, t)
  <1> DEFINE e == FullEntry(0, t, table, Imports[<<f, t>>])
             p == Put(i, f, e)
  <1>1. Imports[<<f, t>>] \in SUBSET Files BY ImportsAssumption
  <1>2. e \in Entry /\ e.text = t /\ e.table = table /\ e.kind = "full"
    BY <1>1, FullEntryTyped
  <1> HIDE DEF e
  <1>3. /\ IsIndex(p) /\ DOMAIN p.files = DOMAIN i.files \cup {f} /\ p.files[f] = e
        /\ \A g \in DOMAIN i.files : g # f => p.files[g] = i.files[g]
    BY <1>2, PutTyped
  <1>4. j = RegisterReverseDeps(p, f, Imports[<<f, t>>]) BY DEF InstallFull, e
  <1> HIDE DEF p
  <1>5. IsIndex(j) /\ j.files = p.files BY <1>1, <1>3, <1>4, RegisterTyped
  <1> QED BY <1>2, <1>3, <1>5 DEF Elsewhere, Anew, Kept

LEMMA UpsertedElsewhere ==
  ASSUME IsIndex(ix), NEW f \in Files, NEW t \in Texts, NEW j, j = Upserted(f, t)
  PROVE  Elsewhere(ix, j, f) /\ Anew(j, f, t)
  <1> DEFINE rid == RemoveDependencies(ix, f)
             table == Wired(rid, f, t, Imports[<<f, t>>])
  <1>1. IsIndex(rid) /\ rid.files = ix.files BY RemoveDependenciesTyped
  <1>2. j = InstallFull(rid, f, 0, t, table) BY DEF Upserted
  <1> HIDE DEF rid
  <1>3. table \in Tables BY <1>1, WiredTyped
  <1> HIDE DEF table
  <1>4. Elsewhere(rid, j, f) /\ Anew(j, f, t) BY <1>1, <1>2, <1>3, InstallElsewhere
  <1> QED BY <1>1, <1>4 DEF Elsewhere, Kept

LEMMA BackgroundElsewhere ==
  ASSUME NEW i, IsIndex(i), NEW f \in Files, NEW t \in Texts, NEW warm,
         NEW j, j = UpsertBackgroundFile(i, f, 0, t, warm)
  PROVE  Elsewhere(i, j, f) /\ Anew(j, f, t)
  <1> DEFINE rid == RemoveDependencies(i, f)
             table == Wired(rid, f, t, warm)
             e == UnresolvedEntry(0, t, table)
  <1>1. IsIndex(rid) /\ rid.files = i.files BY RemoveDependenciesTyped
  <1>2. j = Put(rid, f, e) BY DEF UpsertBackgroundFile
  <1> HIDE DEF rid
  <1>3. table \in Tables BY <1>1, WiredTyped
  <1> HIDE DEF table
  <1>4. e \in Entry /\ e.text = t /\ e.kind = "full" BY <1>3, UnresolvedEntryTyped
  <1> HIDE DEF e
  <1>5. /\ IsIndex(j) /\ DOMAIN j.files = DOMAIN rid.files \cup {f} /\ j.files[f] = e
        /\ \A g \in DOMAIN rid.files : g # f => j.files[g] = rid.files[g]
    BY <1>1, <1>2, <1>4, PutTyped
  <1> QED BY <1>1, <1>4, <1>5 DEF Elsewhere, Anew, Kept

LEMMA RemoveElsewhere ==
  ASSUME NEW i, IsIndex(i), NEW f \in Files, NEW j, j = RemoveFile(i, f)
  PROVE  /\ Elsewhere(i, j, f) /\ f \notin DOMAIN j.files
         /\ DOMAIN i.files = {} => DOMAIN j.files = {}
  <1>1. CASE ~Has(i, f) BY <1>1 DEF RemoveFile, Elsewhere, Kept, Has
  <1>2. CASE Has(i, f)
    <2> DEFINE rid == RemoveDependencies(i, f)
               fs == [g \in DOMAIN i.files \ {f} |-> i.files[g]]
               ds == {e \in rid.dependents : e[1] # f}
    <2>1. IsIndex(j) BY RemoveFileMoves DEF Moves
    <2>2. j = [files |-> fs, dependents |-> ds] BY <1>2 DEF RemoveFile
    <2>3. j.files = fs BY <2>2
    <2> QED BY <2>1, <2>3 DEF Elsewhere, Kept
  <1> QED BY <1>1, <1>2

\* A process that is down has no index.  A demand carries what its file holds,
\* for files only change while no process runs.  An entry a demand or the scan
\* indexed is of what its file holds; one restored as a stub need not be, but it
\* has no table, and what a demand found hydratable is.
DemandOK ==
  /\ server.boot = "down" => DOMAIN ix.files = {} /\ tasks = {}
  /\ \A k \in tasks : k.by # "didChange" => k.text = disk[k.file]
  /\ \A f \in DOMAIN ix.files :
       /\ source[f] = "background" /\ ix.files[f].kind # "stub" => ix.files[f].text = disk[f]
       /\ ix.files[f].kind = "stub" => ix.files[f].table = NoTable
  /\ \A k \in tasks : k.by = "hydrate" /\ Has(ix, k.file) /\ ix.files[k.file].kind = "stub"
       => ix.files[k.file].text = k.text

\* The refresh of the cached entries re-indexes what the file holds.
ReadingOK ==
  /\ server.boot = "down" => server.reading = {}
  /\ \A e \in server.reading : e.text = disk[e.uri]

\* Whatever happens to f, if what is new about it is of its file's text.
LEMMA DemandStep ==
  ASSUME DemandOK, disk' = disk, NEW f, Elsewhere(ix, ix', f),
         \A g \in DOMAIN ix'.files : g # f => source'[g] = source[g],
         \/ f \notin DOMAIN ix'.files
         \/ Kept(ix, ix', f) /\ source'[f] = source[f]
         \/ Anew(ix', f, disk[f])
         \/ \E t : Anew(ix', f, t) /\ source'[f] # "background",
         \A k \in tasks' : \/ k \in tasks
                           \/ k.by = "didChange"
                           \/ k.by = "demand" /\ k.text = disk[k.file],
         server'.boot = "down" => DOMAIN ix'.files = {} /\ tasks' = {}
  PROVE  DemandOK'
  <1>1. ASSUME NEW g \in DOMAIN ix'.files, ix'.files[g].kind = "stub"
        PROVE  Kept(ix, ix', g)
    BY <1>1 DEF Elsewhere, Anew
  <1>2. ASSUME NEW g \in DOMAIN ix'.files
        PROVE  /\ source'[g] = "background" /\ ix'.files[g].kind # "stub"
                    => ix'.files[g].text = disk'[g]
               /\ ix'.files[g].kind = "stub" => ix'.files[g].table = NoTable
    <2>1. ix'.files[g].kind = "stub" => ix'.files[g].table = NoTable
      BY <1>1 DEF Kept, DemandOK
    <2>2. ASSUME source'[g] = "background", ix'.files[g].kind # "stub"
          PROVE  ix'.files[g].text = disk[g]
      <3>1. CASE Kept(ix, ix', g) /\ source'[g] = source[g]
        BY <2>2, <3>1 DEF Kept, DemandOK
      <3>2. CASE g = f /\ ~(Kept(ix, ix', f) /\ source'[f] = source[f])
        BY <2>2, <3>2 DEF Anew
      <3> QED BY <3>1, <3>2 DEF Elsewhere
    <2> QED BY <2>1, <2>2
  <1>3. ASSUME NEW k \in tasks', k.by = "hydrate", Has(ix', k.file),
               ix'.files[k.file].kind = "stub"
        PROVE  ix'.files[k.file].text = k.text
    <2>1. k \in tasks BY <1>3
    <2>2. Kept(ix, ix', k.file) BY <1>1, <1>3 DEF Has
    <2> QED BY <1>3, <2>1, <2>2 DEF Kept, Has, DemandOK
  <1>4. \A k \in tasks' : k.by # "didChange" => k.text = disk'[k.file]
    BY DEF DemandOK
  <1> QED BY <1>2, <1>3, <1>4 DEF DemandOK

\* Nothing happens to the entries, or the index is cleared.
LEMMA DemandFrame ==
  ASSUME DemandOK, IsIndex(ix), disk' = disk,
         (ix' = ix /\ source' = source) \/ ix' = EmptyIndex,
         \A k \in tasks' : \/ k \in tasks
                           \/ k.by = "didChange"
                           \/ k.by = "demand" /\ k.text = disk[k.file],
         server'.boot = "down" => tasks' = {} /\ (server.boot = "down" \/ ix' = EmptyIndex)
  PROVE  DemandOK'
  <1> DEFINE f == CHOOSE g : g \notin Files
  <1>1. CASE ix' = ix /\ source' = source
    <2>1. \A g \in DOMAIN ix'.files : Kept(ix, ix', g) BY <1>1 DEF Kept
    <2>2. \A g : Elsewhere(ix, ix', g) BY <1>1, <2>1 DEF Elsewhere
    <2>3. server'.boot = "down" => DOMAIN ix'.files = {} /\ tasks' = {}
      BY <1>1, EmptyIndexTyped DEF DemandOK
    <2>4. \A g \in DOMAIN ix'.files : Kept(ix, ix', g) /\ source'[g] = source[g]
      BY <1>1, <2>1
    <2> HIDE DEF f
    <2>5. f \notin DOMAIN ix'.files \/ (Kept(ix, ix', f) /\ source'[f] = source[f])
      BY <2>4
    <2> QED BY <2>2, <2>3, <2>4, <2>5, DemandStep
  <1>2. CASE ix' = EmptyIndex
    <2>1. IsIndex(ix') /\ DOMAIN ix'.files = {} BY <1>2, EmptyIndexTyped
    <2>2. \A g : Elsewhere(ix, ix', g) BY <2>1 DEF Elsewhere
    <2> HIDE DEF f
    <2> QED BY <2>1, <2>2, DemandStep
  <1> QED BY <1>1, <1>2

\* A process starts, goes, closes, saves or restores nothing.
LEMMA DemandProcessStep ==
  ASSUME IInv, DemandOK,
         \/ ServerStarts \/ ServerFails \/ ServerCrashes \/ ServerStays \/ TimerFires
         \/ StopRequested \/ ServerStops \/ Upgrade \/ Hibernate
         \/ LoadsCache \/ ReadsCacheIndex \/ DeletesCache \/ RestoresNothing
         \/ RefreshReads \/ Refreshed
         \/ \E s \in Slots : SaveSteps(s) \/ Deadline(s)
         \/ \E f \in Files, t \in Texts \cup {Gone} : DiskChanges(f, t)
  PROVE  DemandOK'
  <1>1. IsIndex(ix) /\ server \in Server BY DEF IInv, IndexOK, ProcessOK
  <1>2. ASSUME disk' = disk, tasks' = tasks, server'.boot = "down" => server.boot = "down",
               (ix' = ix /\ source' = source) \/ ix' = EmptyIndex
        PROVE  DemandOK'
    <2>1. server'.boot = "down" => tasks' = {} /\ (server.boot = "down" \/ ix' = EmptyIndex)
      BY <1>2 DEF DemandOK
    <2> QED BY <1>1, <1>2, <2>1, DemandFrame
  <1>3. CASE ServerStarts
    <2>1. /\ disk' = disk /\ ix' = ix /\ source' = source
          /\ server' = [Down EXCEPT !.boot = "manifest"]
          /\ tasks' = {[by |-> "didChange", file |-> f, text |-> buffer[f]] : f \in Opened}
      BY <1>3 DEF ServerStarts, indexVars
    <2>2. \A k \in tasks' : k.by = "didChange" BY <2>1
    <2>3. server'.boot = "manifest" BY <2>1 DEF Down
    <2> QED BY <1>1, <2>1, <2>2, <2>3, DemandFrame
  <1>4. CASE ServerCrashes \/ ServerStops
    <2>1. disk' = disk /\ ix' = EmptyIndex /\ tasks' = {}
      BY <1>4 DEF ServerCrashes, ServerStops, Gones
    <2> QED BY <1>1, <2>1, DemandFrame
  <1>5. CASE ServerFails \/ ServerStays \/ TimerFires \/ Upgrade \/ Hibernate
    BY <1>2, <1>5 DEF ServerFails, ServerStays, TimerFires, Upgrade, Hibernate, indexVars
  <1>6. CASE StopRequested
    <2>1. /\ ix' = ix /\ source' = source /\ tasks' = tasks /\ disk' = disk
          /\ (server' = server \/ server' = [server EXCEPT !.closing = "saving"])
      BY <1>6 DEF StopRequested, indexVars
    <2>2. server'.boot = server.boot BY <1>1, <2>1 DEF Server
    <2> QED BY <1>2, <2>1, <2>2
  <1>7. CASE \/ LoadsCache \/ ReadsCacheIndex \/ DeletesCache \/ RestoresNothing
             \/ RefreshReads \/ Refreshed
    <2>1. /\ ix' = ix /\ source' = source /\ tasks' = tasks /\ disk' = disk
          /\ \/ \E b \in {"index", "delete", "entries", "done", "degraded"} :
                  server' = [server EXCEPT !.boot = b]
             \/ \E C, R : server' = [server EXCEPT !.cached = C, !.reading = R]
      BY <1>7 DEF LoadsCache, ReadsCacheIndex, DeletesCache, RestoresNothing, RefreshReads,
                  Refreshed, Booted, LoadEnds, indexVars
    <2>2. server'.boot = "down" => server.boot = "down" BY <1>1, <2>1 DEF Server
    <2> QED BY <1>2, <2>1, <2>2
  <1>8. ASSUME NEW s \in Slots, SaveSteps(s) \/ Deadline(s) PROVE DemandOK'
    <2>1. /\ tasks' = tasks /\ disk' = disk
          /\ (ix' = ix /\ source' = source) \/ ix' = EmptyIndex
          /\ server' \in {server, [server EXCEPT !.closing = "done"]}
      <3>1. CASE Deadline(s) \/ SaveEnds(s) BY <3>1 DEF Deadline, SaveEnds, Resumed
      <3>2. CASE \E save : Goes(s, save) BY <3>2 DEF Goes, indexVars
      <3> QED BY <1>8, <3>1, <3>2
            DEF SaveSteps, SaveCollects, SaveCannotStart, SaveLists, SavePrunes, SaveKeeps,
                SaveHasPruned, SaveWrites, SaveHasWritten, SaveMarks, SaveFinishes
    <2>2. server'.boot = server.boot BY <1>1, <2>1 DEF Server
    <2> QED BY <1>2, <2>1, <2>2
  <1>9. ASSUME NEW f \in Files, NEW t \in Texts \cup {Gone}, DiskChanges(f, t) PROVE DemandOK'
    <2>1. /\ ix' = ix /\ tasks' = tasks /\ server' = server /\ DOMAIN ix.files = {} /\ tasks = {}
      BY <1>9 DEF DiskChanges, IsUp, DemandOK, indexVars
    <2> QED BY <2>1 DEF DemandOK
  <1> QED BY <1>3, <1>4, <1>5, <1>6, <1>7, <1>8, <1>9

\* What is restored is a stub, or is not yet known to be in the background.
LEMMA DemandRestoreStep ==
  ASSUME IInv, ReadingOK, DemandOK, RestoresStubs \/ RestoresEntries \/ Refreshes
  PROVE  DemandOK'
  <1>1. /\ BootOK /\ CacheOK /\ IsIndex(ix) /\ tasks \subseteq Task
        /\ server \in Server /\ disk \in [Files -> Texts \cup {Gone}]
        /\ source \in [Files -> Sources]
        /\ server.reading \subseteq [uri : Files, text : Texts]
    BY DEF IInv, IndexOK, ProcessOK, EditorOK, Server
  <1>2. disk' = disk /\ tasks' = tasks
    BY DEF RestoresStubs, RestoresEntries, Refreshes, Booted
  <1>3. CASE RestoresStubs
    <2>1. /\ ix' = RestoreStubs(ix, cache.manifest) /\ source' = source
          /\ server.boot = "manifest" /\ server' = [server EXCEPT !.boot = "done"]
      BY <1>3 DEF RestoresStubs, Booted
    <2>2. \A r \in cache.manifest : r \in Record BY <1>1 DEF CacheOK, IsCache
    <2>3. \A g \in DOMAIN ix'.files :
            Kept(ix, ix', g) \/ (ix'.files[g].kind = "stub" /\ ix'.files[g].table = NoTable)
      BY <1>1, <2>1, <2>2, RestoreStubsTyped
    <2>4. \A k \in tasks' : k.by # "hydrate" BY <1>1, <1>2, <2>1 DEF BootOK
    <2>5. server'.boot = "done" BY <1>1, <2>1 DEF Server
    <2>6. \A g \in DOMAIN ix'.files :
            /\ source'[g] = "background" /\ ix'.files[g].kind # "stub"
                 => ix'.files[g].text = disk'[g]
            /\ ix'.files[g].kind = "stub" => ix'.files[g].table = NoTable
      BY <1>2, <2>1, <2>3 DEF Kept, DemandOK
    <2> QED BY <1>2, <2>4, <2>5, <2>6 DEF DemandOK
  <1>4. CASE RestoresEntries
    <2>1. PICK loaded \in Loads(cache) :
            /\ ix' = RestoreCachedEntries(ix, loaded)
            /\ source' = [f \in Files |->
                 IF f \in {e.uri : e \in loaded} /\ ~Has(ix, f) THEN "didOpen" ELSE source[f]]
            /\ server' = [server EXCEPT !.boot = "refresh",
                            !.cached = {[uri |-> e.uri, text |-> e.text] : e \in loaded}]
      BY <1>4 DEF RestoresEntries
    <2> DEFINE fresh == {e \in loaded : e.table # NoTable /\ ~Has(ix, e.uri)}
               seen == {[uri |-> e.uri, text |-> e.text] : e \in loaded}
    <2>2. \A e \in loaded : e \in Cached BY <1>1 DEF Loads, CacheOK, IsCache
    <2>3. /\ IsIndex(ix')
          /\ \A g \in DOMAIN ix'.files :
               \/ Kept(ix, ix', g)
               \/ /\ ix'.files[g].kind = "full"
                  /\ \E e \in loaded : ix'.files[g].table = e.table /\ ix'.files[g].text = e.text
      BY <1>1, <2>1, <2>2, RestoreCachedEntriesTyped
    <2>4. DOMAIN ix'.files = DOMAIN ix.files \cup {e.uri : e \in fresh}
      BY <2>1 DEF RestoreCachedEntries
    <2>5. ASSUME NEW g \in DOMAIN ix'.files, g \notin DOMAIN ix.files
          PROVE  source'[g] = "didOpen"
      <3>1. PICK e \in fresh : e.uri = g BY <2>4, <2>5
      <3>2. g \in Files /\ g \in {d.uri : d \in loaded} BY <2>3, <2>5, <3>1 DEF IsIndex
      <3> HIDE DEF fresh, seen
      <3> QED BY <2>1, <2>5, <3>2 DEF Has
    <2>6. ASSUME NEW g \in DOMAIN ix'.files, g \in DOMAIN ix.files
          PROVE  source'[g] = source[g] /\ ix'.files[g] = ix.files[g]
      <3>1. g \in Files BY <2>3, <2>6 DEF IsIndex
      <3>2. source'[g] = source[g] BY <2>1, <2>6, <3>1 DEF Has
      <3>3. ix'.files[g] = ix.files[g] BY <2>1, <2>6 DEF RestoreCachedEntries, Has
      <3> QED BY <3>2, <3>3
    <2>7. server'.boot = "refresh"
      <3> HIDE DEF seen
      <3>1. server' = [server EXCEPT !.boot = "refresh", !.cached = seen] BY <2>1 DEF seen
      <3> QED BY <1>1, <3>1 DEF Server
    <2> HIDE DEF fresh, seen
    <2>8. \A g \in DOMAIN ix'.files :
            /\ source'[g] = "background" /\ ix'.files[g].kind # "stub"
                 => ix'.files[g].text = disk'[g]
            /\ ix'.files[g].kind = "stub" => ix'.files[g].table = NoTable
      <3> SUFFICES ASSUME NEW g \in DOMAIN ix'.files
                   PROVE  /\ source'[g] = "background" /\ ix'.files[g].kind # "stub"
                               => ix'.files[g].text = disk'[g]
                          /\ ix'.files[g].kind = "stub" => ix'.files[g].table = NoTable
        OBVIOUS
      <3>1. CASE g \in DOMAIN ix.files BY <1>2, <2>6, <3>1 DEF DemandOK
      <3>2. CASE g \notin DOMAIN ix.files BY <2>3, <2>5, <3>2 DEF Kept
      <3> QED BY <3>1, <3>2
    <2>9. ASSUME NEW k \in tasks', k.by = "hydrate", Has(ix', k.file),
                 ix'.files[k.file].kind = "stub"
          PROVE  ix'.files[k.file].text = k.text
      <3>1. Kept(ix, ix', k.file) BY <2>3, <2>9 DEF Has
      <3> QED BY <1>2, <2>9, <3>1 DEF Kept, Has, DemandOK
    <2> QED BY <1>2, <2>7, <2>8, <2>9 DEF DemandOK
  <1>5. CASE Refreshes
    <2>1. PICK e \in server.reading :
            /\ \E warm : ix' = UpsertBackgroundFile(InvalidateWithDependents(ix, e.uri),
                                                   e.uri, 0, e.text, warm)
            /\ source' = [source EXCEPT ![e.uri] = "background"]
      BY <1>5 DEF Refreshes
    <2>2. server'.boot = server.boot BY <1>1, <1>5 DEF Server, Refreshes
    <2>3. server.boot # "down" /\ e.uri \in Files /\ e.text \in Texts /\ e.text = disk[e.uri]
      BY <1>1 DEF ReadingOK
    <2> DEFINE f == e.uri
               j == InvalidateWithDependents(ix, f)
    <2>4. Elsewhere(ix, j, f) /\ IsIndex(j)
      BY <1>1, StaleElsewhere DEF InvalidateWithDependents, Elsewhere
    <2>5. \E warm : ix' = UpsertBackgroundFile(j, f, 0, disk[f], warm) BY <2>1, <2>3
    <2>6. source' = [source EXCEPT ![f] = "background"] BY <2>1
    <2>7. f \in Files /\ disk[f] \in Texts BY <2>3
    <2> HIDE DEF j, f
    <2>8. Elsewhere(j, ix', f) /\ Anew(ix', f, disk[f])
      BY <2>4, <2>5, <2>7, BackgroundElsewhere
    <2>9. Elsewhere(ix, ix', f) BY <2>4, <2>8, ElsewhereTrans
    <2>10. \A g \in DOMAIN ix'.files : g # f => source'[g] = source[g]
      BY <1>1, <2>6
    <2> QED BY <1>2, <2>2, <2>3, <2>8, <2>9, <2>10, DemandStep
  <1> QED BY <1>3, <1>4, <1>5

\* Files only change while no process runs, so that what the refresh has read
\* is what the file holds when it indexes it.
LEMMA ReadingStep == IInv /\ ReadingOK /\ Next => ReadingOK'
  <1> SUFFICES ASSUME IInv, ReadingOK, Next PROVE ReadingOK'
    OBVIOUS
  <1>1. server \in Server BY DEF IInv, ProcessOK
  <1>2. ASSUME disk' = disk, server'.boot = server.boot \/ server'.boot # "down",
               server'.reading \in {server.reading, {}}
        PROVE  ReadingOK'
    BY <1>2 DEF ReadingOK
  <1>3. CASE ServerStarts \/ ServerCrashes \/ ServerStops
    <2>1. disk' = disk /\ server'.reading = {}
      BY <1>3 DEF ServerStarts, ServerCrashes, ServerStops, Gones, Down
    <2> QED BY <2>1 DEF ReadingOK
  <1>4. CASE ServerFails \/ ServerStays \/ TimerFires \/ Upgrade \/ Hibernate \/ Pressure
    BY <1>2, <1>4 DEF ServerFails, ServerStays, TimerFires, Upgrade, Hibernate, Pressure
  <1>5. CASE StopRequested
    <2>1. disk' = disk /\ server' \in {server, [server EXCEPT !.closing = "saving"]}
      BY <1>5 DEF StopRequested
    <2>2. server'.boot = server.boot /\ server'.reading = server.reading
      BY <1>1, <2>1 DEF Server
    <2> QED BY <1>2, <2>1, <2>2
  <1>6. ASSUME NEW f \in Files, NEW t \in Texts \cup {Gone}, DiskChanges(f, t) PROVE ReadingOK'
    BY <1>6 DEF DiskChanges, IsUp, ReadingOK
  <1>7. ASSUME NEW s \in Slots, SaveSteps(s) \/ Deadline(s) PROVE ReadingOK'
    <2>1. disk' = disk /\ server' \in {server, [server EXCEPT !.closing = "done"]}
      <3>1. CASE Deadline(s) \/ SaveEnds(s) BY <3>1 DEF Deadline, SaveEnds, Resumed
      <3>2. CASE \E save : Goes(s, save) BY <3>2 DEF Goes
      <3> QED BY <1>7, <3>1, <3>2
            DEF SaveSteps, SaveCollects, SaveCannotStart, SaveLists, SavePrunes, SaveKeeps,
                SaveHasPruned, SaveWrites, SaveHasWritten, SaveMarks, SaveFinishes
    <2>2. server'.boot = server.boot /\ server'.reading = server.reading
      BY <1>1, <2>1 DEF Server
    <2> QED BY <1>2, <2>1, <2>2
  <1>8. CASE \/ RestoresStubs \/ LoadsCache \/ ReadsCacheIndex \/ DeletesCache
             \/ RestoresEntries \/ RestoresNothing \/ Refreshed
    <2>1. disk' = disk
          /\ \E b, C : b # "down" /\ server' = [server EXCEPT !.boot = b, !.cached = C]
      <3>1. CASE RestoresEntries BY <1>1, <3>1 DEF RestoresEntries
      <3>2. CASE ~RestoresEntries
        <4>1. disk' = disk /\ \E b : b # "down" /\ server' = [server EXCEPT !.boot = b]
          BY <1>8, <3>2 DEF RestoresStubs, LoadsCache, ReadsCacheIndex, DeletesCache,
                            RestoresNothing, Refreshed, Booted, LoadEnds
        <4>2. \A b : [server EXCEPT !.boot = b]
                      = [server EXCEPT !.boot = b, !.cached = server.cached]
          BY <1>1 DEF Server
        <4> QED BY <4>1, <4>2
      <3> QED BY <3>1, <3>2
    <2>2. server'.boot # "down" /\ server'.reading = server.reading
      BY <1>1, <2>1 DEF Server
    <2> QED BY <1>2, <2>1, <2>2
  <1>9. CASE RefreshReads
    <2>1. PICK e \in server.cached :
            server' = [server EXCEPT !.cached = @ \ {e},
              !.reading = IF IsStaleOnDisk(e) THEN {[uri |-> e.uri, text |-> disk[e.uri]]}
                          ELSE {}]
      BY <1>9 DEF RefreshReads
    <2>2. disk' = disk /\ server.boot = "refresh" BY <1>9 DEF RefreshReads
    <2>3. /\ server'.boot = server.boot
          /\ server'.reading = IF IsStaleOnDisk(e) THEN {[uri |-> e.uri, text |-> disk[e.uri]]}
                               ELSE {}
      BY <1>1, <2>1 DEF Server
    <2> QED BY <2>2, <2>3 DEF ReadingOK
  <1>10. CASE Refreshes
    <2>1. server'.boot = server.boot /\ server'.reading = {} /\ disk' = disk
      BY <1>1, <1>10 DEF Refreshes, Server
    <2> QED BY <1>2, <2>1
  <1>11. ASSUME NEW f \in Files, Open(f) \/ Close(f) \/ Request(f) \/ Scan(f) PROVE ReadingOK'
    BY <1>2, <1>11 DEF Open, Close, Request, Scan
  <1>12. ASSUME NEW f \in Files, NEW t \in Texts,
                Edit(f, t) \/ DemandEnds(f, t) \/ HydrateEnds(f, t) \/ ChangeEnds(f, t)
         PROVE  ReadingOK'
    BY <1>2, <1>12 DEF Edit, DemandEnds, HydrateEnds, ChangeEnds
  <1> QED
    BY <1>3, <1>4, <1>5, <1>6, <1>7, <1>8, <1>9, <1>10, <1>11, <1>12 DEF Next, BootSteps

\* The editor, a request, the end of an upsert and the scan.
LEMMA DemandDocumentStep ==
  ASSUME IInv, DemandOK, NEW f \in Files,
         \/ Open(f) \/ Close(f) \/ Request(f) \/ Scan(f)
         \/ \E t \in Texts : Edit(f, t) \/ ChangeEnds(f, t)
  PROVE  DemandOK'
  <1>1. /\ IsIndex(ix) /\ tasks \subseteq Task /\ disk \in [Files -> Texts \cup {Gone}]
        /\ source \in [Files -> Sources]
    BY DEF IInv, IndexOK, EditorOK
  <1>2. disk' = disk /\ server' = server BY DEF Open, Close, Request, Scan, Edit, ChangeEnds
  <1>3. ASSUME server.boot # "down", Elsewhere(ix, ix', f),
               \A g \in DOMAIN ix'.files : g # f => source'[g] = source[g],
               \/ f \notin DOMAIN ix'.files
               \/ Kept(ix, ix', f) /\ source'[f] = source[f]
               \/ Anew(ix', f, disk[f])
               \/ \E t : Anew(ix', f, t) /\ source'[f] # "background",
               \A k \in tasks' : k \in tasks \/ k.by = "didChange"
        PROVE  DemandOK'
    BY <1>2, <1>3, DemandStep
  <1>4. ASSUME ix' = InvalidateWithDependents(ix, f), source' = source, server.boot # "down",
               NEW t, tasks' = tasks \cup {[by |-> "didChange", file |-> f, text |-> t]}
        PROVE  DemandOK'
    <2>1. Elsewhere(ix, ix', f) /\ \A g \in DOMAIN ix'.files : Kept(ix, ix', g)
      BY <1>1, <1>4, StaleElsewhere DEF InvalidateWithDependents
    <2>2. \A k \in tasks' : k \in tasks \/ k.by = "didChange" BY <1>4
    <2> QED BY <1>3, <1>4, <2>1, <2>2
  <1>5. CASE Open(f)
    <2>1. CASE IsUp BY <1>4, <1>5, <2>1 DEF Open, IsUp
    <2>2. CASE ~IsUp
      <3>1. ix' = ix /\ tasks' = tasks /\ source' = source BY <1>5, <2>2 DEF Open
      <3>2. tasks' = {} /\ server.boot = "down" BY <2>2, <3>1 DEF IsUp, DemandOK
      <3> QED BY <1>1, <1>2, <3>1, <3>2, DemandFrame
    <2> QED BY <2>1, <2>2
  <1>6. CASE Close(f)
    <2>1. /\ ix' = RemoveFile(ix, f) /\ source' = [source EXCEPT ![f] = "background"]
          /\ tasks' = tasks
      BY <1>6 DEF Close
    <2>2. /\ Elsewhere(ix, ix', f) /\ f \notin DOMAIN ix'.files
          /\ DOMAIN ix.files = {} => DOMAIN ix'.files = {}
      BY <1>1, <2>1, RemoveElsewhere
    <2>3. \A g \in DOMAIN ix'.files : g # f => source'[g] = source[g]
      BY <1>1, <2>1
    <2>4. server'.boot = "down" => DOMAIN ix'.files = {} /\ tasks' = {}
      BY <1>2, <2>1, <2>2 DEF DemandOK
    <2> QED BY <1>2, <2>1, <2>2, <2>3, <2>4, DemandStep
  <1>7. CASE Request(f)
    <2>1. ix' = ix /\ source' = source /\ server.boot # "down"
      BY <1>7 DEF Request, IsUp, indexVars
    <2>2. \A k \in tasks' : k \in tasks \/ (k.by = "demand" /\ k.text = disk[k.file])
      BY <1>7 DEF Request
    <2> QED BY <1>1, <1>2, <2>1, <2>2, DemandFrame
  <1>8. CASE Scan(f)
    <2>1. PICK warm \in SUBSET Imports[<<f, disk[f]>>] :
            ix' = RewireDependents(UpsertBackgroundFile(ix, f, 0, disk[f], warm), f)
      BY <1>8 DEF Scan
    <2> DEFINE j == UpsertBackgroundFile(ix, f, 0, disk[f], warm)
    <2>2. disk[f] \in Texts BY <1>1, <1>8 DEF Scan
    <2>3. Elsewhere(ix, j, f) /\ Anew(j, f, disk[f]) BY <1>1, <2>2, BackgroundElsewhere
    <2>4. ix' = RewireDependents(j, f) BY <2>1
    <2> HIDE DEF j
    <2>5. IsIndex(ix') /\ \A g \in DOMAIN ix'.files : Kept(j, ix', g)
      BY <2>3, <2>4, StaleElsewhere DEF RewireDependents, Elsewhere
    <2>6. Elsewhere(ix, ix', f) /\ Anew(ix', f, disk[f]) BY <2>3, <2>5, AnewThenStale
    <2>7. /\ server.boot # "down" /\ tasks' = tasks
          /\ source' = [source EXCEPT ![f] = "background"]
      BY <1>8 DEF Scan
    <2>8. \A g \in DOMAIN ix'.files : g # f => source'[g] = source[g] BY <1>1, <2>7
    <2> QED BY <1>3, <2>6, <2>7, <2>8
  <1>9. ASSUME NEW t \in Texts, Edit(f, t) PROVE DemandOK'
    BY <1>4, <1>9 DEF Edit, IsUp
  <1>10. ASSUME NEW t \in Texts, ChangeEnds(f, t) PROVE DemandOK'
    <2> DEFINE j == Upserted(f, t)
    <2>1. Elsewhere(ix, j, f) /\ Anew(j, f, t) BY <1>1, UpsertedElsewhere
    <2>2. ix' = RewireDependents(j, f) BY <1>10 DEF ChangeEnds
    <2> HIDE DEF j
    <2>3. IsIndex(ix') /\ \A g \in DOMAIN ix'.files : Kept(j, ix', g)
      BY <2>1, <2>2, StaleElsewhere DEF RewireDependents, Elsewhere
    <2>4. Elsewhere(ix, ix', f) /\ Anew(ix', f, t) BY <2>1, <2>3, AnewThenStale
    <2>5. /\ tasks # {} /\ tasks' \subseteq tasks
          /\ source' = [source EXCEPT ![f] = "didChange"]
      BY <1>10 DEF ChangeEnds
    <2>6. server.boot # "down" BY <2>5 DEF DemandOK
    <2>7. \A g \in DOMAIN ix'.files : g # f => source'[g] = source[g] BY <1>1, <2>5
    <2>8. source'[f] # "background" BY <1>1, <2>5
    <2> QED BY <1>3, <2>4, <2>5, <2>6, <2>7, <2>8
  <1> QED BY <1>5, <1>6, <1>7, <1>8, <1>9, <1>10

\* A demand turns to the cache for an entry of the text its file holds, and
\* indexes what it has read otherwise.
LEMMA DemandEndsStep ==
  ASSUME IInv, DemandOK, NEW f \in Files, NEW t \in Texts, DemandEnds(f, t) \/ HydrateEnds(f, t)
  PROVE  DemandOK'
  <1>1. /\ IsIndex(ix) /\ CacheOK /\ disk \in [Files -> Texts \cup {Gone}]
        /\ source \in [Files -> Sources]
    BY DEF IInv, IndexOK, EditorOK
  <1>2. disk' = disk /\ server' = server BY DEF DemandEnds, HydrateEnds
  <1>3. \E k \in tasks : k.by # "didChange" /\ k.file = f /\ k.text = t
    BY DEF DemandEnds, HydrateEnds
  <1>4. server.boot # "down" /\ t = disk[f] BY <1>3 DEF DemandOK
  <1>5. ASSUME ix' = Upserted(f, t), source' = [source EXCEPT ![f] = "background"],
               tasks' \subseteq tasks
        PROVE  DemandOK'
    <2>1. Elsewhere(ix, ix', f) /\ Anew(ix', f, disk[f])
      BY <1>1, <1>4, <1>5, UpsertedElsewhere
    <2>2. \A g \in DOMAIN ix'.files : g # f => source'[g] = source[g] BY <1>1, <1>5
    <2> QED BY <1>2, <1>4, <1>5, <2>1, <2>2, DemandStep
  <1>6. CASE DemandEnds(f, t) /\ CanHydrate(cache, ix, f, t)
    <2> DEFINE k == [by |-> "hydrate", file |-> f, text |-> t]
    <2>1. ix.files[f].text = t BY <1>6 DEF CanHydrate
    <2>2. /\ ix' = ix /\ source' = source
          /\ tasks' = (tasks \ {[by |-> "demand", file |-> f, text |-> t]})
                       \cup {[by |-> "hydrate", file |-> f, text |-> ix.files[f].text]}
      BY <1>6 DEF DemandEnds, indexVars
    <2>3. tasks' \subseteq tasks \cup {k} /\ k.file = f /\ k.text = t BY <2>1, <2>2
    <2> HIDE DEF k
    <2>4. \A o \in tasks' : o.by # "didChange" => o.text = disk'[o.file]
      BY <1>2, <1>4, <2>3 DEF DemandOK
    <2>5. \A o \in tasks' : o.by = "hydrate" /\ Has(ix', o.file) /\ ix'.files[o.file].kind = "stub"
            => ix'.files[o.file].text = o.text
      BY <2>1, <2>2, <2>3 DEF DemandOK
    <2>6. \A g \in DOMAIN ix'.files :
            /\ source'[g] = "background" /\ ix'.files[g].kind # "stub"
                 => ix'.files[g].text = disk'[g]
            /\ ix'.files[g].kind = "stub" => ix'.files[g].table = NoTable
      BY <1>2, <2>2 DEF DemandOK
    <2> QED BY <1>2, <1>4, <2>4, <2>5, <2>6 DEF DemandOK
  <1>7. CASE DemandEnds(f, t) /\ ~CanHydrate(cache, ix, f, t)
    BY <1>5, <1>7 DEF DemandEnds
  <1>8. CASE HydrateEnds(f, t) /\ ~(IsHydratable(ix, f) /\ t \in Hashes(cache.entries))
    BY <1>5, <1>8 DEF HydrateEnds
  <1>9. CASE HydrateEnds(f, t) /\ IsHydratable(ix, f) /\ t \in Hashes(cache.entries)
    <2> DEFINE e == CHOOSE o \in cache.entries : o.text = t
               task == [by |-> "hydrate", file |-> f, text |-> t]
    <2>1. e \in cache.entries BY <1>9 DEF Hashes
    <2>2. /\ ix' = HydrateStub(ix, f, e.table) /\ source' = source
          /\ task \in tasks /\ tasks' = tasks \ {task}
      BY <1>9 DEF HydrateEnds, Hydrated
    <2>3. task.by = "hydrate" /\ task.file = f /\ task.text = t OBVIOUS
    <2> HIDE DEF e, task
    <2>4. e.table \in Tables BY <1>1, <2>1 DEF CacheOK, IsCache, Cached
    <2>5. /\ DOMAIN ix'.files = DOMAIN ix.files
          /\ ix'.files[f].text = ix.files[f].text /\ ix'.files[f].kind = "full"
          /\ \A g \in DOMAIN ix.files : g # f => ix'.files[g] = ix.files[g]
      BY <1>1, <1>9, <2>2, <2>4, HydrateStubTyped
    <2>6. source[f] = "background" => ix'.files[f].text = disk[f]
      <3>1. f \in DOMAIN ix.files BY <1>9 DEF IsHydratable, Has
      <3>2. CASE ix.files[f].kind = "stub"
        BY <1>4, <2>2, <2>3, <2>5, <3>1, <3>2 DEF DemandOK, Has
      <3>3. CASE ix.files[f].kind # "stub" BY <2>5, <3>1, <3>3 DEF DemandOK
      <3> QED BY <3>2, <3>3
    <2>7. \A g \in DOMAIN ix'.files :
            /\ source'[g] = "background" /\ ix'.files[g].kind # "stub"
                 => ix'.files[g].text = disk'[g]
            /\ ix'.files[g].kind = "stub" => ix'.files[g].table = NoTable
      BY <1>2, <2>2, <2>5, <2>6 DEF DemandOK
    <2>8. \A o \in tasks' : o.by = "hydrate" /\ Has(ix', o.file) /\ ix'.files[o.file].kind = "stub"
            => ix'.files[o.file].text = o.text
      BY <2>2, <2>5 DEF DemandOK, Has
    <2> QED BY <1>2, <1>4, <2>2, <2>7, <2>8 DEF DemandOK
  <1> QED BY <1>6, <1>7, <1>8, <1>9

LEMMA DemandPressureStep ==
  ASSUME IInv, DemandOK, Pressure
  PROVE  DemandOK'
  <1>1. IsIndex(ix) BY DEF IInv, IndexOK
  <1>2. /\ ix' = DemoteNonEssentialEntries(ix, Opened) /\ tasks' = tasks /\ server' = server
        /\ disk' = disk /\ source' = source /\ server.boot # "down"
    BY DEF Pressure
  <1>3. /\ DOMAIN ix'.files = DOMAIN ix.files
        /\ \A g \in DOMAIN ix.files :
             /\ ix'.files[g].text = ix.files[g].text
             /\ ix'.files[g].table \in {NoTable, ix.files[g].table}
             /\ \/ ix'.files[g].kind = ix.files[g].kind
                \/ ix.files[g].kind = "full" /\ ix'.files[g].kind = "demoted"
    BY <1>1, <1>2, DemoteTyped
  <1>4. \A g \in DOMAIN ix'.files :
          /\ source'[g] = "background" /\ ix'.files[g].kind # "stub"
               => ix'.files[g].text = disk'[g]
          /\ ix'.files[g].kind = "stub" => ix'.files[g].table = NoTable
    BY <1>2, <1>3 DEF DemandOK
  <1>5. \A o \in tasks' : o.by = "hydrate" /\ Has(ix', o.file) /\ ix'.files[o.file].kind = "stub"
          => ix'.files[o.file].text = o.text
    BY <1>2, <1>3 DEF DemandOK, Has
  <1> QED BY <1>2, <1>4, <1>5 DEF DemandOK

\* What a request got indexed is the table of what its file holds: neither the
\* cache, nor another save, nor the editor can put another text there.
THEOREM DemandsAreCurrent == Spec => []DemandedIsCurrent
  <1>1. Init => ReadingOK /\ DemandOK
    BY EmptyIndexTyped DEF Init, ReadingOK, DemandOK, Down
  <1>2. IInv /\ ReadingOK /\ DemandOK /\ [Next]_vars => (ReadingOK /\ DemandOK)'
    <2>1. ASSUME UNCHANGED vars, ReadingOK, DemandOK PROVE ReadingOK' /\ DemandOK'
      BY <2>1 DEF vars, indexVars, ReadingOK, DemandOK
    <2>2. ASSUME IInv, ReadingOK, DemandOK, Next PROVE ReadingOK' /\ DemandOK'
      BY <2>2, ReadingStep, DemandProcessStep, DemandRestoreStep, DemandDocumentStep,
         DemandEndsStep, DemandPressureStep DEF Next, BootSteps
    <2> QED BY <2>1, <2>2
  <1>3. IInv /\ DemandOK => DemandedIsCurrent
    BY DEF DemandOK, DemandedIsCurrent
  <1> QED BY SessionInvariant, <1>1, <1>2, <1>3, PTL DEF Spec

-------------------------------------------------------------------------------
(* What a save leaves in the cache. *)

\* What the cache holds of a save that met no error, by how far it has come.
Filled(s, c) ==
  /\ s.phase = "prune" => Hashes(c.entries) \subseteq Hashes(s.entries) \cup s.left
  /\ s.phase = "write" =>
       /\ Hashes(c.entries) \subseteq Hashes(s.entries)
       /\ \A e \in s.entries : e.uri \in s.left \/ e.text \in Hashes(c.entries)
  /\ s.phase \in {"index", "manifest"} => Hashes(c.entries) = Hashes(s.entries)

Whole(s, c) ==
  /\ \A d, e \in s.entries : d.uri = e.uri => d = e
  /\ s.clean /\ c.dir => Filled(s, c)

\* A save is clean only while it is alone: nobody else writes to its cache.
WholeOK ==
  \A s \in DOMAIN saves : Whole(saves[s], cache) /\ (saves[s].clean => DOMAIN saves = {s})

LEMMA CacheHashes ==
  ASSUME NEW c, IsCache(c), NEW t, NEW e
  PROVE  /\ Hashes(RemoveEntry(c, t).entries) = Hashes(c.entries) \ {t}
         /\ RemoveEntry(c, t).dir = c.dir
         /\ Hashes(SaveEntry(c, e).entries) = Hashes(c.entries) \cup {e.text}
  <1>1. c = [dir |-> c.dir, entries |-> c.entries, root |-> c.root, marked |-> c.marked,
             manifest |-> c.manifest]
    BY DEF IsCache
  <1>2. RemoveEntry(c, t).entries = {o \in c.entries : o.text # t} /\ RemoveEntry(c, t).dir = c.dir
    BY <1>1 DEF RemoveEntry
  <1>3. SaveEntry(c, e).entries = {o \in c.entries : o.text # e.text} \cup {e}
    BY <1>1 DEF SaveEntry
  <1>4. Hashes(RemoveEntry(c, t).entries) = Hashes(c.entries) \ {t}
    BY <1>2 DEF Hashes
  <1>5. Hashes(SaveEntry(c, e).entries) = Hashes(c.entries) \cup {e.text}
    BY <1>3 DEF Hashes
  <1> QED BY <1>2, <1>4, <1>5

\* The index and the manifest leave the files as they are.
LEMMA CacheMarks ==
  ASSUME NEW c, IsCache(c), NEW entries
  PROVE  /\ WriteCacheIndex(c).entries = c.entries
         /\ WriteManifest(c, entries).entries = c.entries
         /\ Hashes(WriteManifest(c, entries).manifest) = Hashes(entries)
         /\ [c EXCEPT !.root = "other"].entries = c.entries
         /\ [c EXCEPT !.root = "other"].dir = c.dir
         /\ [c EXCEPT !.root = "other"].manifest = c.manifest
  <1>1. c = [dir |-> c.dir, entries |-> c.entries, root |-> c.root, marked |-> c.marked,
             manifest |-> c.manifest]
    BY DEF IsCache
  <1>2. WriteCacheIndex(c).entries = c.entries BY <1>1 DEF WriteCacheIndex
  <1> DEFINE records == {[uri |-> o.uri, text |-> o.text, deps |-> o.deps] : o \in entries}
  <1>3. Hashes(records) = Hashes(entries)
    <2>1. \A x : x \in Hashes(records) <=> \E r \in records : r.text = x BY DEF Hashes
    <2>2. \A x : x \in Hashes(entries) <=> \E o \in entries : o.text = x BY DEF Hashes
    <2>3. ASSUME NEW r \in records PROVE \E o \in entries : o.text = r.text OBVIOUS
    <2>4. ASSUME NEW o \in entries PROVE \E r \in records : r.text = o.text
      <3>1. [uri |-> o.uri, text |-> o.text, deps |-> o.deps] \in records OBVIOUS
      <3> QED BY <3>1
    <2> HIDE DEF records
    <2> QED BY <2>1, <2>2, <2>3, <2>4
  <1> HIDE DEF records
  <1>4. WriteManifest(c, entries) = [c EXCEPT !.marked = TRUE, !.manifest = records]
    BY DEF WriteManifest, records
  <1>5. WriteManifest(c, entries).entries = c.entries /\ WriteManifest(c, entries).manifest = records
    BY <1>1, <1>4
  <1>6. /\ [c EXCEPT !.root = "other"].entries = c.entries
        /\ [c EXCEPT !.root = "other"].dir = c.dir
        /\ [c EXCEPT !.root = "other"].manifest = c.manifest
    BY <1>1
  <1> QED BY <1>2, <1>3, <1>5, <1>6

\* One save takes a step: the others are not clean.
LEMMA WholeGoes ==
  ASSUME WholeOK, NEW s \in DOMAIN saves, NEW n, saves' = [saves EXCEPT ![s] = n],
         n.clean => saves[s].clean, Whole(n, cache')
  PROVE  WholeOK'
  <1>1. DOMAIN saves' = DOMAIN saves /\ saves'[s] = n
        /\ \A r \in DOMAIN saves : r # s => saves'[r] = saves[r]
    OBVIOUS
  <1>2. ASSUME NEW r \in DOMAIN saves', r # s PROVE Whole(saves'[r], cache') /\ ~saves'[r].clean
    BY <1>1, <1>2 DEF WholeOK, Whole
  <1> QED BY <1>1, <1>2 DEF WholeOK

\* A save is over.
LEMMA WholeEnds ==
  ASSUME WholeOK, NEW s \in DOMAIN saves, SaveEnds(s)
  PROVE  WholeOK'
  <1>1. saves' = [r \in DOMAIN saves \ {s} |-> saves[r]] BY DEF SaveEnds
  <1>2. ASSUME NEW r \in DOMAIN saves' PROVE Whole(saves'[r], cache') /\ ~saves'[r].clean
    BY <1>1, <1>2 DEF WholeOK, Whole
  <1> QED BY <1>2 DEF WholeOK

\* A save begins, and the others are clean no longer.
LEMMA WholeStarting ==
  ASSUME SavesOK, WholeOK, cache' = cache, NEW by, Starting(by)
  PROVE  WholeOK'
  <1>1. PICK s \in Slots \ DOMAIN saves :
          saves' = [r \in DOMAIN saves \cup {s} |->
            IF r = s THEN [phase |-> "mkdir", by |-> by, entries |-> {}, left |-> {},
                           clean |-> DOMAIN saves = {}]
            ELSE [saves[r] EXCEPT !.clean = FALSE]]
    BY DEF Starting
  <1> DEFINE n == [phase |-> "mkdir", by |-> by, entries |-> {}, left |-> {},
                   clean |-> DOMAIN saves = {}]
  <1>2. saves'[s] = n /\ DOMAIN saves' = DOMAIN saves \cup {s} BY <1>1
  <1>3. ASSUME NEW r \in DOMAIN saves
        PROVE  Whole(saves'[r], cache') /\ ~saves'[r].clean
    <2> DEFINE o == saves[r]
               m == [o EXCEPT !.clean = FALSE]
    <2>1. saves'[r] = m BY <1>1
    <2>2. IsSave(o) /\ Whole(o, cache) BY DEF SavesOK, WholeOK
    <2> HIDE DEF o
    <2>4. o = [phase |-> o.phase, by |-> o.by, entries |-> o.entries, left |-> o.left,
               clean |-> o.clean]
      BY <2>2 DEF IsSave
    <2>3. m.entries = o.entries /\ ~m.clean BY <2>4
    <2> HIDE DEF m
    <2> QED BY <2>1, <2>2, <2>3 DEF Whole
  <1>4. Whole(n, cache') /\ (n.clean <=> DOMAIN saves = {}) BY DEF Whole, Filled
  <1> HIDE DEF n
  <1> QED BY <1>2, <1>3, <1>4 DEF WholeOK

\* Each step of a save fills the cache a little more, or the save is not clean.
LEMMA WholeSaveStep ==
  ASSUME IInv, WholeOK, NEW s \in Slots, SaveSteps(s) \/ Deadline(s)
  PROVE  WholeOK'
  <1> DEFINE save == saves[s]
  <1>1. s \in DOMAIN saves
    BY DEF SaveSteps, SaveCollects, SaveCannotStart, SaveLists, SavePrunes, SaveKeeps,
           SaveHasPruned, SaveWrites, SaveHasWritten, SaveMarks, SaveFinishes, Deadline, In
  <1>2. /\ IsCache(cache) /\ IsIndex(ix) /\ IsSave(save) /\ Whole(save, cache)
        /\ save = [phase |-> save.phase, by |-> save.by, entries |-> save.entries,
                   left |-> save.left, clean |-> save.clean]
    BY <1>1 DEF IInv, CacheOK, IndexOK, SavesOK, WholeOK, IsSave
  <1>3. ASSUME NEW n, saves' = [saves EXCEPT ![s] = n] \/ Goes(s, n),
               n.clean => save.clean, n.entries = save.entries,
               n.clean /\ cache'.dir => Filled(n, cache')
        PROVE  WholeOK'
    <2>1. saves' = [saves EXCEPT ![s] = n] BY <1>3 DEF Goes
    <2>2. Whole(n, cache') BY <1>2, <1>3 DEF Whole
    <2> QED BY <1>1, <1>3, <2>1, <2>2, WholeGoes
  <1>4. CASE SaveCollects(s)
    <2> DEFINE n == [save EXCEPT !.phase = "list", !.entries = Collected(ix)]
    <2>1. Goes(s, n) BY <1>4 DEF SaveCollects
    <2>2. \A d, e \in Collected(ix) : d.uri = e.uri => d = e BY DEF Collected
    <2> HIDE DEF save
    <2>3. n.phase = "list" /\ n.entries = Collected(ix) /\ n.clean = save.clean BY <1>2
    <2> HIDE DEF n
    <2>4. Whole(n, cache') BY <2>2, <2>3 DEF Whole, Filled
    <2> QED BY <1>1, <2>1, <2>3, <2>4, WholeGoes DEF Goes, save
  <1>5. CASE SaveCannotStart(s) \/ SaveFinishes(s)
    BY <1>1, <1>5, WholeEnds DEF SaveCannotStart, SaveFinishes
  <1>6. CASE SaveLists(s)
    <2> DEFINE left == StaleHashes(cache, save.entries)
               n == [save EXCEPT !.phase = "prune", !.left = left]
    <2>1. Goes(s, n) /\ cache' = cache BY <1>6 DEF SaveLists
    <2>2. Hashes(cache.entries) \subseteq Hashes(save.entries) \cup left BY DEF StaleHashes
    <2> HIDE DEF save, left
    <2>3. n.phase = "prune" /\ n.left = left /\ n.entries = save.entries /\ n.clean = save.clean
      BY <1>2
    <2> HIDE DEF n
    <2>4. Filled(n, cache') BY <2>1, <2>2, <2>3 DEF Filled
    <2> QED BY <1>3, <2>1, <2>3, <2>4
  <1>7. CASE SavePrunes(s)
    <2>1. PICK t \in save.left : /\ cache' = RemoveEntry(cache, t)
                                 /\ Goes(s, [save EXCEPT !.left = @ \ {t}])
      BY <1>7 DEF SavePrunes
    <2> DEFINE n == [save EXCEPT !.left = @ \ {t}]
    <2>2. save.phase = "prune" BY <1>7 DEF SavePrunes, In
    <2>3. Hashes(cache'.entries) = Hashes(cache.entries) \ {t} /\ cache'.dir = cache.dir
      BY <1>2, <2>1, CacheHashes
    <2>4. Goes(s, n) BY <2>1
    <2> HIDE DEF save
    <2>5. n.phase = "prune" /\ n.left = save.left \ {t} /\ n.entries = save.entries
          /\ n.clean = save.clean
      BY <1>2, <2>2
    <2> HIDE DEF n
    <2>6. n.clean /\ cache'.dir => Filled(n, cache')
      BY <1>2, <2>2, <2>3, <2>5 DEF Whole, Filled
    <2> QED BY <1>3, <2>4, <2>5, <2>6
  <1>8. CASE SaveKeeps(s)
    <2> DEFINE n == [save EXCEPT !.left = {}, !.clean = FALSE]
    <2>1. Goes(s, n) BY <1>8 DEF SaveKeeps
    <2> HIDE DEF save
    <2>2. ~n.clean /\ n.entries = save.entries BY <1>2
    <2> HIDE DEF n
    <2> QED BY <1>3, <2>1, <2>2
  <1>9. CASE SaveHasPruned(s)
    <2> DEFINE left == {e.uri : e \in save.entries}
               n == [save EXCEPT !.phase = "write", !.left = left]
    <2>1. Goes(s, n) /\ cache' = cache /\ save.phase = "prune" /\ save.left = {}
      BY <1>9 DEF SaveHasPruned, In
    <2>2. \A e \in save.entries : e.uri \in left OBVIOUS
    <2> HIDE DEF save, left
    <2>3. n.phase = "write" /\ n.left = left /\ n.entries = save.entries /\ n.clean = save.clean
      BY <1>2
    <2> HIDE DEF n
    <2>4. n.clean /\ cache'.dir => Filled(n, cache')
      BY <1>2, <2>1, <2>2, <2>3 DEF Whole, Filled
    <2> QED BY <1>3, <2>1, <2>3, <2>4
  <1>10. CASE SaveWrites(s)
    <2>1. PICK e \in save.entries :
            \/ /\ cache.dir /\ cache' = SaveEntry(cache, e)
               /\ Goes(s, [save EXCEPT !.left = @ \ {e.uri}])
            \/ Goes(s, [save EXCEPT !.left = @ \ {e.uri}, !.clean = FALSE])
      BY <1>10 DEF SaveWrites
    <2>2. save.phase = "write" BY <1>10 DEF SaveWrites, In
    <2> DEFINE n == [save EXCEPT !.left = @ \ {e.uri}]
               m == [save EXCEPT !.left = @ \ {e.uri}, !.clean = FALSE]
    <2>3. (cache.dir /\ cache' = SaveEntry(cache, e) /\ Goes(s, n)) \/ Goes(s, m) BY <2>1
    <2> HIDE DEF save
    <2>4. n.phase = "write" /\ n.left = save.left \ {e.uri} /\ n.entries = save.entries
          /\ n.clean = save.clean
      BY <1>2, <2>2
    <2>5. ~m.clean /\ m.entries = save.entries BY <1>2
    <2> HIDE DEF n, m
    <2>6. CASE Goes(s, m) BY <1>3, <2>5, <2>6
    <2>7. CASE cache.dir /\ cache' = SaveEntry(cache, e) /\ Goes(s, n)
      <3>1. Hashes(cache'.entries) = Hashes(cache.entries) \cup {e.text}
        BY <1>2, <2>7, CacheHashes
      <3>2. e.text \in Hashes(save.entries) BY DEF Hashes
      <3>3. \A d \in save.entries : d.uri = e.uri => d = e BY <1>2 DEF Whole
      <3>4. save.clean => Filled(save, cache) BY <1>2, <2>7 DEF Whole
      <3>5. save.clean => Filled(n, cache')
        BY <2>2, <2>4, <3>1, <3>2, <3>3, <3>4 DEF Filled
      <3> QED BY <1>3, <2>4, <2>7, <3>5
    <2> QED BY <2>3, <2>6, <2>7
  <1>11. CASE SaveHasWritten(s)
    <2> DEFINE n == [save EXCEPT !.phase = "index"]
    <2>1. Goes(s, n) /\ cache' = cache /\ save.phase = "write" /\ save.left = {}
      BY <1>11 DEF SaveHasWritten, In
    <2> HIDE DEF save
    <2>2. n.phase = "index" /\ n.entries = save.entries /\ n.clean = save.clean BY <1>2
    <2> HIDE DEF n
    <2>3. ASSUME Filled(save, cache) PROVE Hashes(cache.entries) = Hashes(save.entries)
      <3>1. \A e \in save.entries : e.text \in Hashes(cache.entries)
        BY <2>1, <2>3 DEF Filled
      <3>2. Hashes(save.entries) \subseteq Hashes(cache.entries) BY <3>1 DEF Hashes
      <3> QED BY <2>1, <2>3, <3>2 DEF Filled
    <2>4. n.clean /\ cache'.dir => Filled(n, cache')
      BY <1>2, <2>1, <2>2, <2>3 DEF Whole, Filled
    <2> QED BY <1>3, <2>1, <2>2, <2>4
  <1>12. CASE SaveMarks(s)
    <2> DEFINE n == [save EXCEPT !.phase = "manifest"]
               m == [save EXCEPT !.phase = "manifest", !.clean = FALSE]
    <2>1. /\ (cache.dir /\ cache' = WriteCacheIndex(cache) /\ Goes(s, n)) \/ Goes(s, m)
          /\ save.phase = "index"
      BY <1>12 DEF SaveMarks, In
    <2> HIDE DEF save
    <2>2. n.phase = "manifest" /\ n.entries = save.entries /\ n.clean = save.clean BY <1>2
    <2>3. ~m.clean /\ m.entries = save.entries BY <1>2
    <2> HIDE DEF n, m
    <2>4. CASE Goes(s, m) BY <1>3, <2>3, <2>4
    <2>5. CASE cache.dir /\ cache' = WriteCacheIndex(cache) /\ Goes(s, n)
      <3>1. cache'.entries = cache.entries BY <1>2, <2>5, CacheMarks
      <3>2. save.clean => Filled(n, cache')
        BY <1>2, <2>1, <2>2, <2>5, <3>1 DEF Whole, Filled
      <3> QED BY <1>3, <2>2, <2>5, <3>2
    <2> QED BY <2>1, <2>4, <2>5
  <1>13. CASE Deadline(s)
    <2> DEFINE n == [save EXCEPT !.by = "nobody"]
    <2>1. saves' = [saves EXCEPT ![s] = n] /\ cache' = cache BY <1>13 DEF Deadline
    <2> HIDE DEF save
    <2>2. n.phase = save.phase /\ n.left = save.left /\ n.entries = save.entries
          /\ n.clean = save.clean
      BY <1>2
    <2> HIDE DEF n
    <2>3. n.clean /\ cache'.dir => Filled(n, cache')
      BY <1>2, <2>1, <2>2 DEF Whole, Filled
    <2> QED BY <1>3, <2>1, <2>2, <2>3
  <1> QED
    BY <1>4, <1>5, <1>6, <1>7, <1>8, <1>9, <1>10, <1>11, <1>12, <1>13 DEF SaveSteps

\* Nothing else touches a save or the files it wrote: a cache that is deleted
\* has no directory, and one that is outdated has all its files.
LEMMA WholeOtherStep ==
  ASSUME IInv, WholeOK, Next, ~\E s \in Slots : SaveSteps(s) \/ Deadline(s)
  PROVE  WholeOK'
  <1>1. SavesOK /\ IsCache(cache) BY DEF IInv, CacheOK
  <1>2. ASSUME saves' = saves, cache' = cache PROVE WholeOK'
    BY <1>2 DEF WholeOK
  <1>3. CASE ServerCrashes \/ ServerStops
    <2>1. saves' = [s \in {} |-> {}] BY <1>3 DEF ServerCrashes, ServerStops, Gones
    <2> QED BY <2>1 DEF WholeOK
  <1>4. CASE StopRequested \/ Hibernate
    <2>1. cache' = cache /\ (saves' = saves \/ \E by : Starting(by))
      BY <1>4 DEF StopRequested, Hibernate
    <2> QED BY <1>1, <1>2, <2>1, WholeStarting
  <1>5. CASE Upgrade
    <2>1. cache' = [cache EXCEPT !.root = "other"] /\ saves' = saves BY <1>5 DEF Upgrade
    <2>2. cache'.entries = cache.entries /\ cache'.dir = cache.dir BY <1>1, <2>1, CacheMarks
    <2> QED BY <2>1, <2>2 DEF WholeOK, Whole, Filled
  <1>6. CASE DeletesCache
    <2>1. cache' = EmptyCache /\ saves' = saves BY <1>6 DEF DeletesCache, Booted
    <2>2. ~cache'.dir BY <2>1 DEF EmptyCache
    <2> QED BY <2>1, <2>2 DEF WholeOK, Whole
  <1>7. CASE ServerStarts \/ ServerFails \/ ServerStays \/ TimerFires \/ Pressure
    BY <1>2, <1>7 DEF ServerStarts, ServerFails, ServerStays, TimerFires, Pressure
  <1>8. CASE BootSteps
    BY <1>2, <1>6, <1>8 DEF BootSteps, RestoresStubs, LoadsCache, ReadsCacheIndex,
                            RestoresEntries, RestoresNothing, RefreshReads, Refreshes, Refreshed, Booted
  <1>9. CASE \/ \E f \in Files, t \in Texts \cup {Gone} : DiskChanges(f, t)
             \/ \E f \in Files : Open(f) \/ Close(f) \/ Request(f) \/ Scan(f)
    BY <1>2, <1>9 DEF DiskChanges, Open, Close, Request, Scan
  <1>10. CASE \E f \in Files, t \in Texts :
                Edit(f, t) \/ DemandEnds(f, t) \/ HydrateEnds(f, t) \/ ChangeEnds(f, t)
    BY <1>2, <1>10 DEF Edit, DemandEnds, HydrateEnds, ChangeEnds
  <1> QED BY <1>3, <1>4, <1>5, <1>7, <1>8, <1>9, <1>10 DEF Next

\* The manifest is written by the one save that ends, over the files it wrote.
LEMMA WholeManifest ==
  ASSUME IInv, WholeOK, Next, NEW s \in DOMAIN saves, s \notin DOMAIN saves',
         saves[s].phase = "manifest", saves[s].clean, cache'.manifest # cache.manifest
  PROVE  Hashes(cache'.entries) = Hashes(cache'.manifest)
  <1>1. IsCache(cache) /\ DOMAIN saves = {s} /\ Whole(saves[s], cache) /\ s \in Slots
    BY DEF IInv, CacheOK, SavesOK, WholeOK
  <1>2. ASSUME cache.dir, cache' = WriteManifest(cache, saves[s].entries)
        PROVE  Hashes(cache'.entries) = Hashes(cache'.manifest)
    <2>1. Hashes(cache.entries) = Hashes(saves[s].entries)
      BY <1>1, <1>2 DEF Whole, Filled
    <2>2. cache'.entries = cache.entries /\ Hashes(cache'.manifest) = Hashes(saves[s].entries)
      BY <1>1, <1>2, CacheMarks
    <2> QED BY <2>1, <2>2
  <1>3. ASSUME NEW r \in Slots, SaveSteps(r) \/ Deadline(r)
        PROVE  cache.dir /\ cache' = WriteManifest(cache, saves[s].entries)
    <2>1. DOMAIN saves' = DOMAIN saves \/ SaveEnds(r)
      BY <1>3 DEF SaveSteps, SaveCollects, SaveCannotStart, SaveLists, SavePrunes, SaveKeeps,
                  SaveHasPruned, SaveWrites, SaveHasWritten, SaveMarks, SaveFinishes, Deadline,
                  Goes
    <2>2. SaveCannotStart(r) \/ SaveFinishes(r)
      BY <1>3 DEF SaveSteps, SaveCollects, SaveCannotStart, SaveLists, SavePrunes, SaveKeeps,
                  SaveHasPruned, SaveWrites, SaveHasWritten, SaveMarks, SaveFinishes, Deadline,
                  Goes
    <2>3. r = s BY <1>1, <2>2 DEF SaveCannotStart, SaveFinishes, In
    <2> QED BY <2>2, <2>3 DEF SaveCannotStart, SaveFinishes, In
  <1>4. CASE ~\E r \in Slots : SaveSteps(r) \/ Deadline(r)
    <2>1. cache'.manifest = cache.manifest \/ s \in DOMAIN saves'
      <3>1. CASE DeletesCache BY <3>1 DEF DeletesCache, Booted
      <3>2. CASE Upgrade BY <1>1, <3>2, CacheMarks DEF Upgrade
      <3>3. CASE ~DeletesCache /\ ~Upgrade
        BY <1>4, <3>3
           DEF Next, ServerStarts, ServerFails, ServerCrashes, Gones, ServerStays, TimerFires,
               StopRequested, ServerStops, DiskChanges, Hibernate, BootSteps, RestoresStubs,
               LoadsCache, ReadsCacheIndex, RestoresEntries, RestoresNothing, RefreshReads,
               Refreshes, Refreshed, Booted,
               Open, Close, Request, Scan, Edit, DemandEnds, HydrateEnds, ChangeEnds, Pressure
      <3> QED BY <3>1, <3>2, <3>3
    <2> QED BY <2>1
  <1> QED BY <1>2, <1>3, <1>4

\* The manifest of a save that met no error and no other save names the files
\* that are there, however requests, the deadline, the cleared index and the
\* end of the process fell between its steps.
THEOREM CleanSavesAreWhole == Spec => SavedCacheIsWhole
  <1>1. Init => WholeOK BY DEF Init, WholeOK
  <1>2. IInv /\ WholeOK /\ [Next]_vars => WholeOK'
    <2>1. ASSUME UNCHANGED vars, WholeOK PROVE WholeOK'
      BY <2>1 DEF vars, WholeOK
    <2>2. ASSUME IInv, WholeOK, Next PROVE WholeOK'
      BY <2>2, WholeSaveStep, WholeOtherStep
    <2> QED BY <2>1, <2>2
  <1> DEFINE A == \A s \in DOMAIN saves :
                    (s \notin DOMAIN saves' /\ saves[s].phase = "manifest" /\ saves[s].clean
                       /\ cache'.manifest # cache.manifest)
                      => Hashes(cache'.entries) = Hashes(cache'.manifest)
  <1>3. IInv /\ WholeOK /\ [Next]_vars => [A]_vars
    BY WholeManifest
  <1>4. SavedCacheIsWhole <=> [][A]_vars BY DEF SavedCacheIsWhole
  <1> HIDE DEF A
  <1> QED BY SessionInvariant, <1>1, <1>2, <1>3, <1>4, PTL DEF Spec
================================================================================
