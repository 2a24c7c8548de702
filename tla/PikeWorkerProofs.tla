--------------------------- MODULE PikeWorkerProofs ---------------------------
(***************************************************************************)
(* The handlers of PikeWorker are compositions of methods, so the proof    *)
(* has two layers: for each method a lemma about any record of the right   *)
(* type, and for each action a step that chains the lemmas of the methods  *)
(* it calls.  Sound is the inductive invariant between methods; between    *)
(* handlers it also holds that a non-empty queue waits for a write.        *)
(***************************************************************************)
EXTENDS PikeWorker, WellFoundedInduction, SequenceTheorems, TLAPS

Statuses == {"unborn", "new", "alive", "gone"}

\* The type of the record of PikeWorker's variables.
State ==
  [requestId : 0..MaxId, priority : [Ids -> Priorities], queued : SUBSET Ids,
   pending : SUBSET Ids, timers : SUBSET Ids, outcome : [Ids -> Outcomes],
   proc : Procs \cup {NoProc}, spawned : 0..MaxProcs, os : [Procs -> Statuses],
   sigterm : SUBSET Procs, sigkill : SUBSET Procs, grace : SUBSET Procs,
   pipe : [Procs -> Seq(Ids \cup {Junk})], writes : SUBSET [id : Ids, proc : Procs],
   sending : BOOLEAN, idleTimer : BOOLEAN, requestCount : Nat,
   spawnFailed : BOOLEAN, pikeUnavailable : BOOLEAN,
   consecutiveCrashes : Nat, backoff : BOOLEAN]

OpenIn(s) == {i \in Ids : s.outcome[i] = "open"}
PipedIn(s, i, p) == \E k \in DOMAIN s.pipe[p] : s.pipe[p][k] = i

\* r differs from s in none of the fields that describe the children or the
\* number of requests.
SameChildren(r, s) ==
  /\ r.spawned = s.spawned /\ r.os = s.os /\ r.sigkill = s.sigkill
  /\ r.pipe = s.pipe /\ r.writes = s.writes /\ r.requestId = s.requestId

SameContext(r, s) == SameChildren(r, s) /\ r.spawnFailed = s.spawnFailed

-------------------------------------------------------------------------------
(* Methods. *)

\* Settling removes the settled requests from the open ones and does no more.
LEMMA SettleLemma ==
  ASSUME NEW s \in State, NEW S, NEW how \in Outcomes, how # "open"
  PROVE  LET r == Settle(s, S, how) IN
         /\ r \in State /\ OpenIn(r) = OpenIn(s) \ S
         /\ SameContext(r, s) /\ r.sigterm = s.sigterm /\ r.grace = s.grace
         /\ r.queued = s.queued /\ r.pending = s.pending /\ r.timers = s.timers
         /\ r.proc = s.proc /\ r.sending = s.sending
  BY DEF Settle, State, OpenIn, SameContext, SameChildren

\* rejectAllPending leaves no open request among those it had in its map.
LEMMA RejectAllPendingLemma ==
  ASSUME NEW s \in State
  PROVE  LET r == RejectAllPending(s) IN
         /\ r \in State /\ OpenIn(r) = OpenIn(s) \ s.pending
         /\ SameContext(r, s) /\ r.sigterm = s.sigterm /\ r.grace = s.grace
         /\ r.queued = s.queued /\ r.pending = {}
         /\ r.proc = s.proc /\ r.sending = s.sending
  <1> DEFINE t == Settle(s, s.pending, "failed")
             T == t.timers \ s.pending
             r == RejectAllPending(s)
  <1>1. /\ t \in State /\ OpenIn(t) = OpenIn(s) \ s.pending
        /\ SameContext(t, s) /\ t.sigterm = s.sigterm /\ t.grace = s.grace /\ t.queued = s.queued
        /\ t.proc = s.proc /\ t.sending = s.sending
    BY SettleLemma DEF Outcomes
  <1>2. r = [t EXCEPT !.pending = {}, !.timers = T]
    BY DEF RejectAllPending
  <1>3. T \in SUBSET Ids
    BY <1>1 DEF State
  <1> HIDE DEF t, T, r
  <1>4. r \in State
    BY <1>1, <1>2, <1>3 DEF State
  <1>5. /\ r.outcome = t.outcome /\ r.sigterm = t.sigterm /\ r.grace = t.grace /\ r.queued = t.queued
        /\ r.pending = {} /\ r.proc = t.proc /\ r.sending = t.sending
        /\ SameContext(r, t)
    BY <1>1, <1>2 DEF State, SameContext, SameChildren
  <1> QED
    BY <1>1, <1>4, <1>5 DEF OpenIn, SameContext, SameChildren, r

\* rejectAllQueued empties the queues and their timers, not the pending map.
LEMMA RejectAllQueuedLemma ==
  ASSUME NEW s \in State
  PROVE  LET r == RejectAllQueued(s) IN
         /\ r \in State /\ OpenIn(r) = OpenIn(s) \ s.queued
         /\ SameContext(r, s) /\ r.sigterm = s.sigterm /\ r.grace = s.grace
         /\ r.queued = {} /\ r.pending = s.pending /\ r.timers = s.timers \ s.queued
         /\ r.proc = s.proc /\ r.sending = s.sending
  <1> DEFINE t == Settle(s, s.queued, "failed")
             T == t.timers \ s.queued
             r == RejectAllQueued(s)
  <1>1. /\ t \in State /\ OpenIn(t) = OpenIn(s) \ s.queued
        /\ SameContext(t, s) /\ t.sigterm = s.sigterm /\ t.grace = s.grace
        /\ t.pending = s.pending /\ t.timers = s.timers
        /\ t.proc = s.proc /\ t.sending = s.sending
    BY SettleLemma DEF Outcomes
  <1>2. r = [t EXCEPT !.queued = {}, !.timers = T]
    BY DEF RejectAllQueued
  <1>3. T \in SUBSET Ids /\ T = s.timers \ s.queued
    BY <1>1 DEF State
  <1> HIDE DEF t, T, r
  <1>4. r \in State
    BY <1>1, <1>2, <1>3 DEF State
  <1>5. /\ r.outcome = t.outcome /\ r.sigterm = t.sigterm /\ r.grace = t.grace /\ r.queued = {}
        /\ r.pending = t.pending /\ r.timers = T /\ r.proc = t.proc
        /\ r.sending = t.sending /\ SameContext(r, t)
    BY <1>1, <1>2 DEF State, SameContext, SameChildren
  <1> QED
    BY <1>1, <1>3, <1>4, <1>5 DEF OpenIn, SameContext, SameChildren, r

\* abandonWorker settles every request of the map and of the queues.
LEMMA AbandonWorkerLemma ==
  ASSUME NEW s \in State
  PROVE  LET r == AbandonWorker(s) IN
         /\ r \in State /\ OpenIn(r) = OpenIn(s) \ (s.pending \cup s.queued)
         /\ SameContext(r, s) /\ r.sigterm = s.sigterm /\ r.grace = s.grace
         /\ r.queued = {} /\ r.proc = NoProc /\ r.sending = FALSE
  <1> DEFINE u == RejectAllPending(s)
             t == RejectAllQueued(u)
             r == AbandonWorker(s)
  <1>1. /\ u \in State /\ OpenIn(u) = OpenIn(s) \ s.pending
        /\ SameContext(u, s) /\ u.sigterm = s.sigterm /\ u.grace = s.grace /\ u.queued = s.queued
    BY RejectAllPendingLemma
  <1> HIDE DEF u
  <1>2. /\ t \in State /\ OpenIn(t) = OpenIn(u) \ u.queued
        /\ SameContext(t, u) /\ t.sigterm = u.sigterm /\ t.grace = u.grace /\ t.queued = {}
    BY <1>1, RejectAllQueuedLemma
  <1>3. r = [t EXCEPT !.sending = FALSE, !.proc = NoProc]
    BY DEF AbandonWorker, u
  <1> HIDE DEF t, r
  <1>4. r \in State
    BY <1>2, <1>3 DEF State
  <1>5. /\ r.outcome = t.outcome /\ r.sigterm = t.sigterm /\ r.grace = t.grace /\ r.queued = t.queued
        /\ r.proc = NoProc /\ r.sending = FALSE /\ SameContext(r, t)
    BY <1>2, <1>3 DEF State, SameContext, SameChildren
  <1> QED
    BY <1>1, <1>2, <1>4, <1>5 DEF OpenIn, SameContext, SameChildren, r

\* failSpawn settles everything and remembers that the spawn failed.
LEMMA FailSpawnLemma ==
  ASSUME NEW s \in State, NEW permanent \in BOOLEAN
  PROVE  LET r == FailSpawn(s, permanent) IN
         /\ r \in State /\ OpenIn(r) = OpenIn(s) \ (s.pending \cup s.queued)
         /\ SameChildren(r, s) /\ r.spawnFailed = TRUE /\ r.sigterm = s.sigterm /\ r.grace = s.grace
         /\ r.queued = {} /\ r.proc = NoProc /\ r.sending = FALSE
  <1> DEFINE U == s.pikeUnavailable \/ permanent
             t == [s EXCEPT !.idleTimer = FALSE, !.spawnFailed = TRUE, !.pikeUnavailable = U]
  <1>1. U \in BOOLEAN
    OBVIOUS
  <1>2. FailSpawn(s, permanent) = AbandonWorker(t)
    BY Zenon DEF FailSpawn
  <1> HIDE DEF U
  <1>3. t = [s EXCEPT !.idleTimer = FALSE, !.spawnFailed = TRUE, !.pikeUnavailable = U]
    OBVIOUS
  <1> HIDE DEF t
  <1>4. t \in State
    BY <1>1, <1>3 DEF State
  <1>5. /\ t.outcome = s.outcome /\ SameChildren(t, s) /\ t.spawnFailed = TRUE
        /\ t.sigterm = s.sigterm /\ t.grace = s.grace
        /\ t.pending = s.pending /\ t.queued = s.queued
    BY <1>3 DEF State, SameChildren
  <1>6. OpenIn(t) = OpenIn(s)
    BY <1>5 DEF OpenIn
  <1> DEFINE r == AbandonWorker(t)
  <1>7. /\ r \in State /\ OpenIn(r) = OpenIn(t) \ (t.pending \cup t.queued)
        /\ SameContext(r, t) /\ r.sigterm = t.sigterm /\ r.grace = t.grace
        /\ r.queued = {} /\ r.proc = NoProc /\ r.sending = FALSE
    BY <1>4, AbandonWorkerLemma
  <1> HIDE DEF r
  <1>8. FailSpawn(s, permanent) = r
    BY <1>2 DEF r
  <1> QED
    BY <1>5, <1>6, <1>7, <1>8 DEF SameContext, SameChildren

\* stop signals the current process and forgets it and its requests.
LEMMA StopLemma ==
  ASSUME NEW s \in State
  PROVE  LET r == Stop(s) IN
         /\ r \in State /\ OpenIn(r) = OpenIn(s) \ s.pending
         /\ SameContext(r, s)
         /\ r.sigterm = s.sigterm \cup (IF IsAlive(s) THEN {s.proc} ELSE {})
         /\ r.grace = s.grace \cup (IF IsAlive(s) THEN {s.proc} ELSE {})
         /\ r.queued = {} /\ r.proc = NoProc /\ r.sending = FALSE
  <1> DEFINE u == RejectAllPending(s)
             dying == IF IsAlive(s) THEN {s.proc} ELSE {}
             T == u.sigterm \cup dying
             G == u.grace \cup dying
             r == Stop(s)
  <1>1. /\ u \in State /\ OpenIn(u) = OpenIn(s) \ s.pending
        /\ SameContext(u, s) /\ u.sigterm = s.sigterm /\ u.grace = s.grace
    BY RejectAllPendingLemma
  <1>2. dying \in SUBSET Procs
    BY DEF IsAlive, State
  <1>3. r = [u EXCEPT !.idleTimer = FALSE, !.sigterm = T, !.grace = G,
                      !.proc = NoProc, !.queued = {}, !.sending = FALSE]
    BY DEF Stop
  <1> HIDE DEF u, dying, r
  <1>a. T = s.sigterm \cup dying /\ G = s.grace \cup dying
    BY <1>1
  <1>4. T \in SUBSET Procs /\ G \in SUBSET Procs
    BY <1>1, <1>2 DEF State
  <1> HIDE DEF T, G
  <1>5. r \in State
    BY <1>1, <1>3, <1>4 DEF State
  <1>6. /\ r.outcome = u.outcome /\ r.sigterm = T /\ r.grace = G /\ r.queued = {}
        /\ r.proc = NoProc /\ r.sending = FALSE /\ SameContext(r, u)
    BY <1>1, <1>3 DEF State, SameContext, SameChildren
  <1> QED
    BY <1>1, <1>a, <1>4, <1>5, <1>6 DEF OpenIn, SameContext, SameChildren, r, dying

-------------------------------------------------------------------------------
(* The invariant, over records. *)

Signalled(s) == s.sigterm \cup s.sigkill

\* What has been written to a process and can still be answered or fail.
Asked(s) ==
  {i \in Ids : (\E x \in s.writes : x.id = i) \/ \E p \in Procs : PipedIn(s, i, p)}

Sound(s) ==
  /\ s \in State
  /\ s.proc # NoProc => s.proc \notin Signalled(s) /\ s.proc <= s.spawned
  /\ \A p \in Signalled(s) : p <= s.spawned
  /\ OpenIn(s) \subseteq s.pending \cap s.timers
  /\ s.queued \subseteq OpenIn(s)
  /\ \A i \in OpenIn(s) \ s.queued : s.proc # NoProc /\ PipedIn(s, i, s.proc)
  /\ s.sending => s.proc # NoProc /\ \E x \in s.writes : x.proc = s.proc
  /\ \A p \in Procs : s.os[p] \in {"new", "alive"} => p = s.proc \/ p \in Signalled(s)
  /\ \A i \in s.queued \cup Asked(s) : i <= s.requestId
  /\ s.queued \cap Asked(s) = {}
  /\ s.grace \subseteq Signalled(s)

\* No process and nothing asked of one.
Down(s) == OpenIn(s) = {} /\ s.queued = {} /\ s.proc = NoProc /\ s.sending = FALSE

\* What is asked of the children depends on the pipes and the writes alone.
LEMMA AskedSame ==
  ASSUME NEW r, NEW s, SameChildren(r, s)
  PROVE  Asked(r) = Asked(s) /\ r.requestId = s.requestId
  BY DEF SameChildren, Asked, PipedIn

\* What is left of a sound state once its process is signalled or gone.
LEMMA DownIsSound ==
  ASSUME NEW r \in State, Down(r),
         \A p \in Signalled(r) : p <= r.spawned,
         \A p \in Procs : r.os[p] \in {"new", "alive"} => p \in Signalled(r),
         \A i \in Asked(r) : i <= r.requestId,
         r.grace \subseteq Signalled(r)
  PROVE  Sound(r)
  BY DEF Sound, Down

\* stop keeps the invariant and leaves no process.
LEMMA StopSound ==
  ASSUME NEW s, Sound(s)
  PROVE  Sound(Stop(s)) /\ Down(Stop(s)) /\ SameContext(Stop(s), s)
  <1> DEFINE r == Stop(s)
  <1>1. /\ r \in State /\ OpenIn(r) = OpenIn(s) \ s.pending
        /\ SameContext(r, s)
        /\ r.sigterm = s.sigterm \cup (IF IsAlive(s) THEN {s.proc} ELSE {})
        /\ r.grace = s.grace \cup (IF IsAlive(s) THEN {s.proc} ELSE {})
        /\ r.queued = {} /\ r.proc = NoProc /\ r.sending = FALSE
    BY StopLemma DEF Sound
  <1> HIDE DEF r
  <1>2. Down(r)
    BY <1>1 DEF Sound, Down
  <1>3. \A p \in Signalled(r) : p <= r.spawned
    BY <1>1 DEF Sound, Signalled, SameContext, SameChildren, IsAlive
  <1>4. \A p \in Procs : r.os[p] \in {"new", "alive"} => p \in Signalled(r)
    BY <1>1 DEF Sound, Signalled, SameContext, SameChildren, IsAlive, Procs, NoProc
  <1>5. \A i \in Asked(r) : i <= r.requestId
    BY <1>1, AskedSame DEF Sound, SameContext
  <1>6. r.grace \subseteq Signalled(r)
    BY <1>1 DEF Sound, Signalled, SameContext, SameChildren
  <1> QED
    BY <1>1, <1>2, <1>3, <1>4, <1>5, <1>6, DownIsSound DEF r

\* A fresh child becomes the current process only when there is none.
LEMMA SpawnSound ==
  ASSUME NEW s, Sound(s), s.proc = NoProc, s.spawned < MaxProcs
  PROVE  /\ Sound(Spawn(s)) /\ Spawn(s).proc # NoProc
         /\ Spawn(s).requestId = s.requestId
  <1> DEFINE p == s.spawned + 1
             r == Spawn(s)
             O == [s.os EXCEPT ![p] = "new"]
  <1>a. s \in State /\ s.spawned \in 0..MaxProcs
    BY DEF Sound, State
  <1>1. p \in Procs /\ p \in 0..MaxProcs /\ p # NoProc /\ s \in State
    BY <1>a, PikeWorkerAssumption DEF Procs, NoProc
  <1>2. r = [s EXCEPT !.spawned = p, !.proc = p, !.os = O,
                      !.spawnFailed = FALSE, !.requestCount = 0]
    BY <1>1 DEF Spawn, State
  <1>3. O \in [Procs -> Statuses]
    BY <1>1 DEF State, Statuses
  <1>4. \A q \in Procs : q # p => O[q] = s.os[q]
    BY <1>1 DEF State
  <1>5. s.spawned < p /\ s.spawned \in Nat
    BY <1>1 DEF State
  <1> HIDE DEF p, O, r
  <1>6. r \in State
    BY <1>1, <1>2, <1>3 DEF State
  <1>7. /\ r.proc = p /\ r.spawned = p /\ r.os = O /\ r.outcome = s.outcome
        /\ r.sigterm = s.sigterm /\ r.grace = s.grace /\ r.sigkill = s.sigkill /\ r.queued = s.queued
        /\ r.pending = s.pending /\ r.timers = s.timers /\ r.sending = s.sending
        /\ r.requestId = s.requestId /\ r.pipe = s.pipe /\ r.writes = s.writes
    BY <1>1, <1>2 DEF State
  <1>8. OpenIn(r) = OpenIn(s) /\ Asked(r) = Asked(s)
    BY <1>7 DEF OpenIn, Asked, PipedIn
  <1>9. OpenIn(s) \ s.queued = {} /\ s.sending = FALSE
    BY DEF Sound, State
  <1>10. \A q \in Signalled(r) : q <= s.spawned /\ q \in Procs
    BY <1>6, <1>7 DEF Sound, Signalled, State
  <1>11. \A q \in Signalled(r) : q <= r.spawned /\ q # p
    BY <1>1, <1>5, <1>7, <1>10 DEF Procs
  <1>12. \A q \in Procs : r.os[q] \in {"new", "alive"} => q = r.proc \/ q \in Signalled(r)
    BY <1>4, <1>7 DEF Sound, Signalled, Procs, NoProc
  <1> QED
    BY <1>1, <1>6, <1>7, <1>8, <1>9, <1>11, <1>12 DEF Sound, r, Signalled, Procs

\* failSpawn keeps the invariant and leaves no process.
LEMMA FailSpawnSound ==
  ASSUME NEW s, Sound(s), s.proc = NoProc, NEW permanent \in BOOLEAN
  PROVE  LET r == FailSpawn(s, permanent) IN
         /\ Sound(r) /\ Down(r) /\ r.spawnFailed = TRUE /\ SameChildren(r, s)
  <1> DEFINE r == FailSpawn(s, permanent)
  <1>1. /\ r \in State /\ OpenIn(r) = OpenIn(s) \ (s.pending \cup s.queued)
        /\ SameChildren(r, s) /\ r.spawnFailed = TRUE /\ r.sigterm = s.sigterm /\ r.grace = s.grace
        /\ r.queued = {} /\ r.proc = NoProc /\ r.sending = FALSE
    BY FailSpawnLemma DEF Sound
  <1> HIDE DEF r
  <1>2. Down(r)
    BY <1>1 DEF Sound, Down
  <1>3. /\ Signalled(r) = Signalled(s) /\ r.spawned = s.spawned /\ r.os = s.os
        /\ r.grace \subseteq Signalled(r)
    BY <1>1 DEF Sound, Signalled, SameChildren
  <1>4. \A p \in Procs : r.os[p] \in {"new", "alive"} => p \in Signalled(r)
    BY <1>3 DEF Sound, Procs, NoProc
  <1>5. \A p \in Signalled(r) : p <= r.spawned
    BY <1>3 DEF Sound
  <1>6. \A i \in Asked(r) : i <= r.requestId
    BY <1>1, AskedSame DEF Sound
  <1> QED
    BY <1>1, <1>2, <1>3, <1>4, <1>5, <1>6, DownIsSound DEF r

\* start: afterwards there is a process or a failed spawn.
LEMMA StartSound ==
  ASSUME NEW s, Sound(s), NEW how \in {"ok", "permanent", "transient"},
         how = "ok" => s.proc # NoProc \/ s.spawned < MaxProcs
  PROVE  LET r == Start(s, how) IN
         /\ Sound(r) /\ r.requestId = s.requestId
         /\ r.proc # NoProc \/ r.spawnFailed = TRUE
         /\ r.proc = NoProc => r.spawned = s.spawned
  <1>1. CASE IsAlive(s)
    BY <1>1 DEF Start, IsAlive
  <1>2. CASE ~IsAlive(s)
    <2>1. s.proc = NoProc
      BY <1>2 DEF Sound, IsAlive, Signalled
    <2>2. CASE how = "ok"
      BY <1>2, <2>1, <2>2, SpawnSound DEF Start
    <2>3. CASE how # "ok"
      <3>1. Start(s, how) = FailSpawn(s, how = "permanent")
        BY <1>2, <2>3 DEF Start
      <3> QED
        BY <2>1, <3>1, FailSpawnSound DEF SameChildren
    <2> QED
      BY <2>2, <2>3
  <1> QED
    BY <1>1, <1>2

\* A new request is open, pending, timed and queued.
LEMMA PushSound ==
  ASSUME NEW s, Sound(s), s.requestId < MaxId, NEW pr \in Priorities
  PROVE  LET r == Push(s, pr) IN
         Sound(r) /\ r.proc = s.proc /\ r.spawnFailed = s.spawnFailed
  <1> DEFINE id == s.requestId + 1
             r == Push(s, pr)
             A == [s.priority EXCEPT ![id] = pr]
             O == [s.outcome EXCEPT ![id] = "open"]
             P == s.pending \cup {id}
             T == s.timers \cup {id}
             Q == s.queued \cup {id}
             n == s.requestCount + 1
  <1>a. s \in State /\ s.requestId \in 0..MaxId
    BY DEF Sound, State
  <1>1. id \in Ids /\ id \in 0..MaxId
    BY <1>a, PikeWorkerAssumption DEF Ids
  <1>2. r = [s EXCEPT !.requestId = id, !.priority = A, !.outcome = O,
                      !.requestCount = n, !.idleTimer = TRUE,
                      !.pending = P, !.timers = T, !.queued = Q]
    BY <1>a DEF Push, State
  <1>3. /\ A \in [Ids -> Priorities] /\ O \in [Ids -> Outcomes] /\ n \in Nat
        /\ P \in SUBSET Ids /\ T \in SUBSET Ids /\ Q \in SUBSET Ids
    BY <1>a, <1>1 DEF State, Outcomes
  <1>4. /\ O[id] = "open" /\ \A i \in Ids : i # id => O[i] = s.outcome[i]
    BY <1>a, <1>1 DEF State
  <1> HIDE DEF id, A, O, n, r
  <1>5. r \in State
    BY <1>a, <1>1, <1>2, <1>3 DEF State
  <1>6. /\ r.outcome = O /\ r.pending = P /\ r.timers = T /\ r.queued = Q
        /\ r.proc = s.proc /\ r.sending = s.sending /\ r.spawnFailed = s.spawnFailed
        /\ r.spawned = s.spawned /\ r.os = s.os /\ r.pipe = s.pipe
        /\ r.writes = s.writes /\ r.sigterm = s.sigterm /\ r.grace = s.grace /\ r.sigkill = s.sigkill
        /\ r.requestId = id
    BY <1>a, <1>2 DEF State
  <1>7. OpenIn(r) = OpenIn(s) \cup {id}
    BY <1>1, <1>4, <1>6 DEF OpenIn
  <1>8. \A i \in OpenIn(r) \ r.queued : r.proc # NoProc /\ PipedIn(r, i, r.proc)
    BY <1>6, <1>7 DEF Sound, PipedIn
  <1>9. Asked(r) = Asked(s)
    BY <1>6 DEF Asked, PipedIn
  <1>10. id <= id /\ \A i \in s.queued \cup Asked(s) : i <= id /\ i # id
    <2>1. \A i \in s.queued \cup Asked(s) : i \in Int /\ i <= s.requestId
      BY <1>a, PikeWorkerAssumption DEF Sound, Asked, Ids, State
    <2>2. s.requestId \in Int
      BY <1>a
    <2> QED
      BY <2>1, <2>2 DEF id
  <1>11. /\ \A i \in r.queued \cup Asked(r) : i <= r.requestId
         /\ r.queued \cap Asked(r) = {}
    BY <1>1, <1>6, <1>9, <1>10 DEF Sound, Q
  <1> QED
    BY <1>5, <1>6, <1>7, <1>8, <1>11 DEF Sound, Signalled, r

-------------------------------------------------------------------------------
(* drainQueue. *)

\* A non-empty set of naturals has a least element.
LEMMA LeastNatural ==
  ASSUME NEW T, T \subseteq Nat, T # {}
  PROVE  \E x \in T : \A y \in T : x <= y
  <1> DEFINE R == {ss \in Nat \X Nat : ss[1] < ss[2]}
  <1>1. IsWellFoundedOn(R, Nat)
    BY NatLessThanWellFounded, Zenon DEF OpToRel
  <1>2. ASSUME NEW x \in Nat, NEW y \in Nat, y < x
        PROVE  <<y, x>> \in R
    <2>1. <<y, x>> \in Nat \X Nat /\ <<y, x>>[1] < <<y, x>>[2]
      BY <1>2
    <2> QED
      BY <2>1, Zenon
  <1> HIDE DEF R
  <1>3. \E x \in T : \A y \in T : ~(<<y, x>> \in R)
    BY <1>1, WFMin, Zenon
  <1>4. \A x, y \in T : ~(<<y, x>> \in R) => x <= y
    BY <1>2
  <1> QED
    BY <1>3, <1>4

\* The item that drainQueue writes next is determined.
LEMMA NextExists ==
  ASSUME NEW s \in State, NEW live, live \subseteq Ids, live # {}
  PROVE  \E i \in live : \A j \in live \ {i} : Before(s, i, j)
  <1> DEFINE M == {s.priority[i] : i \in live}
  <1>1. M \subseteq Nat /\ M # {}
    BY DEF State, Priorities
  <1> HIDE DEF M
  <1>2. PICK m \in M : \A n \in M : m <= n
    BY <1>1, LeastNatural
  <1> DEFINE L == {i \in live : s.priority[i] = m}
  <1>3. L \subseteq Nat /\ L # {}
    <2>1. PICK i \in live : m = s.priority[i]
      BY DEF M
    <2>2. i \in L /\ L \subseteq live
      BY <2>1
    <2>3. live \subseteq Nat
      BY PikeWorkerAssumption DEF Ids
    <2> QED
      BY <2>2, <2>3, Zenon
  <1>4. PICK i \in L : \A j \in L : i <= j
    BY <1>3, LeastNatural
  <1>5. ASSUME NEW j \in live \ {i}
        PROVE  Before(s, i, j)
    <2>1. m <= s.priority[j] /\ m \in Nat /\ s.priority[j] \in Nat
      BY <1>1, <1>2 DEF M
    <2>2. i \in Nat /\ j \in Nat /\ i # j /\ s.priority[i] = m
      BY PikeWorkerAssumption DEF Ids
    <2>3. s.priority[j] = m => i <= j
      BY <1>4
    <2> QED
      BY <2>1, <2>2, <2>3 DEF Before
  <1> QED
    BY <1>5

\* Dropping cancelled items at the front of the queue.
LEMMA DropSound ==
  ASSUME NEW s, Sound(s), NEW D, D \subseteq s.queued
  PROVE  LET t == [Settle(s, D, "cancelled") EXCEPT
                     !.queued = @ \ D, !.pending = @ \ D,
                     !.timers = @ \ (D \cap s.pending)]
         IN  Sound(t) /\ t.queued = s.queued \ D /\ t.proc = s.proc
             /\ t.sending = s.sending
  <1> DEFINE u == Settle(s, D, "cancelled")
             Q == u.queued \ D
             P == u.pending \ D
             T == u.timers \ (D \cap s.pending)
             t == [u EXCEPT !.queued = Q, !.pending = P, !.timers = T]
  <1>1. /\ u \in State /\ OpenIn(u) = OpenIn(s) \ D
        /\ SameContext(u, s) /\ u.sigterm = s.sigterm /\ u.grace = s.grace
        /\ u.queued = s.queued /\ u.pending = s.pending /\ u.timers = s.timers
        /\ u.proc = s.proc /\ u.sending = s.sending
    BY SettleLemma DEF Outcomes, Sound
  <1>2. /\ Q \in SUBSET Ids /\ P \in SUBSET Ids /\ T \in SUBSET Ids
        /\ Q = s.queued \ D /\ P = s.pending \ D /\ s.timers \ D \subseteq T
    BY <1>1 DEF State
  <1>3. t = [u EXCEPT !.queued = Q, !.pending = P, !.timers = T]
    OBVIOUS
  <1> HIDE DEF u, Q, P, T, t
  <1>4. t \in State
    BY <1>1, <1>2, <1>3 DEF State
  <1>5. /\ t.outcome = u.outcome /\ t.queued = Q /\ t.pending = P /\ t.timers = T
        /\ t.proc = u.proc /\ t.sending = u.sending /\ t.sigterm = u.sigterm /\ t.grace = u.grace
        /\ SameContext(t, u)
    BY <1>1, <1>3 DEF State, SameContext, SameChildren
  <1>6. OpenIn(t) = OpenIn(s) \ D
    BY <1>1, <1>5 DEF OpenIn
  <1>7. OpenIn(t) \ t.queued = OpenIn(s) \ s.queued
    BY <1>2, <1>5, <1>6
  <1>8. \A i \in OpenIn(t) \ t.queued : t.proc # NoProc /\ PipedIn(t, i, t.proc)
    BY <1>1, <1>5, <1>7 DEF Sound, PipedIn, SameContext, SameChildren
  <1>9. OpenIn(t) \subseteq t.pending \cap t.timers
    BY <1>2, <1>5, <1>6 DEF Sound
  <1>10. t.queued \subseteq OpenIn(t)
    BY <1>2, <1>5, <1>6 DEF Sound
  <1>11. Asked(t) = Asked(s) /\ t.requestId = s.requestId
    BY <1>1, <1>5, AskedSame DEF SameContext, SameChildren
  <1> QED
    BY <1>1, <1>2, <1>4, <1>5, <1>8, <1>9, <1>10, <1>11
    DEF Sound, Signalled, SameContext, SameChildren, t, Q, P, T, u

\* An append keeps what was in the pipe and adds the appended request.
LEMMA AppendPiped ==
  ASSUME NEW S, NEW q \in Seq(S), NEW e \in S
  PROVE  /\ Append(q, e) \in Seq(S)
         /\ \E k \in DOMAIN Append(q, e) : Append(q, e)[k] = e
         /\ \A k \in DOMAIN q : k \in DOMAIN Append(q, e) /\ Append(q, e)[k] = q[k]
         /\ \A k \in DOMAIN Append(q, e) :
              Append(q, e)[k] = e \/ (k \in DOMAIN q /\ Append(q, e)[k] = q[k])
  <1>1. /\ Append(q, e) \in Seq(S) /\ Len(Append(q, e)) = Len(q) + 1
        /\ Append(q, e)[Len(q) + 1] = e
        /\ \A k \in 1..Len(q) : Append(q, e)[k] = q[k]
    BY AppendProperties
  <1>2. DOMAIN q = 1..Len(q) /\ Len(q) \in Nat
    OBVIOUS
  <1>3. DOMAIN Append(q, e) = 1..(Len(q) + 1)
    BY <1>1
  <1> QED
    BY <1>1, <1>2, <1>3

\* Writing one queued request to the current process.
LEMMA WriteSound ==
  ASSUME NEW t, Sound(t), t.proc # NoProc, NEW n \in t.queued
  PROVE  LET r == [t EXCEPT !.queued = @ \ {n}, !.sending = TRUE,
                            !.writes = @ \cup {[id |-> n, proc |-> t.proc]},
                            !.pipe[t.proc] = Append(@, n)]
         IN  Sound(r) /\ r.sending = TRUE
  <1> DEFINE p == t.proc
             q == t.pipe[p]
             x == [id |-> n, proc |-> p]
             Q == t.queued \ {n}
             W == t.writes \cup {x}
             P == [t.pipe EXCEPT ![p] = Append(q, n)]
             r == [t EXCEPT !.queued = Q, !.sending = TRUE, !.writes = W, !.pipe = P]
  <1>a. t \in State /\ t.queued \in SUBSET Ids /\ t.writes \in SUBSET [id : Ids, proc : Procs]
        /\ t.pipe \in [Procs -> Seq(Ids \cup {Junk})]
    BY DEF Sound, State
  <1>1. p \in Procs /\ n \in Ids
    BY <1>a DEF State
  <1>2. x \in [id : Ids, proc : Procs] /\ x.proc = p
    BY <1>1
  <1>3. Q \in SUBSET Ids /\ W \in SUBSET [id : Ids, proc : Procs] /\ x \in W
    BY <1>a, <1>2
  <1>4. q \in Seq(Ids \cup {Junk}) /\ n \in Ids \cup {Junk}
    BY <1>a, <1>1
  <1>5. /\ Append(q, n) \in Seq(Ids \cup {Junk})
        /\ \E k \in DOMAIN Append(q, n) : Append(q, n)[k] = n
        /\ \A k \in DOMAIN q : k \in DOMAIN Append(q, n) /\ Append(q, n)[k] = q[k]
        /\ \A k \in DOMAIN Append(q, n) :
             Append(q, n)[k] = n \/ (k \in DOMAIN q /\ Append(q, n)[k] = q[k])
    <2> DEFINE S == Ids \cup {Junk}
    <2>1. q \in Seq(S) /\ n \in S
      BY <1>4
    <2> HIDE DEF q, S
    <2>2. /\ Append(q, n) \in Seq(S)
          /\ \E k \in DOMAIN Append(q, n) : Append(q, n)[k] = n
          /\ \A k \in DOMAIN q : k \in DOMAIN Append(q, n) /\ Append(q, n)[k] = q[k]
          /\ \A k \in DOMAIN Append(q, n) :
               Append(q, n)[k] = n \/ (k \in DOMAIN q /\ Append(q, n)[k] = q[k])
      BY <2>1, AppendPiped
    <2> QED
      BY <2>2 DEF S
  <1>6. P \in [Procs -> Seq(Ids \cup {Junk})] /\ P[p] = Append(q, n)
    BY <1>a, <1>1, <1>5
  <1>7. r = [t EXCEPT !.queued = Q, !.sending = TRUE, !.writes = W, !.pipe = P]
    OBVIOUS
  <1>q. q = t.pipe[p]
    OBVIOUS
  <1> HIDE DEF q, x, Q, W, P, r
  <1>8. r \in State
    BY <1>a, <1>3, <1>6, <1>7 DEF State
  <1>9. /\ r.queued = Q /\ r.sending = TRUE /\ r.writes = W /\ r.pipe = P
        /\ r.outcome = t.outcome /\ r.pending = t.pending /\ r.timers = t.timers
        /\ r.proc = t.proc /\ r.spawned = t.spawned /\ r.os = t.os
        /\ r.sigterm = t.sigterm /\ r.grace = t.grace /\ r.sigkill = t.sigkill /\ r.requestId = t.requestId
    BY <1>a, <1>7 DEF State
  <1>10. OpenIn(r) = OpenIn(t)
    BY <1>9 DEF OpenIn
  <1>11. ASSUME NEW i \in OpenIn(r) \ r.queued
         PROVE  PipedIn(r, i, r.proc)
    <2>1. CASE i = n
      BY <2>1, <1>5, <1>6, <1>9 DEF PipedIn
    <2>2. CASE i # n
      <3>1. i \in OpenIn(t) \ t.queued
        BY <2>2, <1>9, <1>10, <1>11 DEF Q
      <3>2. PICK k \in DOMAIN q : q[k] = i
        BY <3>1, <1>q DEF Sound, PipedIn
      <3> QED
        BY <3>2, <1>5, <1>6, <1>9 DEF PipedIn
    <2> QED
      BY <2>1, <2>2
  <1>12. r.queued \subseteq OpenIn(r)
    BY <1>9, <1>10 DEF Sound, Q
  <1>13. \E y \in r.writes : y.proc = r.proc
    BY <1>2, <1>3, <1>9
  <1>14. Asked(r) \subseteq Asked(t) \cup {n}
    <2> SUFFICES ASSUME NEW i \in Asked(r), i # n
                 PROVE  i \in Asked(t)
      OBVIOUS
    <2>1. CASE \E y \in r.writes : y.id = i
      BY <2>1, <1>9 DEF Asked, W, x
    <2>2. CASE \E o \in Procs : PipedIn(r, i, o)
      <3>0. PICK o \in Procs : PipedIn(r, i, o)
        BY <2>2
      <3>1. PICK k \in DOMAIN P[o] : P[o][k] = i
        BY <3>0, <1>9 DEF PipedIn
      <3>2. CASE o # p
        BY <3>1, <3>2, <1>a DEF Asked, PipedIn, P
      <3>3. CASE o = p
        <4>1. k \in DOMAIN q /\ q[k] = i
          BY <3>1, <3>3, <1>5, <1>6
        <4> QED
          BY <4>1, <1>1, <1>q DEF Asked, PipedIn
      <3> QED
        BY <3>2, <3>3
    <2> QED
      BY <2>1, <2>2 DEF Asked
  <1>15. /\ \A i \in r.queued \cup Asked(r) : i <= r.requestId
         /\ r.queued \cap Asked(r) = {}
    BY <1>9, <1>14 DEF Sound, Q
  <1>16. Sound(r)
    BY <1>8, <1>9, <1>10, <1>11, <1>12, <1>13, <1>15 DEF Sound, Signalled
  <1>17. r = [t EXCEPT !.queued = @ \ {n}, !.sending = TRUE,
                       !.writes = @ \cup {[id |-> n, proc |-> t.proc]},
                       !.pipe[t.proc] = Append(@, n)]
    BY <1>7 DEF q, x, Q, W, P
  <1> QED
    BY <1>9, <1>16, <1>17

\* drainQueue keeps the invariant and leaves no queue that nobody will drain.
LEMMA DrainSound ==
  ASSUME NEW s, Sound(s), cancelRequested \subseteq Ids,
         s.queued # {} => s.proc # NoProc \/ s.spawnFailed = TRUE
  PROVE  LET r == DrainQueue(s) IN
         Sound(r) /\ (r.queued # {} => r.sending = TRUE)
  <1> DEFINE live    == s.queued \ cancelRequested
             next    == CHOOSE i \in live : \A j \in live \ {i} : Before(s, i, j)
             D       == {i \in s.queued \cap cancelRequested : live = {} \/ Before(s, i, next)}
             t       == [Settle(s, D, "cancelled") EXCEPT
                           !.queued = @ \ D, !.pending = @ \ D,
                           !.timers = @ \ (D \cap s.pending)]
             w       == [t EXCEPT !.queued = @ \ {next}, !.sending = TRUE,
                                  !.writes = @ \cup {[id |-> next, proc |-> t.proc]},
                                  !.pipe[t.proc] = Append(@, next)]
  <1>1. D \subseteq s.queued /\ (live = {} => s.queued \ D = {})
    OBVIOUS
  <1>2. live # {} => next \in live
    BY NextExists DEF Sound, State
  <1>3. live \cap D = {}
    OBVIOUS
  <1>4. DrainQueue(s) =
          IF s.sending THEN s
          ELSE IF ~IsAlive(s) THEN IF s.spawnFailed THEN RejectAllQueued(s) ELSE s
          ELSE IF live = {} THEN t
          ELSE [t EXCEPT !.queued = @ \ {next}, !.sending = TRUE,
                         !.writes = @ \cup {[id |-> next, proc |-> s.proc]},
                         !.pipe[s.proc] = Append(@, next)]
    BY Zenon DEF DrainQueue
  <1> HIDE DEF next, D
  <1>5. Sound(t) /\ t.queued = s.queued \ D /\ t.proc = s.proc /\ t.sending = s.sending
    BY <1>1, DropSound
  <1> HIDE DEF t
  <1>6. CASE s.sending
    BY <1>4, <1>6
  <1>7. CASE ~s.sending /\ ~IsAlive(s)
    <2>1. s.proc = NoProc
      BY <1>7 DEF Sound, IsAlive, Signalled
    <2>2. CASE s.spawnFailed
      <3> DEFINE r == RejectAllQueued(s)
      <3>1. /\ r \in State /\ OpenIn(r) = OpenIn(s) \ s.queued
            /\ SameContext(r, s) /\ r.sigterm = s.sigterm /\ r.grace = s.grace
            /\ r.queued = {} /\ r.proc = s.proc /\ r.sending = s.sending
        BY RejectAllQueuedLemma DEF Sound
      <3> HIDE DEF r
      <3>2. Down(r)
        BY <1>7, <2>1, <3>1 DEF Sound, Down, State
      <3>3. /\ Signalled(r) = Signalled(s) /\ r.spawned = s.spawned /\ r.os = s.os
            /\ r.grace \subseteq Signalled(r)
        BY <3>1 DEF Sound, Signalled, SameContext, SameChildren
      <3>4. \A p \in Procs : r.os[p] \in {"new", "alive"} => p \in Signalled(r)
        BY <2>1, <3>3 DEF Sound, Procs, NoProc
      <3>5. \A p \in Signalled(r) : p <= r.spawned
        BY <3>3 DEF Sound
      <3>6. \A i \in Asked(r) : i <= r.requestId
        BY <3>1, AskedSame DEF Sound, SameContext
      <3>7. Sound(r) /\ r.queued = {}
        BY <3>1, <3>2, <3>3, <3>4, <3>5, <3>6, DownIsSound
      <3> QED
        BY <1>4, <1>7, <2>2, <3>7 DEF r
    <2>3. CASE ~s.spawnFailed
      BY <1>4, <1>7, <2>1, <2>3
    <2> QED
      BY <2>2, <2>3
  <1>8. CASE ~s.sending /\ IsAlive(s) /\ live = {}
    BY <1>1, <1>4, <1>5, <1>8
  <1>9. CASE ~s.sending /\ IsAlive(s) /\ live # {}
    <2>1. next \in t.queued /\ t.proc # NoProc
      BY <1>2, <1>3, <1>5, <1>9 DEF IsAlive
    <2>2. Sound(w) /\ w.sending = TRUE
      BY <1>5, <2>1, WriteSound
    <2>3. DrainQueue(s) = w
      BY <1>4, <1>5, <1>9
    <2> QED
      BY <2>2, <2>3
  <1> QED
    BY <1>6, <1>7, <1>8, <1>9

-------------------------------------------------------------------------------
(* Handlers that keep the current process. *)

Runs(s, p) == s.os[p] \in {"new", "alive"}

\* Settling a set of requests, and losing from the pipes none but settled ones,
\* keeps the invariant.
LEMMA StepSound ==
  ASSUME NEW s, Sound(s), NEW r \in State, NEW S,
         OpenIn(r) = OpenIn(s) \ S, r.queued = s.queued \ S,
         s.pending \ S \subseteq r.pending, s.timers \ S \subseteq r.timers,
         r.proc = s.proc, r.spawned = s.spawned, r.requestId = s.requestId,
         Signalled(r) = Signalled(s), r.grace \subseteq s.grace,
         r.writes \subseteq s.writes,
         r.sending => s.sending /\ r.writes = s.writes,
         \A p \in Procs : Runs(r, p) => Runs(s, p),
         \A i \in Ids, p \in Procs : PipedIn(r, i, p) => PipedIn(s, i, p),
         \A i \in OpenIn(r) : s.proc # NoProc /\ PipedIn(s, i, s.proc)
                                 => PipedIn(r, i, s.proc)
  PROVE  Sound(r)
  <1>1. Asked(r) \subseteq Asked(s)
    BY DEF Asked
  <1>2. OpenIn(r) \ r.queued \subseteq OpenIn(s) \ s.queued
    BY DEF Sound
  <1>3. \A i \in OpenIn(r) \ r.queued : r.proc # NoProc /\ PipedIn(r, i, r.proc)
    BY <1>2 DEF Sound
  <1>4. /\ \A i \in r.queued \cup Asked(r) : i <= r.requestId
        /\ r.queued \cap Asked(r) = {}
    BY <1>1 DEF Sound
  <1>5. OpenIn(r) \subseteq r.pending \cap r.timers /\ r.queued \subseteq OpenIn(r)
    BY DEF Sound
  <1>6. \A p \in Procs : r.os[p] \in {"new", "alive"} => p = r.proc \/ p \in Signalled(r)
    BY DEF Sound, Runs
  <1>7. r.sending => r.proc # NoProc /\ \E x \in r.writes : x.proc = r.proc
    BY DEF Sound
  <1>8. /\ r.proc # NoProc => r.proc \notin Signalled(r) /\ r.proc <= r.spawned
        /\ \A p \in Signalled(r) : p <= r.spawned
        /\ r.grace \subseteq Signalled(r)
    BY DEF Sound
  <1> QED
    BY <1>3, <1>4, <1>5, <1>6, <1>7, <1>8 DEF Sound

\* The end of a write: the head of the queue may go next.
LEMMA WriteEndSound ==
  ASSUME NEW s, Sound(s), NEW x \in s.writes
  PROVE  LET r == [s EXCEPT !.writes = @ \ {x}, !.sending = FALSE] IN
         Sound(r) /\ r.queued = s.queued /\ r.proc = s.proc
  <1> DEFINE W == s.writes \ {x}
             r == [s EXCEPT !.writes = W, !.sending = FALSE]
  <1>a. s \in State
    BY DEF Sound
  <1>1. W \in SUBSET [id : Ids, proc : Procs] /\ W \subseteq s.writes
    BY <1>a DEF State
  <1>2. r = [s EXCEPT !.writes = W, !.sending = FALSE]
    OBVIOUS
  <1> HIDE DEF W, r
  <1>3. r \in State
    BY <1>a, <1>1, <1>2 DEF State
  <1>4. /\ r.outcome = s.outcome /\ r.queued = s.queued /\ r.pending = s.pending
        /\ r.timers = s.timers /\ r.proc = s.proc /\ r.spawned = s.spawned
        /\ r.requestId = s.requestId /\ r.sigterm = s.sigterm /\ r.sigkill = s.sigkill
        /\ r.grace = s.grace /\ r.writes = W /\ r.sending = FALSE /\ r.os = s.os
        /\ r.pipe = s.pipe
    BY <1>a, <1>2 DEF State
  <1>5. Sound(r)
    <2>1. OpenIn(r) = OpenIn(s) \ {} /\ r.queued = s.queued \ {}
      BY <1>4 DEF OpenIn
    <2>2. s.pending \ {} \subseteq r.pending /\ s.timers \ {} \subseteq r.timers
      BY <1>4
    <2>3. /\ Signalled(r) = Signalled(s) /\ \A p \in Procs : Runs(r, p) => Runs(s, p)
          /\ \A i \in Ids, p \in Procs : PipedIn(r, i, p) => PipedIn(s, i, p)
          /\ \A i \in OpenIn(r) : PipedIn(s, i, s.proc) => PipedIn(r, i, s.proc)
      BY <1>4 DEF Signalled, Runs, PipedIn
    <2> QED
      BY <1>1, <1>3, <1>4, <2>1, <2>2, <2>3, StepSound
  <1> QED
    BY <1>4, <1>5 DEF r, W

\* A failed write settles its request, which is not in the queue.
LEMMA SettleAskedSound ==
  ASSUME NEW s, Sound(s), NEW i \in Ids, i \notin s.queued, NEW how \in Outcomes, how # "open"
  PROVE  LET r == Settle(s, {i}, how) IN
         Sound(r) /\ r.queued = s.queued /\ r.proc = s.proc /\ r.writes = s.writes
  <1> DEFINE r == Settle(s, {i}, how)
  <1>1. /\ r \in State /\ OpenIn(r) = OpenIn(s) \ {i}
        /\ SameContext(r, s) /\ r.sigterm = s.sigterm
        /\ r.queued = s.queued /\ r.pending = s.pending /\ r.timers = s.timers
        /\ r.proc = s.proc /\ r.sending = s.sending
    BY SettleLemma DEF Sound
  <1>2. r.grace = s.grace
    BY SettleLemma DEF Sound
  <1> HIDE DEF r
  <1>3. /\ r.spawned = s.spawned /\ r.os = s.os /\ r.sigkill = s.sigkill
        /\ r.pipe = s.pipe /\ r.writes = s.writes /\ r.requestId = s.requestId
    BY <1>1 DEF SameContext, SameChildren
  <1>4. /\ s.pending \ {i} \subseteq r.pending /\ s.timers \ {i} \subseteq r.timers
        /\ r.queued = s.queued \ {i}
        /\ Signalled(r) = Signalled(s) /\ r.grace \subseteq s.grace
    BY <1>1, <1>2, <1>3 DEF Signalled
  <1>5. /\ \A p \in Procs : Runs(r, p) => Runs(s, p)
        /\ \A j \in Ids, p \in Procs : PipedIn(r, j, p) <=> PipedIn(s, j, p)
    BY <1>3 DEF Runs, PipedIn
  <1>6. \A j \in OpenIn(r) : s.proc # NoProc /\ PipedIn(s, j, s.proc) => PipedIn(r, j, s.proc)
    BY <1>3 DEF PipedIn
  <1>7. Sound(r)
    BY <1>1, <1>3, <1>4, <1>5, <1>6, StepSound
  <1> QED
    BY <1>1, <1>3, <1>7 DEF r

-------------------------------------------------------------------------------
(* Pipes. *)

\* Taking the head off a pipe loses nothing else.
LEMMA TailPiped ==
  ASSUME NEW S, NEW q \in Seq(S), q # <<>>
  PROVE  /\ Tail(q) \in Seq(S) /\ Head(q) \in S
         /\ \A k \in DOMAIN Tail(q) : \E l \in DOMAIN q : q[l] = Tail(q)[k]
         /\ \A k \in DOMAIN q : q[k] # Head(q) => \E l \in DOMAIN Tail(q) : Tail(q)[l] = q[k]
  <1>1. /\ Head(q) \in S /\ Tail(q) \in Seq(S) /\ Len(Tail(q)) = Len(q) - 1
        /\ \A k \in 1..Len(Tail(q)) : Tail(q)[k] = q[k + 1]
    BY HeadTailProperties
  <1>2. Len(q) \in Nat /\ DOMAIN q = 1..Len(q) /\ Head(q) = q[1] /\ Len(q) # 0
    OBVIOUS
  <1>3. DOMAIN Tail(q) = 1..(Len(q) - 1)
    BY <1>1
  <1>4. ASSUME NEW k \in DOMAIN Tail(q)
        PROVE  \E l \in DOMAIN q : q[l] = Tail(q)[k]
    <2>1. k + 1 \in DOMAIN q /\ q[k + 1] = Tail(q)[k]
      BY <1>1, <1>2, <1>3
    <2> QED
      BY <2>1
  <1>5. ASSUME NEW k \in DOMAIN q, q[k] # Head(q)
        PROVE  \E l \in DOMAIN Tail(q) : Tail(q)[l] = q[k]
    <2>1. k - 1 \in DOMAIN Tail(q) /\ (k - 1) + 1 = k
      BY <1>2, <1>3, <1>5
    <2>2. Tail(q)[k - 1] = q[k]
      BY <1>1, <1>2, <1>3, <2>1
    <2> QED
      BY <2>1, <2>2
  <1> QED
    BY <1>1, <1>4, <1>5

\* A prefix holds nothing new.
LEMMA PrefixPiped ==
  ASSUME NEW S, NEW q \in Seq(S), NEW n \in 0..Len(q)
  PROVE  /\ SubSeq(q, 1, n) \in Seq(S)
         /\ \A k \in DOMAIN SubSeq(q, 1, n) : \E l \in DOMAIN q : q[l] = SubSeq(q, 1, n)[k]
  <1>1. Len(q) \in Nat /\ DOMAIN q = 1..Len(q) /\ \A k \in 1..n : q[k] \in S
    OBVIOUS
  <1>2. /\ SubSeq(q, 1, n) \in Seq(S)
        /\ Len(SubSeq(q, 1, n)) = IF 1 <= n THEN n - 1 + 1 ELSE 0
        /\ \A k \in 1..(n - 1 + 1) : SubSeq(q, 1, n)[k] = q[1 + k - 1]
    BY <1>1, SubSeqProperties
  <1>3. DOMAIN SubSeq(q, 1, n) = 1..n
    BY <1>1, <1>2
  <1>4. ASSUME NEW k \in DOMAIN SubSeq(q, 1, n)
        PROVE  \E l \in DOMAIN q : q[l] = SubSeq(q, 1, n)[k]
    <2>1. k \in DOMAIN q /\ k \in 1..(n - 1 + 1) /\ 1 + k - 1 = k
      BY <1>1, <1>3
    <2> QED
      BY <1>2, <2>1
  <1> QED
    BY <1>2, <1>4

\* Garbage in front of a pipe hides no answer.
LEMMA JunkPiped ==
  ASSUME NEW S, NEW q \in Seq(S), NEW e \in S
  PROVE  /\ <<e>> \o q \in Seq(S)
         /\ \A k \in DOMAIN (<<e>> \o q) :
              (<<e>> \o q)[k] = e \/ \E l \in DOMAIN q : q[l] = (<<e>> \o q)[k]
         /\ \A k \in DOMAIN q : \E l \in DOMAIN (<<e>> \o q) : (<<e>> \o q)[l] = q[k]
  <1> DEFINE c == <<e>> \o q
  <1>1. <<e>> \in Seq(S) /\ Len(<<e>>) = 1 /\ <<e>>[1] = e
    OBVIOUS
  <1>2. /\ c \in Seq(S) /\ Len(c) = 1 + Len(q)
        /\ \A k \in 1..(1 + Len(q)) : c[k] = IF k <= 1 THEN <<e>>[k] ELSE q[k - 1]
    BY <1>1, ConcatProperties
  <1>3. Len(q) \in Nat /\ DOMAIN q = 1..Len(q)
    OBVIOUS
  <1> HIDE DEF c
  <1>4. DOMAIN c = 1..(1 + Len(q))
    BY <1>2
  <1>5. ASSUME NEW k \in DOMAIN c
        PROVE  c[k] = e \/ \E l \in DOMAIN q : q[l] = c[k]
    <2>1. CASE k <= 1
      BY <1>1, <1>2, <1>3, <1>4, <2>1
    <2>2. CASE ~(k <= 1)
      <3>1. k - 1 \in DOMAIN q /\ c[k] = q[k - 1]
        BY <1>2, <1>3, <1>4, <2>2
      <3> QED
        BY <3>1
    <2> QED
      BY <2>1, <2>2
  <1>6. ASSUME NEW k \in DOMAIN q
        PROVE  \E l \in DOMAIN c : c[l] = q[k]
    <2>1. k + 1 \in DOMAIN c /\ ~(k + 1 <= 1) /\ (k + 1) - 1 = k
      BY <1>3, <1>4
    <2>2. c[k + 1] = q[k]
      BY <1>2, <1>3, <1>4, <2>1
    <2> QED
      BY <2>1, <2>2
  <1> QED
    BY <1>2, <1>5, <1>6 DEF c

-------------------------------------------------------------------------------
(* The inductive invariant between handlers. *)

Invariant(s) == Sound(s) /\ (s.queued # {} => s.sending = TRUE)

IInv == Invariant(Here) /\ cancelRequested \subseteq Ids

\* A handler that ends in a state of the invariant keeps it.
LEMMA BecomeInv ==
  ASSUME IInv, UNCHANGED cancelRequested
  PROVE  \A r : Invariant(r) /\ Become(r) => IInv'
  <1> SUFFICES ASSUME NEW r, Invariant(r), Become(r)
               PROVE  IInv'
    OBVIOUS
  <1>1. PICK s \in {r} : Become(s)
    OBVIOUS
  <1>2. r \in State
    BY DEF Invariant, Sound
  <1>3. Here' = r
    BY <1>2 DEF Become, Here, State
  <1>4. Invariant(Here)'
    BY <1>3
  <1> QED
    BY <1>4 DEF IInv

SameRequests(r, s) ==
  /\ r.outcome = s.outcome /\ r.queued = s.queued /\ r.pending = s.pending
  /\ r.timers = s.timers /\ r.proc = s.proc /\ r.sending = s.sending
  /\ r.sigterm = s.sigterm /\ r.sigkill = s.sigkill /\ r.spawned = s.spawned
  /\ r.requestId = s.requestId /\ r.writes = s.writes

\* A handler that settles nothing and hides no answer keeps the invariant.
LEMMA FrameSound ==
  ASSUME NEW s, Sound(s), NEW r \in State, SameRequests(r, s),
         r.grace \subseteq s.grace,
         \A p \in Procs : Runs(r, p) => Runs(s, p),
         \A i \in Ids, p \in Procs : PipedIn(r, i, p) => PipedIn(s, i, p),
         \A i \in Ids : s.proc # NoProc /\ PipedIn(s, i, s.proc) => PipedIn(r, i, s.proc)
  PROVE  Sound(r)
  <1>1. OpenIn(r) = OpenIn(s) \ {} /\ r.queued = s.queued \ {} /\ OpenIn(r) \subseteq Ids
    BY DEF SameRequests, OpenIn
  <1>2. /\ s.pending \ {} \subseteq r.pending /\ s.timers \ {} \subseteq r.timers
        /\ r.proc = s.proc /\ r.spawned = s.spawned /\ r.requestId = s.requestId
        /\ Signalled(r) = Signalled(s) /\ r.writes = s.writes
        /\ r.sending = s.sending
    BY DEF SameRequests, Signalled
  <1>3. \A i \in OpenIn(r) : s.proc # NoProc /\ PipedIn(s, i, s.proc) => PipedIn(r, i, s.proc)
    BY <1>1
  <1> QED
    BY <1>1, <1>2, <1>3, StepSound

\* As FrameSound, where the pipes and the grace timers are left alone too.
LEMMA FrameInv ==
  ASSUME NEW s, Invariant(s), NEW r \in State, SameRequests(r, s),
         r.grace = s.grace, r.pipe = s.pipe,
         \A p \in Procs : Runs(r, p) => Runs(s, p)
  PROVE  Invariant(r)
  <1>1. /\ \A i \in Ids, p \in Procs : PipedIn(r, i, p) => PipedIn(s, i, p)
        /\ \A i \in Ids : s.proc # NoProc /\ PipedIn(s, i, s.proc) => PipedIn(r, i, s.proc)
    BY DEF PipedIn
  <1>2. Sound(r)
    BY <1>1, FrameSound DEF Invariant
  <1> QED
    BY <1>2 DEF Invariant, SameRequests

\* A new PikeWorker satisfies the invariant.
LEMMA InitInv == Init => IInv
  <1> SUFFICES ASSUME Init PROVE IInv
    OBVIOUS
  <1>1. Here \in State
    <2>1. /\ priority \in [Ids -> Priorities] /\ outcome \in [Ids -> Outcomes]
          /\ os \in [Procs -> Statuses]
      BY DEF Init, Priorities, Outcomes, Statuses
    <2>2. pipe \in [Procs -> Seq(Ids \cup {Junk})]
      BY DEF Init
    <2>3. /\ requestId \in 0..MaxId /\ spawned \in 0..MaxProcs
          /\ requestCount \in Nat /\ consecutiveCrashes \in Nat
      BY PikeWorkerAssumption DEF Init
    <2>4. proc \in Procs \cup {NoProc}
      BY DEF Init
    <2>5. /\ queued \in SUBSET Ids /\ pending \in SUBSET Ids /\ timers \in SUBSET Ids
          /\ sigterm \in SUBSET Procs /\ sigkill \in SUBSET Procs /\ grace \in SUBSET Procs
          /\ writes \in SUBSET [id : Ids, proc : Procs]
          /\ sending \in BOOLEAN /\ idleTimer \in BOOLEAN /\ spawnFailed \in BOOLEAN
          /\ pikeUnavailable \in BOOLEAN /\ backoff \in BOOLEAN
      BY DEF Init
    <2> QED
      BY <2>1, <2>2, <2>3, <2>4, <2>5 DEF Here, State
  <1>2. OpenIn(Here) = {} /\ Asked(Here) = {}
    BY DEF Init, Here, OpenIn, Asked, PipedIn
  <1>3. Sound(Here)
    BY <1>1, <1>2 DEF Init, Here, Sound, Signalled
  <1> QED
    BY <1>3 DEF Init, Here, IInv, Invariant

\* Enqueue: clear the backoff, perhaps restart, start, push and drain.
LEMMA EnqueueInv ==
  ASSUME IInv, NEW pr \in UsedPriorities, NEW aged \in BOOLEAN,
         NEW how1 \in StartResults, NEW how2 \in StartResults,
         Enqueue(pr, aged, how1, how2)
  PROVE  IInv'
  <1> DEFINE s  == Here
             s0 == CheckAndClearBackoff(s)
             s1 == IF ShouldForceRestart(s0, aged) THEN Start(Stop(s0), how1) ELSE s0
             s2 == Start(s1, how2)
             s3 == Push(s2, pr)
             s4 == DrainQueue(s3)
  <1>1. /\ Become(s4) /\ UNCHANGED cancelRequested /\ s.requestId < MaxId
        /\ s.spawned = spawned
    BY DEF Enqueue, Here
  <1>2. /\ how1 \in {"ok", "permanent", "transient"} /\ how2 \in {"ok", "permanent", "transient"}
        /\ how1 = "ok" => spawned < MaxProcs
        /\ how2 = "ok" => spawned < MaxProcs
    BY DEF StartResults
  <1>3. Invariant(s)
    BY DEF IInv
  <1>4. /\ Sound(s0) /\ s0.requestId = s.requestId /\ s0.spawned = s.spawned
    <2> HIDE DEF s
    <2>1. s \in State
      BY <1>3 DEF Invariant, Sound
    <2>2. /\ s0 \in State /\ SameRequests(s0, s) /\ s0.grace = s.grace
          /\ s0.pipe = s.pipe /\ s0.os = s.os
      BY <2>1 DEF CheckAndClearBackoff, State, SameRequests
    <2>3. Invariant(s0)
      BY <1>3, <2>2, FrameInv DEF Runs
    <2> QED
      BY <2>2, <2>3 DEF Invariant, SameRequests
  <1> HIDE DEF s, s0
  <1>5. /\ Sound(s1) /\ s1.requestId = s.requestId
        /\ s1.proc # NoProc \/ s1.spawned = spawned
    <2>1. CASE ShouldForceRestart(s0, aged)
      <3>1. /\ Sound(Stop(s0)) /\ Stop(s0).requestId = s.requestId
            /\ Stop(s0).spawned = spawned
        BY <1>1, <1>4, StopSound DEF SameContext, SameChildren
      <3> QED
        BY <1>2, <2>1, <3>1, StartSound
    <2>2. CASE ~ShouldForceRestart(s0, aged)
      BY <1>1, <1>4, <2>2
    <2> QED
      BY <2>1, <2>2
  <1> HIDE DEF s1
  <1>6. /\ Sound(s2) /\ s2.requestId = s.requestId
        /\ s2.proc # NoProc \/ s2.spawnFailed = TRUE
    BY <1>2, <1>5, StartSound
  <1> HIDE DEF s2
  <1>7. Sound(s3) /\ s3.proc = s2.proc /\ s3.spawnFailed = s2.spawnFailed
    BY <1>1, <1>6, PushSound, PikeWorkerAssumption DEF Priorities
  <1> HIDE DEF s3
  <1>8. Invariant(s4)
    BY <1>6, <1>7, DrainSound DEF IInv, Invariant
  <1> HIDE DEF s4
  <1> QED
    BY <1>1, <1>8, BecomeInv

\* Cancel marks a request and leaves the worker alone.
LEMMA CancelInv ==
  ASSUME IInv, NEW i \in Ids, Cancel(i)
  PROVE  IInv'
  <1>1. Here' = Here /\ cancelRequested' \subseteq Ids
    BY DEF Cancel, Here, IInv
  <1>2. Invariant(Here)'
    BY <1>1 DEF IInv
  <1> QED
    BY <1>1, <1>2 DEF IInv

\* A completed write lets drainQueue send the next request.
LEMMA WriteDoneInv ==
  ASSUME IInv, NEW x \in writes, WriteDone(x)
  PROVE  IInv'
  <1> DEFINE s == Here
             r == [s EXCEPT !.writes = @ \ {x}, !.sending = FALSE]
  <1>1. Become(DrainQueue(r)) /\ UNCHANGED cancelRequested /\ x \in s.writes
    BY DEF WriteDone, Here
  <1>2. Sound(s) /\ (s.queued # {} => s.proc # NoProc)
    BY DEF IInv, Invariant, Sound
  <1> HIDE DEF s
  <1>3. Sound(r) /\ r.queued = s.queued /\ r.proc = s.proc
    BY <1>1, <1>2, WriteEndSound
  <1> HIDE DEF r
  <1>4. Invariant(DrainQueue(r))
    BY <1>2, <1>3, DrainSound DEF IInv, Invariant
  <1> QED
    BY <1>1, <1>4, BecomeInv

\* A failed write settles its request and lets drainQueue send the next one.
LEMMA WriteFailInv ==
  ASSUME IInv, NEW x \in writes, WriteFail(x)
  PROVE  IInv'
  <1> DEFINE s == Here
             t == Settle(s, {x.id}, "failed")
             r == [t EXCEPT !.writes = @ \ {x}, !.sending = FALSE]
  <1>1. Become(DrainQueue(r)) /\ UNCHANGED cancelRequested /\ x \in s.writes
    BY DEF WriteFail, Here
  <1>2. Sound(s) /\ (s.queued # {} => s.proc # NoProc)
    BY DEF IInv, Invariant, Sound
  <1> HIDE DEF s
  <1>3. x.id \in Ids /\ x.id \notin s.queued
    <2>1. s \in State
      BY <1>2 DEF Sound
    <2>2. x \in [id : Ids, proc : Procs]
      BY <1>1, <2>1 DEF State
    <2>3. x.id \in Asked(s)
      BY <1>1, <2>2 DEF Asked
    <2> QED
      BY <1>2, <2>2, <2>3 DEF Sound
  <1>4. Sound(t) /\ t.queued = s.queued /\ t.proc = s.proc /\ t.writes = s.writes
    BY <1>2, <1>3, SettleAskedSound DEF Outcomes
  <1> HIDE DEF t
  <1>5. Sound(r) /\ r.queued = t.queued /\ r.proc = t.proc
    BY <1>1, <1>4, WriteEndSound
  <1> HIDE DEF r
  <1>6. Invariant(DrainQueue(r))
    BY <1>2, <1>4, <1>5, DrainSound DEF IInv, Invariant
  <1> QED
    BY <1>1, <1>6, BecomeInv

\* Taking the first line off a pipe.
LEMMA PopFacts ==
  ASSUME NEW s \in State, NEW p \in Procs, s.pipe[p] # <<>>, NEW c \in Nat
  PROVE  LET u == [s EXCEPT !.pipe[p] = Tail(@), !.consecutiveCrashes = c] IN
         /\ u \in State /\ SameRequests(u, s) /\ u.grace = s.grace /\ u.os = s.os
         /\ \A i \in Ids, q \in Procs : PipedIn(u, i, q) => PipedIn(s, i, q)
         /\ \A i \in Ids, q \in Procs :
              PipedIn(s, i, q) /\ i # Head(s.pipe[p]) => PipedIn(u, i, q)
  <1> DEFINE S == Ids \cup {Junk}
             o == s.pipe[p]
             P == [s.pipe EXCEPT ![p] = Tail(o)]
             u == [s EXCEPT !.pipe = P, !.consecutiveCrashes = c]
  <1>1. s.pipe \in [Procs -> Seq(S)] /\ o \in Seq(S) /\ o # <<>>
    BY DEF State
  <1>o. o = s.pipe[p]
    OBVIOUS
  <1> HIDE DEF S, o
  <1>2. /\ Tail(o) \in Seq(S)
        /\ \A k \in DOMAIN Tail(o) : \E l \in DOMAIN o : o[l] = Tail(o)[k]
        /\ \A k \in DOMAIN o : o[k] # Head(o) => \E l \in DOMAIN Tail(o) : Tail(o)[l] = o[k]
    BY <1>1, TailPiped
  <1>3. /\ P \in [Procs -> Seq(S)] /\ P[p] = Tail(o)
        /\ \A q \in Procs : q # p => P[q] = s.pipe[q]
    BY <1>1, <1>2
  <1>4. u = [s EXCEPT !.pipe = P, !.consecutiveCrashes = c]
    OBVIOUS
  <1>5. u = [s EXCEPT !.pipe[p] = Tail(@), !.consecutiveCrashes = c]
    BY <1>o
  <1> HIDE DEF P, u
  <1>6. u \in State
    BY <1>3, <1>4 DEF State, S
  <1>7. SameRequests(u, s) /\ u.grace = s.grace /\ u.os = s.os /\ u.pipe = P
    BY <1>4 DEF State, SameRequests
  <1>8. ASSUME NEW i \in Ids, NEW q \in Procs, PipedIn(u, i, q)
        PROVE  PipedIn(s, i, q)
    <2>1. PICK k \in DOMAIN P[q] : P[q][k] = i
      BY <1>7, <1>8 DEF PipedIn
    <2>2. CASE q = p
      <3>1. PICK l \in DOMAIN o : o[l] = i
        BY <1>2, <1>3, <2>1, <2>2
      <3> QED
        BY <1>o, <2>2, <3>1 DEF PipedIn
    <2>3. CASE q # p
      BY <1>3, <2>1, <2>3 DEF PipedIn
    <2> QED
      BY <2>2, <2>3
  <1>9. ASSUME NEW i \in Ids, NEW q \in Procs, PipedIn(s, i, q), i # Head(o)
        PROVE  PipedIn(u, i, q)
    <2>1. CASE q = p
      <3>1. PICK k \in DOMAIN o : o[k] = i
        BY <1>9, <1>o, <2>1 DEF PipedIn
      <3>2. PICK l \in DOMAIN Tail(o) : Tail(o)[l] = i
        BY <1>2, <1>9, <3>1
      <3> QED
        BY <1>3, <1>7, <2>1, <3>2 DEF PipedIn
    <2>2. CASE q # p
      BY <1>3, <1>7, <1>9, <2>2 DEF PipedIn
    <2> QED
      BY <2>1, <2>2
  <1> QED
    BY <1>5, <1>6, <1>7, <1>8, <1>9, <1>o

\* An answer settles its request, if anybody still waits for it.
LEMMA DeliverInv ==
  ASSUME IInv, NEW p \in Procs, Deliver(p)
  PROVE  IInv'
  <1> DEFINE s == Here
             i == Head(s.pipe[p])
             u == [s EXCEPT !.pipe[p] = Tail(@), !.consecutiveCrashes = 0]
             v == Settle(u, {i}, "answered")
             r == [v EXCEPT !.pending = @ \ {i}, !.timers = @ \ {i}]
  <1>1. /\ Become(IF i \notin s.pending THEN u ELSE r) /\ UNCHANGED cancelRequested
        /\ s.pipe[p] # <<>>
    BY DEF Deliver, Here
  <1>2. Sound(s) /\ s \in State /\ (s.queued # {} => s.sending = TRUE)
    BY DEF IInv, Invariant, Sound
  <1> HIDE DEF s
  <1>3. /\ u \in State /\ SameRequests(u, s) /\ u.grace = s.grace /\ u.os = s.os
        /\ \A j \in Ids, q \in Procs : PipedIn(u, j, q) => PipedIn(s, j, q)
        /\ \A j \in Ids, q \in Procs : PipedIn(s, j, q) /\ j # i => PipedIn(u, j, q)
    BY <1>1, <1>2, PopFacts
  <1>h. i = Head(s.pipe[p])
    OBVIOUS
  <1> HIDE DEF u, i
  <1>4. \A q \in Procs : Runs(u, q) => Runs(s, q)
    BY <1>3 DEF Runs
  <1>p. s.proc # NoProc => s.proc \in Procs
    BY <1>2 DEF State
  <1>5. CASE i \notin s.pending
    <2>1. i \notin OpenIn(s) /\ \A j \in OpenIn(u) : j # i /\ j \in Ids
      BY <1>2, <1>3, <1>5 DEF Sound, SameRequests, OpenIn
    <2>2. /\ OpenIn(u) = OpenIn(s) \ {} /\ u.queued = s.queued \ {}
          /\ s.pending \ {} \subseteq u.pending /\ s.timers \ {} \subseteq u.timers
          /\ u.proc = s.proc /\ u.spawned = s.spawned /\ u.requestId = s.requestId
          /\ Signalled(u) = Signalled(s) /\ u.writes = s.writes /\ u.sending = s.sending
      BY <1>3 DEF SameRequests, Signalled, OpenIn
    <2>3. \A j \in OpenIn(u) : s.proc # NoProc /\ PipedIn(s, j, s.proc) => PipedIn(u, j, s.proc)
      BY <1>3, <1>p, <2>1
    <2>4. Sound(u)
      BY <1>2, <1>3, <1>4, <2>2, <2>3, StepSound
    <2>5. Invariant(u)
      BY <1>2, <2>2, <2>4 DEF Invariant
    <2> QED
      BY <1>1, <1>5, <2>5, BecomeInv
  <1>6. CASE i \in s.pending
    <2>1. /\ v \in State /\ OpenIn(v) = OpenIn(u) \ {i}
          /\ SameContext(v, u) /\ v.sigterm = u.sigterm /\ v.grace = u.grace
          /\ v.queued = u.queued /\ v.pending = u.pending /\ v.timers = u.timers
          /\ v.proc = u.proc /\ v.sending = u.sending
      BY <1>3, SettleLemma DEF Outcomes
    <2> DEFINE P == v.pending \ {i}
               T == v.timers \ {i}
    <2>2. /\ P \in SUBSET Ids /\ T \in SUBSET Ids
          /\ P = s.pending \ {i} /\ T = s.timers \ {i}
      BY <1>3, <2>1 DEF State, SameRequests
    <2>3. r = [v EXCEPT !.pending = P, !.timers = T]
      OBVIOUS
    <2> HIDE DEF v, r, P, T
    <2>4. r \in State
      BY <2>1, <2>2, <2>3 DEF State
    <2>5. /\ r.outcome = v.outcome /\ r.queued = v.queued /\ r.pending = P /\ r.timers = T
          /\ r.proc = v.proc /\ r.sending = v.sending /\ r.sigterm = v.sigterm
          /\ r.grace = v.grace /\ SameContext(r, v)
      BY <2>1, <2>3 DEF State, SameContext, SameChildren
    <2>6. i \notin s.queued
      <3>1. i \in Ids
        BY <1>2, <1>6 DEF State
      <3>2. PipedIn(s, i, p)
        <4>1. s.pipe[p] \in Seq(Ids \cup {Junk})
          BY <1>2 DEF State
        <4>2. 1 \in DOMAIN s.pipe[p] /\ s.pipe[p][1] = i
          BY <1>1, <1>h, <4>1
        <4> QED
          BY <4>2 DEF PipedIn
      <3>3. i \in Asked(s)
        BY <3>1, <3>2 DEF Asked
      <3> QED
        BY <1>2, <3>3 DEF Sound
    <2>7. /\ OpenIn(r) = OpenIn(s) \ {i} /\ r.queued = s.queued \ {i}
          /\ s.pending \ {i} \subseteq r.pending /\ s.timers \ {i} \subseteq r.timers
          /\ r.proc = s.proc /\ r.spawned = s.spawned /\ r.requestId = s.requestId
          /\ Signalled(r) = Signalled(s) /\ r.grace = s.grace
          /\ r.writes = s.writes /\ r.sending = s.sending
      BY <1>3, <2>1, <2>2, <2>5, <2>6
      DEF SameRequests, SameContext, SameChildren, Signalled, OpenIn
    <2>8. r.os = u.os /\ r.pipe = u.pipe
      BY <2>1, <2>5 DEF SameContext, SameChildren
    <2>9. /\ \A q \in Procs : Runs(r, q) => Runs(s, q)
          /\ \A j \in Ids, q \in Procs : PipedIn(r, j, q) => PipedIn(s, j, q)
      BY <1>3, <1>4, <2>8 DEF Runs, PipedIn
    <2>10. \A j \in OpenIn(r) : s.proc # NoProc /\ PipedIn(s, j, s.proc) => PipedIn(r, j, s.proc)
      BY <1>3, <1>p, <2>7, <2>8 DEF PipedIn, OpenIn
    <2>11. Sound(r)
      BY <1>2, <2>4, <2>7, <2>9, <2>10, StepSound
    <2>12. Invariant(r)
      BY <1>2, <2>7, <2>11 DEF Invariant
    <2> QED
      BY <1>1, <1>6, <2>12, BecomeInv
  <1> QED
    BY <1>5, <1>6

\* restart drops the pending requests before it stops the process.
LEMMA RestartSound ==
  ASSUME NEW s, Sound(s)
  PROVE  LET r == Stop(RejectAllPending(s)) IN
         Sound(r) /\ Down(r) /\ r.spawned = s.spawned
  <1> DEFINE w == RejectAllPending(s)
             r == Stop(w)
  <1>1. /\ w \in State /\ OpenIn(w) = OpenIn(s) \ s.pending
        /\ SameContext(w, s) /\ w.sigterm = s.sigterm /\ w.grace = s.grace
        /\ w.proc = s.proc
    BY RejectAllPendingLemma DEF Sound
  <1> HIDE DEF w
  <1>2. /\ r \in State /\ OpenIn(r) = OpenIn(w) \ w.pending
        /\ SameContext(r, w)
        /\ r.sigterm = w.sigterm \cup (IF IsAlive(w) THEN {w.proc} ELSE {})
        /\ r.grace = w.grace \cup (IF IsAlive(w) THEN {w.proc} ELSE {})
        /\ r.queued = {} /\ r.proc = NoProc /\ r.sending = FALSE
    BY <1>1, StopLemma
  <1> HIDE DEF r
  <1>3. Down(r)
    BY <1>1, <1>2 DEF Sound, Down
  <1>4. SameChildren(r, s) /\ (IsAlive(w) <=> IsAlive(s))
    BY <1>1, <1>2 DEF SameContext, SameChildren, IsAlive
  <1>5. Signalled(r) = Signalled(s) \cup (IF IsAlive(s) THEN {s.proc} ELSE {})
    BY <1>1, <1>2, <1>4 DEF Signalled, SameChildren
  <1>6. \A p \in Signalled(r) : p <= r.spawned
    BY <1>4, <1>5 DEF Sound, SameChildren, IsAlive
  <1>7. \A p \in Procs : r.os[p] \in {"new", "alive"} => p \in Signalled(r)
    BY <1>4, <1>5 DEF Sound, SameChildren, IsAlive, Signalled, Procs, NoProc
  <1>8. r.grace \subseteq Signalled(r)
    BY <1>1, <1>2, <1>4, <1>5 DEF Sound
  <1>9. \A i \in Asked(r) : i <= r.requestId
    BY <1>4, AskedSame DEF Sound
  <1> QED
    BY <1>2, <1>3, <1>4, <1>6, <1>7, <1>8, <1>9, DownIsSound DEF r, w, SameChildren

\* A desynced stream restarts the worker.
LEMMA DeliverJunkInv ==
  ASSUME IInv, NEW p \in Procs, NEW how \in StartResults, DeliverJunk(p, how)
  PROVE  IInv'
  <1> DEFINE s == Here
             c == s.consecutiveCrashes
             u == [s EXCEPT !.pipe[p] = Tail(@)]
             w == Stop(RejectAllPending(u))
             r == Start(w, how)
  <1>1. /\ Become(r) /\ UNCHANGED cancelRequested
        /\ s.pipe[p] # <<>> /\ Head(s.pipe[p]) = Junk /\ s.spawned = spawned
    BY DEF DeliverJunk, Here
  <1>2. Sound(s) /\ s \in State
    BY DEF IInv, Invariant, Sound
  <1> HIDE DEF s
  <1>3. c \in Nat /\ u = [s EXCEPT !.pipe[p] = Tail(@), !.consecutiveCrashes = c]
    BY <1>2 DEF State
  <1> HIDE DEF c, u
  <1>4. /\ u \in State /\ SameRequests(u, s) /\ u.grace = s.grace /\ u.os = s.os
        /\ \A i \in Ids, q \in Procs : PipedIn(u, i, q) => PipedIn(s, i, q)
        /\ \A i \in Ids, q \in Procs : PipedIn(s, i, q) /\ i # Head(s.pipe[p])
                                         => PipedIn(u, i, q)
    BY <1>1, <1>2, <1>3, PopFacts
  <1>5. Sound(u)
    <2>1. \A i \in Ids : i # Head(s.pipe[p])
      BY <1>1, PikeWorkerAssumption DEF Ids, Junk
    <2>2. s.proc # NoProc => s.proc \in Procs
      BY <1>2 DEF State
    <2>3. \A i \in Ids : s.proc # NoProc /\ PipedIn(s, i, s.proc) => PipedIn(u, i, s.proc)
      BY <1>4, <2>1, <2>2
    <2> QED
      BY <1>2, <1>4, <2>3, FrameSound DEF Runs
  <1>6. Sound(w) /\ Down(w) /\ w.spawned = spawned
    BY <1>1, <1>4, <1>5, RestartSound DEF SameRequests
  <1> HIDE DEF w
  <1>7. how \in {"ok", "permanent", "transient"} /\ (how = "ok" => w.spawned < MaxProcs)
    BY <1>6 DEF StartResults
  <1>8. Sound(r)
    BY <1>6, <1>7, StartSound
  <1>9. r.queued = {}
    <2>1. CASE IsAlive(w)
      BY <1>6, <2>1 DEF Start, Down
    <2>2. CASE ~IsAlive(w) /\ how = "ok"
      <3>1. Spawn(w).queued = w.queued
        BY <1>6 DEF Spawn, Sound, State
      <3> QED
        BY <1>6, <2>2, <3>1 DEF Start, Down
    <2>3. CASE ~IsAlive(w) /\ how # "ok"
      <3>1. r = FailSpawn(w, how = "permanent") /\ w.proc = NoProc
        BY <1>6, <2>3 DEF Start, Down
      <3> QED
        BY <1>6, <3>1, FailSpawnSound DEF Down
    <2> QED
      BY <2>1, <2>2, <2>3
  <1>10. Invariant(r)
    BY <1>8, <1>9 DEF Invariant
  <1> QED
    BY <1>1, <1>10, BecomeInv

\* A timeout kills the process of a live worker and settles everything.
LEMMA TimeoutInv ==
  ASSUME IInv, NEW i \in Ids, Timeout(i)
  PROVE  IInv'
  <1> DEFINE s == Here
             P == s.pending \ {i}
             Q == s.queued \ {i}
             T == s.timers \ {i}
             K == s.sigkill \cup {s.proc}
             u == [s EXCEPT !.pending = P, !.queued = Q, !.timers = T]
             k == [u EXCEPT !.sigkill = @ \cup {u.proc}]
             a == AbandonWorker(k)
             t == IF IsAlive(u) THEN a ELSE u
             r == Settle(t, {i}, "timeout")
  <1>1. Become(r) /\ UNCHANGED cancelRequested
    BY DEF Timeout, Here
  <1>2. Sound(s) /\ s \in State /\ (s.queued # {} => s.sending = TRUE)
    BY DEF IInv, Invariant, Sound
  <1> HIDE DEF s
  <1>3. P \in SUBSET Ids /\ Q \in SUBSET Ids /\ T \in SUBSET Ids
    BY <1>2 DEF State
  <1> HIDE DEF P, Q, T, K
  <1>4. u \in State
    BY <1>2, <1>3 DEF State
  <1>5. /\ u.outcome = s.outcome /\ u.pending = P /\ u.queued = Q /\ u.timers = T
        /\ u.proc = s.proc /\ u.sending = s.sending /\ u.sigterm = s.sigterm
        /\ u.sigkill = s.sigkill /\ u.grace = s.grace /\ SameContext(u, s)
    BY <1>2 DEF State, SameContext, SameChildren
  <1> HIDE DEF u
  <1>6. CASE IsAlive(u)
    <2>1. k = [u EXCEPT !.sigkill = K]
      BY <1>5 DEF K
    <2>2. K \in SUBSET Procs
      BY <1>2, <1>5, <1>6 DEF K, State, IsAlive
    <2> HIDE DEF k
    <2>3. k \in State
      BY <1>4, <2>1, <2>2 DEF State
    <2>4. /\ k.outcome = u.outcome /\ k.pending = P /\ k.queued = Q
          /\ k.sigterm = s.sigterm /\ k.grace = s.grace /\ k.sigkill = K
          /\ k.spawned = s.spawned /\ k.os = s.os /\ k.pipe = s.pipe
          /\ k.writes = s.writes /\ k.requestId = s.requestId
      BY <1>4, <1>5, <2>1 DEF State, SameContext, SameChildren
    <2>5. /\ a \in State /\ OpenIn(a) = OpenIn(k) \ (k.pending \cup k.queued)
          /\ SameContext(a, k) /\ a.sigterm = k.sigterm /\ a.grace = k.grace
          /\ a.queued = {} /\ a.proc = NoProc /\ a.sending = FALSE
      BY <2>3, AbandonWorkerLemma
    <2> HIDE DEF a
    <2>6. t = a
      BY <1>6
    <2>7. /\ r \in State /\ OpenIn(r) = OpenIn(a) \ {i}
          /\ SameContext(r, a) /\ r.sigterm = a.sigterm /\ r.grace = a.grace
          /\ r.queued = a.queued /\ r.proc = a.proc /\ r.sending = a.sending
      BY <2>5, <2>6, SettleLemma DEF Outcomes
    <2> HIDE DEF t, r
    <2>8. OpenIn(k) = OpenIn(s) /\ OpenIn(s) \subseteq P \cup {i}
      BY <1>2, <1>5, <2>4 DEF OpenIn, Sound, P
    <2>9. Down(r)
      BY <2>4, <2>5, <2>7, <2>8 DEF Down
    <2>10. /\ SameChildren(r, k) /\ Signalled(r) = s.sigterm \cup K
           /\ r.spawned = s.spawned /\ r.os = s.os /\ r.grace = s.grace
      BY <2>4, <2>5, <2>7 DEF SameContext, SameChildren, Signalled
    <2>11. \A p \in Signalled(r) : p <= r.spawned
      BY <1>2, <1>5, <1>6, <2>10 DEF Sound, Signalled, K, IsAlive
    <2>12. \A p \in Procs : r.os[p] \in {"new", "alive"} => p \in Signalled(r)
      BY <1>2, <2>10 DEF Sound, Signalled, K
    <2>13. r.grace \subseteq Signalled(r)
      BY <1>2, <2>10 DEF Sound, Signalled, K
    <2>14. \A j \in Asked(r) : j <= r.requestId
      <3>1. Asked(r) = Asked(s) /\ r.requestId = s.requestId
        BY <2>4, <2>10 DEF SameChildren, Asked, PipedIn
      <3> QED
        BY <1>2, <3>1 DEF Sound
    <2>15. Invariant(r)
      BY <2>7, <2>9, <2>11, <2>12, <2>13, <2>14, DownIsSound DEF Invariant, Down
    <2> QED
      BY <1>1, <2>15, BecomeInv
  <1>7. CASE ~IsAlive(u)
    <2>1. t = u
      BY <1>7
    <2> HIDE DEF t
    <2>2. /\ r \in State /\ OpenIn(r) = OpenIn(u) \ {i}
          /\ SameContext(r, u) /\ r.sigterm = u.sigterm /\ r.grace = u.grace
          /\ r.queued = u.queued /\ r.pending = u.pending /\ r.timers = u.timers
          /\ r.proc = u.proc /\ r.sending = u.sending
      BY <1>4, <2>1, SettleLemma DEF Outcomes
    <2> HIDE DEF r
    <2>3. /\ OpenIn(r) = OpenIn(s) \ {i} /\ r.queued = s.queued \ {i}
          /\ s.pending \ {i} \subseteq r.pending /\ s.timers \ {i} \subseteq r.timers
          /\ r.proc = s.proc /\ r.sending = s.sending /\ r.grace = s.grace
      BY <1>5, <2>2 DEF OpenIn, P, Q, T
    <2>4. /\ r.spawned = s.spawned /\ r.requestId = s.requestId /\ r.writes = s.writes
          /\ Signalled(r) = Signalled(s) /\ r.os = s.os /\ r.pipe = s.pipe
      BY <1>5, <2>2 DEF SameContext, SameChildren, Signalled
    <2>5. /\ \A p \in Procs : Runs(r, p) => Runs(s, p)
          /\ \A j \in Ids, p \in Procs : PipedIn(r, j, p) => PipedIn(s, j, p)
          /\ \A j \in OpenIn(r) : PipedIn(s, j, s.proc) => PipedIn(r, j, s.proc)
      BY <2>4 DEF Runs, PipedIn
    <2>6. Sound(r)
      BY <1>2, <2>2, <2>3, <2>4, <2>5, StepSound
    <2>7. Invariant(r)
      BY <1>2, <2>3, <2>6 DEF Invariant
    <2> QED
      BY <1>1, <2>7, BecomeInv
  <1> QED
    BY <1>6, <1>7

\* The idle timer stops a worker that has nothing to do.
LEMMA IdleFireInv ==
  ASSUME IInv, IdleFire
  PROVE  IInv'
  <1> DEFINE s == Here
             u == [s EXCEPT !.idleTimer = FALSE]
             r == IF IsAlive(u) /\ u.pending = {} /\ u.queued = {} THEN Stop(u) ELSE u
  <1>1. Invariant(s) /\ s \in State
    BY DEF IInv, Invariant, Sound
  <1>2. Become(IF IsAlive(u) /\ s.pending = {} /\ s.queued = {} THEN Stop(u) ELSE u)
        /\ UNCHANGED cancelRequested
    BY DEF IdleFire, Here
  <1> HIDE DEF s
  <1>3. /\ u \in State /\ SameRequests(u, s) /\ u.grace = s.grace
        /\ u.pipe = s.pipe /\ u.os = s.os
    BY <1>1 DEF State, SameRequests
  <1> HIDE DEF u
  <1>4. Invariant(u)
    BY <1>1, <1>3, FrameInv DEF Runs
  <1>5. Invariant(Stop(u))
    BY <1>4, StopSound DEF Invariant, Down
  <1>6. Become(r)
    BY <1>2, <1>3 DEF SameRequests
  <1>7. Invariant(r)
    BY <1>4, <1>5
  <1> HIDE DEF r
  <1> QED
    BY <1>2, <1>6, <1>7, BecomeInv

\* stop() from outside.
LEMMA StopWorkerInv ==
  ASSUME IInv, StopWorker
  PROVE  IInv'
  <1>1. Become(Stop(Here)) /\ UNCHANGED cancelRequested
    BY DEF StopWorker
  <1>2. Invariant(Stop(Here))
    BY StopSound DEF IInv, Invariant, Down
  <1> QED
    BY <1>1, <1>2, BecomeInv

\* The force timer finds its child signalled, and so signals nobody.
LEMMA GraceTimerInv ==
  ASSUME IInv, NEW p \in Procs, GraceTimer(p)
  PROVE  IInv'
  <1> DEFINE s == Here
             G == s.grace \ {p}
             r == [s EXCEPT !.grace = G]
             x == [s EXCEPT !.grace = @ \ {p},
                     !.sigkill = IF p \in s.sigterm \cup s.sigkill THEN @ ELSE @ \cup {p}]
  <1>1. Become(x) /\ UNCHANGED cancelRequested /\ p \in s.grace
    BY DEF GraceTimer, Here
  <1>2. Invariant(s) /\ s \in State /\ p \in s.sigterm \cup s.sigkill
    BY <1>1 DEF IInv, Invariant, Sound, Signalled
  <1> HIDE DEF s
  <1>3. x = r
    BY <1>2 DEF State
  <1>4. G \in SUBSET Procs /\ G \subseteq s.grace
    BY <1>2 DEF State
  <1> HIDE DEF G, x
  <1>5. /\ r \in State /\ SameRequests(r, s) /\ r.grace = G
        /\ r.pipe = s.pipe /\ r.os = s.os
    BY <1>2, <1>4 DEF State, SameRequests
  <1> HIDE DEF r
  <1>6. /\ \A q \in Procs : Runs(r, q) => Runs(s, q)
        /\ \A i \in Ids, q \in Procs : PipedIn(r, i, q) => PipedIn(s, i, q)
        /\ \A i \in Ids : s.proc # NoProc /\ PipedIn(s, i, s.proc) => PipedIn(r, i, s.proc)
    BY <1>5 DEF Runs, PipedIn
  <1>7. Sound(r)
    BY <1>2, <1>4, <1>5, <1>6, FrameSound DEF Invariant
  <1>8. Invariant(r)
    BY <1>2, <1>5, <1>7 DEF Invariant, SameRequests
  <1> QED
    BY <1>1, <1>3, <1>8, BecomeInv

\* What a handler sees of a child that is gone and has left Q in its pipe.
LEMMA GoneFacts ==
  ASSUME NEW s, Sound(s), NEW p \in Procs, NEW Q,
         \A k \in DOMAIN Q : \E l \in DOMAIN s.pipe[p] : s.pipe[p][l] = Q[k],
         NEW u \in State, SameRequests(u, s), u.grace = s.grace,
         u.os[p] = "gone", u.pipe[p] = Q,
         \A q \in Procs : q # p => u.os[q] = s.os[q] /\ u.pipe[q] = s.pipe[q]
  PROVE  /\ ~Runs(u, p) /\ \A q \in Procs : Runs(u, q) => Runs(s, q)
         /\ Asked(u) \subseteq Asked(s)
         /\ p # s.proc => Sound(u)
  <1>a. s \in State
    BY DEF Sound
  <1>7. ~Runs(u, p) /\ \A q \in Procs : Runs(u, q) => Runs(s, q)
    BY DEF Runs
  <1>8. ASSUME NEW i \in Ids, NEW q \in Procs, PipedIn(u, i, q)
        PROVE  PipedIn(s, i, q)
    <2>1. PICK k \in DOMAIN u.pipe[q] : u.pipe[q][k] = i
      BY <1>8 DEF PipedIn
    <2>2. CASE q = p
      <3>1. PICK l \in DOMAIN s.pipe[p] : s.pipe[p][l] = i
        BY <2>1, <2>2
      <3> QED
        BY <2>2, <3>1 DEF PipedIn
    <2>3. CASE q # p
      BY <2>1, <2>3 DEF PipedIn
    <2> QED
      BY <2>2, <2>3
  <1>9. Asked(u) \subseteq Asked(s)
    BY <1>8 DEF Asked, SameRequests
  <1>10. ASSUME p # s.proc
         PROVE  Sound(u)
    <2>1. s.proc # NoProc => s.proc \in Procs
      BY <1>a DEF State
    <2>2. \A i \in Ids : s.proc # NoProc /\ PipedIn(s, i, s.proc) => PipedIn(u, i, s.proc)
      BY <1>10, <2>1 DEF PipedIn
    <2> QED
      BY <1>7, <1>8, <2>2, FrameSound
  <1> QED
    BY <1>7, <1>9, <1>10

\* Abandoning the current process once it is gone.
LEMMA GoneSound ==
  ASSUME NEW s, Sound(s), NEW r \in State, Down(r),
         r.sigterm = s.sigterm, r.sigkill = s.sigkill, r.grace = s.grace,
         r.spawned = s.spawned, r.requestId = s.requestId,
         Asked(r) \subseteq Asked(s),
         \A q \in Procs : Runs(r, q) => Runs(s, q) /\ q # s.proc
  PROVE  Invariant(r)
  <1>1. Signalled(r) = Signalled(s)
    BY DEF Signalled
  <1>2. /\ \A p \in Signalled(r) : p <= r.spawned
        /\ \A p \in Procs : r.os[p] \in {"new", "alive"} => p \in Signalled(r)
        /\ \A i \in Asked(r) : i <= r.requestId
        /\ r.grace \subseteq Signalled(r)
    BY <1>1 DEF Sound, Runs
  <1> QED
    BY <1>2, DownIsSound DEF Invariant, Down

\* The exit of the current child abandons its requests; any other exit does not.
LEMMA ExitInv ==
  ASSUME IInv, NEW p \in Procs, NEW code \in ExitCodes, NEW k \in 0..Len(pipe[p]),
         Exit(p, code, k)
  PROVE  IInv'
  <1> DEFINE s == Here
             Q == SubSeq(s.pipe[p], 1, k)
             u == [s EXCEPT !.idleTimer = FALSE, !.os[p] = "gone", !.pipe[p] = Q]
             t == IF code = "crash" THEN RecordCrash(u)
                  ELSE [u EXCEPT !.pikeUnavailable = @ \/ code = "notfound"]
             a == AbandonWorker(t)
  <1>1. /\ Become(IF p = s.proc THEN a ELSE u) /\ UNCHANGED cancelRequested
        /\ k \in 0..Len(s.pipe[p])
    BY DEF Exit, Here
  <1>2. Sound(s) /\ s \in State /\ Invariant(s)
    BY DEF IInv, Invariant, Sound
  <1> HIDE DEF s
  <1>3. /\ Q \in Seq(Ids \cup {Junk})
        /\ \A l \in DOMAIN Q : \E m \in DOMAIN s.pipe[p] : s.pipe[p][m] = Q[l]
    <2>1. s.pipe[p] \in Seq(Ids \cup {Junk})
      BY <1>2 DEF State
    <2> QED
      BY <1>1, <2>1, PrefixPiped
  <1> DEFINE O == [s.os EXCEPT ![p] = "gone"]
             P == [s.pipe EXCEPT ![p] = Q]
  <1>o. /\ O \in [Procs -> Statuses] /\ O[p] = "gone"
        /\ \A q \in Procs : q # p => O[q] = s.os[q]
    BY <1>2 DEF State, Statuses
  <1>p. /\ P \in [Procs -> Seq(Ids \cup {Junk})] /\ P[p] = Q
        /\ \A q \in Procs : q # p => P[q] = s.pipe[q]
    BY <1>2, <1>3 DEF State
  <1>u. u = [s EXCEPT !.idleTimer = FALSE, !.os = O, !.pipe = P]
    OBVIOUS
  <1> HIDE DEF O, P, Q, u
  <1>f. /\ u \in State /\ SameRequests(u, s) /\ u.grace = s.grace
        /\ u.os = O /\ u.pipe = P
    BY <1>2, <1>o, <1>p, <1>u DEF State, SameRequests
  <1>4. /\ u \in State /\ SameRequests(u, s) /\ u.grace = s.grace
        /\ ~Runs(u, p) /\ \A q \in Procs : Runs(u, q) => Runs(s, q)
        /\ Asked(u) \subseteq Asked(s)
        /\ p # s.proc => Sound(u)
    <2>1. /\ u.os[p] = "gone" /\ u.pipe[p] = Q
          /\ \A q \in Procs : q # p => u.os[q] = s.os[q] /\ u.pipe[q] = s.pipe[q]
      BY <1>o, <1>p, <1>f
    <2>2. /\ ~Runs(u, p) /\ \A q \in Procs : Runs(u, q) => Runs(s, q)
          /\ Asked(u) \subseteq Asked(s)
          /\ p # s.proc => Sound(u)
      BY <1>2, <1>3, <1>f, <2>1, GoneFacts
    <2> QED
      BY <1>f, <2>2
  <1>5. CASE p = s.proc
    <2>1. /\ t \in State /\ SameRequests(t, u) /\ t.grace = u.grace /\ t.os = u.os
          /\ t.pipe = u.pipe
      <3>1. CASE code = "crash"
        <4> DEFINE n == u.consecutiveCrashes + 1
                   b == u.backoff \/ u.consecutiveCrashes + 1 >= CrashThreshold
        <4>1. n \in Nat /\ b \in BOOLEAN
          BY <1>4 DEF State
        <4>2. t = [u EXCEPT !.consecutiveCrashes = n, !.backoff = b]
          BY <3>1, Zenon DEF RecordCrash
        <4> HIDE DEF n, b, t
        <4> QED
          BY <1>4, <4>1, <4>2 DEF State, SameRequests
      <3>2. CASE code # "crash"
        BY <1>4, <3>2 DEF State, SameRequests
      <3> QED
        BY <3>1, <3>2
    <2> HIDE DEF t
    <2>2. /\ a \in State /\ OpenIn(a) = OpenIn(t) \ (t.pending \cup t.queued)
          /\ SameContext(a, t) /\ a.sigterm = t.sigterm /\ a.grace = t.grace
          /\ a.queued = {} /\ a.proc = NoProc /\ a.sending = FALSE
      BY <2>1, AbandonWorkerLemma
    <2> HIDE DEF a
    <2>3. Down(a)
      BY <1>2, <1>4, <2>1, <2>2 DEF Down, Sound, SameRequests, OpenIn
    <2>4. /\ a.sigterm = s.sigterm /\ a.sigkill = s.sigkill /\ a.grace = s.grace
          /\ a.spawned = s.spawned /\ a.requestId = s.requestId
      BY <1>4, <2>1, <2>2 DEF SameRequests, SameContext, SameChildren
    <2>5. Asked(a) \subseteq Asked(s)
      <3>1. Asked(a) = Asked(u)
        BY <2>1, <2>2 DEF SameRequests, SameContext, SameChildren, Asked, PipedIn
      <3> QED
        BY <1>4, <3>1
    <2>6. \A q \in Procs : Runs(a, q) => Runs(s, q) /\ q # s.proc
      BY <1>4, <1>5, <2>1, <2>2 DEF Runs, SameContext, SameChildren
    <2>7. Invariant(a)
      BY <1>2, <2>2, <2>3, <2>4, <2>5, <2>6, GoneSound
    <2> QED
      BY <1>1, <1>5, <2>7, BecomeInv
  <1>6. CASE p # s.proc
    <2>1. Invariant(u)
      BY <1>2, <1>4, <1>6 DEF Invariant, SameRequests
    <2> QED
      BY <1>1, <1>6, <2>1, BecomeInv
  <1> QED
    BY <1>5, <1>6

\* A child that never ran is treated as a failed spawn, if it is the current one.
LEMMA SpawnErrorInv ==
  ASSUME IInv, NEW p \in Procs, NEW permanent \in BOOLEAN, SpawnError(p, permanent)
  PROVE  IInv'
  <1> DEFINE s == Here
             Q == <<>>
             u == [s EXCEPT !.os[p] = "gone", !.pipe[p] = Q]
             f == FailSpawn(u, permanent)
  <1>1. /\ Become(IF p = s.proc THEN f ELSE u) /\ UNCHANGED cancelRequested
    BY DEF SpawnError, Here
  <1>2. Sound(s) /\ s \in State /\ Invariant(s)
    BY DEF IInv, Invariant, Sound
  <1> HIDE DEF s
  <1>3. /\ Q \in Seq(Ids \cup {Junk})
        /\ \A k \in DOMAIN Q : \E l \in DOMAIN s.pipe[p] : s.pipe[p][l] = Q[k]
    OBVIOUS
  <1> DEFINE O == [s.os EXCEPT ![p] = "gone"]
             P == [s.pipe EXCEPT ![p] = Q]
  <1>o. /\ O \in [Procs -> Statuses] /\ O[p] = "gone"
        /\ \A q \in Procs : q # p => O[q] = s.os[q]
    BY <1>2 DEF State, Statuses
  <1>p. /\ P \in [Procs -> Seq(Ids \cup {Junk})] /\ P[p] = Q
        /\ \A q \in Procs : q # p => P[q] = s.pipe[q]
    BY <1>2, <1>3 DEF State
  <1>u. u = [s EXCEPT !.os = O, !.pipe = P]
    OBVIOUS
  <1> HIDE DEF O, P, Q, u
  <1>f. /\ u \in State /\ SameRequests(u, s) /\ u.grace = s.grace
        /\ u.os = O /\ u.pipe = P
    BY <1>2, <1>o, <1>p, <1>u DEF State, SameRequests
  <1>5. /\ u \in State /\ SameRequests(u, s) /\ u.grace = s.grace
        /\ ~Runs(u, p) /\ \A q \in Procs : Runs(u, q) => Runs(s, q)
        /\ Asked(u) \subseteq Asked(s)
        /\ p # s.proc => Sound(u)
    <2>1. /\ u.os[p] = "gone" /\ u.pipe[p] = Q
          /\ \A q \in Procs : q # p => u.os[q] = s.os[q] /\ u.pipe[q] = s.pipe[q]
      BY <1>o, <1>p, <1>f
    <2>2. /\ ~Runs(u, p) /\ \A q \in Procs : Runs(u, q) => Runs(s, q)
          /\ Asked(u) \subseteq Asked(s)
          /\ p # s.proc => Sound(u)
      BY <1>2, <1>3, <1>f, <2>1, GoneFacts
    <2> QED
      BY <1>f, <2>2
  <1>6. CASE p = s.proc
    <2>1. /\ f \in State /\ OpenIn(f) = OpenIn(u) \ (u.pending \cup u.queued)
          /\ SameChildren(f, u) /\ f.sigterm = u.sigterm /\ f.grace = u.grace
          /\ f.queued = {} /\ f.proc = NoProc /\ f.sending = FALSE
      BY <1>5, FailSpawnLemma
    <2> HIDE DEF f
    <2>2. Down(f)
      BY <1>2, <1>5, <2>1 DEF Down, Sound, SameRequests, OpenIn
    <2>3. /\ f.sigterm = s.sigterm /\ f.sigkill = s.sigkill /\ f.grace = s.grace
          /\ f.spawned = s.spawned /\ f.requestId = s.requestId
      BY <1>5, <2>1 DEF SameRequests, SameChildren
    <2>4. Asked(f) \subseteq Asked(s)
      BY <1>5, <2>1, AskedSame
    <2>5. \A q \in Procs : Runs(f, q) => Runs(s, q) /\ q # s.proc
      BY <1>5, <1>6, <2>1 DEF Runs, SameChildren
    <2>6. Invariant(f)
      BY <1>2, <2>1, <2>2, <2>3, <2>4, <2>5, GoneSound
    <2> QED
      BY <1>1, <1>6, <2>6, BecomeInv
  <1>7. CASE p # s.proc
    <2>1. Invariant(u)
      BY <1>2, <1>5, <1>7 DEF Invariant, SameRequests
    <2> QED
      BY <1>1, <1>7, <2>1, BecomeInv
  <1> QED
    BY <1>6, <1>7

\* The backoff deadline passes.
LEMMA BackoffExpiresInv ==
  ASSUME IInv, BackoffExpires
  PROVE  IInv'
  <1> DEFINE s == Here
             r == [s EXCEPT !.backoff = FALSE]
  <1>1. Become(r) /\ UNCHANGED cancelRequested
    BY DEF BackoffExpires
  <1>2. Invariant(s) /\ s \in State
    BY DEF IInv, Invariant, Sound
  <1> HIDE DEF s
  <1>3. /\ r \in State /\ SameRequests(r, s) /\ r.grace = s.grace
        /\ r.pipe = s.pipe /\ r.os = s.os
    BY <1>2 DEF State, SameRequests
  <1> HIDE DEF r
  <1>4. Invariant(r)
    BY <1>2, <1>3, FrameInv DEF Runs
  <1> QED
    BY <1>1, <1>4, BecomeInv

\* A child comes up.
LEMMA ReadyInv ==
  ASSUME IInv, NEW p \in Procs, Ready(p)
  PROVE  IInv'
  <1> DEFINE s == Here
             O == [s.os EXCEPT ![p] = "alive"]
             r == [s EXCEPT !.os = O]
  <1>1. Become(r) /\ UNCHANGED cancelRequested /\ s.os[p] = "new"
    BY DEF Ready, Here
  <1>2. Invariant(s) /\ s \in State
    BY DEF IInv, Invariant, Sound
  <1> HIDE DEF s
  <1>3. /\ O \in [Procs -> Statuses]
        /\ \A q \in Procs : O[q] \in {"new", "alive"} => s.os[q] \in {"new", "alive"}
    BY <1>1, <1>2 DEF State, Statuses
  <1> HIDE DEF O
  <1>4. /\ r \in State /\ SameRequests(r, s) /\ r.grace = s.grace
        /\ r.pipe = s.pipe /\ r.os = O
    BY <1>2, <1>3 DEF State, SameRequests
  <1> HIDE DEF r
  <1>5. Invariant(r)
    BY <1>2, <1>3, <1>4, FrameInv DEF Runs
  <1> QED
    BY <1>1, <1>5, BecomeInv

\* A child prints something that is not a response.
LEMMA GarbleInv ==
  ASSUME IInv, NEW p \in Procs, Garble(p)
  PROVE  IInv'
  <1> DEFINE s == Here
             S == Ids \cup {Junk}
             o == s.pipe[p]
             c == <<Junk>> \o o
             P == [s.pipe EXCEPT ![p] = c]
             r == [s EXCEPT !.pipe = P]
  <1>1. Become(r) /\ UNCHANGED cancelRequested
    BY DEF Garble
  <1>2. Invariant(s) /\ Sound(s) /\ s \in State
    BY DEF IInv, Invariant, Sound
  <1> HIDE DEF s
  <1>3. s.pipe \in [Procs -> Seq(S)] /\ o \in Seq(S) /\ Junk \in S
    BY <1>2 DEF State
  <1>4. \A i \in Ids : i # Junk
    BY PikeWorkerAssumption DEF Ids, Junk
  <1>o. o = s.pipe[p]
    OBVIOUS
  <1> HIDE DEF S, o
  <1>5. /\ c \in Seq(S)
        /\ \A k \in DOMAIN c : c[k] = Junk \/ \E l \in DOMAIN o : o[l] = c[k]
        /\ \A k \in DOMAIN o : \E l \in DOMAIN c : c[l] = o[k]
    BY <1>3, JunkPiped
  <1> HIDE DEF c
  <1>6. /\ P \in [Procs -> Seq(S)] /\ P[p] = c
        /\ \A q \in Procs : q # p => P[q] = s.pipe[q]
    BY <1>3, <1>5
  <1> HIDE DEF P
  <1>7. /\ r \in State /\ SameRequests(r, s) /\ r.grace = s.grace
        /\ r.pipe = P /\ r.os = s.os
    BY <1>2, <1>6 DEF State, SameRequests, S
  <1> HIDE DEF r
  <1>8. ASSUME NEW i \in Ids, NEW q \in Procs
        PROVE  PipedIn(r, i, q) <=> PipedIn(s, i, q)
    <2>1. CASE q = p
      <3>1. PipedIn(r, i, q) <=> \E k \in DOMAIN c : c[k] = i
        BY <1>6, <1>7, <2>1 DEF PipedIn
      <3>2. PipedIn(s, i, q) <=> \E k \in DOMAIN o : o[k] = i
        BY <1>o, <2>1 DEF PipedIn
      <3> QED
        BY <1>4, <1>5, <3>1, <3>2
    <2>2. CASE q # p
      BY <1>6, <1>7, <2>2 DEF PipedIn
    <2> QED
      BY <2>1, <2>2
  <1>9. s.proc # NoProc => s.proc \in Procs
    BY <1>2 DEF State
  <1>10. Sound(r)
    BY <1>2, <1>7, <1>8, <1>9, FrameSound DEF Runs
  <1>11. Invariant(r)
    BY <1>2, <1>7, <1>10 DEF Invariant, SameRequests
  <1> QED
    BY <1>1, <1>11, BecomeInv

-------------------------------------------------------------------------------
(* Theorems. *)

\* Every step keeps the inductive invariant.
THEOREM NextInv == IInv /\ [Next]_vars => IInv'
  <1> SUFFICES ASSUME IInv, [Next]_vars PROVE IInv'
    OBVIOUS
  <1>1. ASSUME NEW pr \in UsedPriorities, NEW aged \in Ages,
               NEW how1 \in StartResults, NEW how2 \in StartResults,
               Enqueue(pr, aged, how1, how2)
        PROVE  IInv'
    BY <1>1, EnqueueInv DEF Ages
  <1>2. ASSUME NEW i \in Ids, Cancel(i) \/ Timeout(i)
        PROVE  IInv'
    BY <1>2, CancelInv, TimeoutInv
  <1>3. ASSUME NEW x \in writes, WriteDone(x) \/ WriteFail(x)
        PROVE  IInv'
    BY <1>3, WriteDoneInv, WriteFailInv
  <1>4. ASSUME NEW p \in Procs, Deliver(p) \/ GraceTimer(p) \/ Ready(p) \/ Garble(p)
        PROVE  IInv'
    BY <1>4, DeliverInv, GraceTimerInv, ReadyInv, GarbleInv
  <1>5. ASSUME NEW p \in Procs, NEW how \in StartResults, DeliverJunk(p, how)
        PROVE  IInv'
    BY <1>5, DeliverJunkInv
  <1>6. ASSUME NEW p \in Procs, NEW code \in ExitCodes, NEW k \in 0..Len(pipe[p]),
               Exit(p, code, k)
        PROVE  IInv'
    BY <1>6, ExitInv
  <1>7. ASSUME NEW p \in Procs, NEW permanent \in BOOLEAN, SpawnError(p, permanent)
        PROVE  IInv'
    BY <1>7, SpawnErrorInv
  <1>8. CASE IdleFire \/ StopWorker \/ BackoffExpires
    BY <1>8, IdleFireInv, StopWorkerInv, BackoffExpiresInv
  <1>9. CASE UNCHANGED vars
    <2>1. Here' = Here /\ cancelRequested' = cancelRequested
      BY <1>9 DEF vars, Here
    <2>2. Invariant(Here)'
      BY <2>1 DEF IInv
    <2> QED
      BY <2>1, <2>2 DEF IInv
  <1> QED
    BY <1>1, <1>2, <1>3, <1>4, <1>5, <1>6, <1>7, <1>8, <1>9, Zenon DEF Next

\* The invariant holds in every behaviour.
THEOREM Inductive == Spec => []IInv
  BY InitInv, NextInv, PTL DEF Spec

\* What the invariant says, in the variables of the worker.
LEMMA InvariantImplies ==
  ASSUME IInv
  PROVE  TypeOK /\ NoStrandedRequest /\ WaitsOnCurrentProcess /\ NoLostWakeup /\ NoOrphan
  <1> DEFINE s == Here
  <1>1. Sound(s) /\ s \in State /\ (s.queued # {} => s.sending = TRUE)
    BY DEF IInv, Invariant, Sound
  <1>2. OpenIn(s) = Open
    BY DEF OpenIn, Open, Here
  <1>3. TypeOK
    BY <1>1 DEF State, Here, TypeOK, IInv, Statuses
  <1>4. NoStrandedRequest
    BY <1>1, <1>2 DEF Sound, Here, NoStrandedRequest
  <1>5. WaitsOnCurrentProcess
    BY <1>1, <1>2 DEF Sound, Here, WaitsOnCurrentProcess, PipedIn, InPipe
  <1>6. NoLostWakeup
    BY <1>1 DEF Sound, Here, NoLostWakeup
  <1>7. NoOrphan
    BY <1>1 DEF Sound, Here, NoOrphan, Signalled
  <1> QED
    BY <1>3, <1>4, <1>5, <1>6, <1>7

\* The variables keep their types, for every number of requests and processes.
THEOREM TypeCorrect == Spec => []TypeOK
  BY Inductive, InvariantImplies, PTL

\* No request is ever left without a pending entry and an armed timeout.
THEOREM NeverStranded == Spec => []NoStrandedRequest
  BY Inductive, InvariantImplies, PTL

\* Whoever waits, waits for the current process.
THEOREM AlwaysWaitsOnCurrent == Spec => []WaitsOnCurrentProcess
  BY Inductive, InvariantImplies, PTL

\* A queued request is always behind a write that will drain the queue.
THEOREM NeverLosesWakeup == Spec => []NoLostWakeup
  BY Inductive, InvariantImplies, PTL

\* No running child is forgotten without having been signalled.
THEOREM NeverOrphans == Spec => []NoOrphan
  BY Inductive, InvariantImplies, PTL
===============================================================================
