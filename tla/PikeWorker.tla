------------------------------ MODULE PikeWorker ------------------------------
(***************************************************************************)
(* The subprocess manager of server/src/features/pikeWorker.ts and         *)
(* pikeWorkerProcess.ts: one PikeWorker object that owns at most one       *)
(* current Pike child process, a priority queue of requests in front of    *)
(* its stdin, a map of pending requests behind its stdout, one timeout per *)
(* request, an idle-eviction timer and a crash-loop backoff.               *)
(*                                                                         *)
(* JavaScript is single threaded: one action is one callback run to its    *)
(* end (a call of the public API, a timer, a stdout chunk, an exit or      *)
(* error event, the settlement of a write).  What interleaves is the       *)
(* callbacks, and the events of a process that has already been replaced.  *)
(*                                                                         *)
(* `restarting` is not a variable: restart() and prepareRestart() set and  *)
(* reset it without yielding, so every other callback reads FALSE.  They   *)
(* only run once a child was started, so assertPikeRuntimeReady() passed:  *)
(* it asks constants of the module load and a memoised directory, and does *)
(* not throw later.  Before the first start its throw turns the request    *)
(* away and changes nothing.                                               *)
(***************************************************************************)
EXTENDS Integers, Sequences, FiniteSets

CONSTANTS
  MaxId,                     \* bound: requests accepted in a behaviour
  MaxProcs,                  \* bound: processes spawned in a behaviour
  MaxRequestsBeforeRestart,  \* config.maxRequestsBeforeRestart
  AgeCeiling,                \* may config.maxActiveMinutes be reached?
  CrashThreshold,            \* CRASH_BACKOFF_THRESHOLD
  UsedPriorities,            \* the PikePriority values callers pass
  Faults,                    \* what the environment may do, see AllFaults
  IdleOutlastsTimeouts       \* is idleTimeoutMs > requestTimeoutMs? (defaults: yes)

AllFaults ==
  {"cancel",       \* clients cancel requests
   "stop",         \* hibernation or shutdown stops the worker
   "exit",         \* a child exits that nobody signalled
   "spawnError",   \* a spawn fails, at once or by an error event
   "writeError",   \* stdin reports an error
   "junk"}         \* stdout desyncs

ASSUME PikeWorkerAssumption ==
  /\ MaxId \in Nat
  /\ MaxProcs \in Nat
  /\ MaxRequestsBeforeRestart \in Nat
  /\ AgeCeiling \in BOOLEAN
  /\ CrashThreshold \in Nat \ {0}
  /\ IdleOutlastsTimeouts \in BOOLEAN
  /\ UsedPriorities \subseteq 0..2
  /\ Faults \subseteq AllFaults

Ids == 1..MaxId
Procs == 1..MaxProcs
NoProc == 0                  \* this.proc === null
Junk == 0                    \* a run of stdout that desyncs the stream
Priorities == 0..2           \* PikePriority, after clampPriority
Outcomes == {"none", "open", "answered", "cancelled", "failed", "timeout"}
ExitCodes == {"clean", "crash", "notfound"}   \* 0, any other code or signal, 127

VARIABLES
  requestId,           \* ids handed out so far
  priority,            \* the sub-queue each id was pushed to
  queued,              \* ids in `queues`; ids grow, so FIFO order is id order
  pending,             \* keys of the `pending` map
  timers,              \* ids whose request timeout is armed
  outcome,             \* what became of each request's promise
  cancelRequested,     \* ids whose CancellationToken has fired
  proc,                \* this.proc
  spawned,             \* processes spawned so far
  os,                  \* each child: unborn, new (spawn() returned), alive, gone
  sigterm, sigkill,    \* children signalled; proc.killed is "in either"
  grace,               \* children whose 3s force timer is armed
  pipe,                \* per child: written ids whose answer is undelivered, in order
  writes,              \* writeToStdin promises not settled yet
  sending,             \* this.sending
  idleTimer,           \* is the idle timer armed?
  requestCount, spawnFailed, pikeUnavailable,
  consecutiveCrashes, backoff      \* backoff: Date.now() < crashBackoffUntil

vars == <<requestId, priority, queued, pending, timers, outcome, cancelRequested,
          proc, spawned, os, sigterm, sigkill, grace, pipe, writes, sending,
          idleTimer, requestCount, spawnFailed, pikeUnavailable,
          consecutiveCrashes, backoff>>

(***************************************************************************)
(* A handler is a composition of methods that each update `this`.  Here is *)
(* the object as a record, the methods are operators from records to       *)
(* records, and Become makes the result of a handler the next state (bound *)
(* by a quantifier so that TLC evaluates it once).                         *)
(***************************************************************************)
Here ==
  [requestId |-> requestId, priority |-> priority, queued |-> queued,
   pending |-> pending, timers |-> timers, outcome |-> outcome, proc |-> proc,
   spawned |-> spawned, os |-> os, sigterm |-> sigterm, sigkill |-> sigkill,
   grace |-> grace, pipe |-> pipe, writes |-> writes, sending |-> sending,
   idleTimer |-> idleTimer, requestCount |-> requestCount,
   spawnFailed |-> spawnFailed, pikeUnavailable |-> pikeUnavailable,
   consecutiveCrashes |-> consecutiveCrashes, backoff |-> backoff]

Become(next) == \E s \in {next} :
  /\ requestId' = s.requestId      /\ priority' = s.priority
  /\ queued' = s.queued            /\ pending' = s.pending
  /\ timers' = s.timers            /\ outcome' = s.outcome
  /\ proc' = s.proc                /\ spawned' = s.spawned
  /\ os' = s.os                    /\ sigterm' = s.sigterm
  /\ sigkill' = s.sigkill          /\ grace' = s.grace
  /\ pipe' = s.pipe                /\ writes' = s.writes
  /\ sending' = s.sending          /\ idleTimer' = s.idleTimer
  /\ requestCount' = s.requestCount
  /\ spawnFailed' = s.spawnFailed
  /\ pikeUnavailable' = s.pikeUnavailable
  /\ consecutiveCrashes' = s.consecutiveCrashes
  /\ backoff' = s.backoff

(***************************************************************************)
(* Methods.                                                                *)
(***************************************************************************)

\* A promise settles once: resolve or reject of a settled promise is a no-op.
Settle(s, S, how) ==
  [s EXCEPT !.outcome =
     [i \in Ids |-> IF i \in S /\ s.outcome[i] = "open" THEN how ELSE s.outcome[i]]]

IsAlive(s) == s.proc # NoProc /\ s.proc \notin s.sigterm \cup s.sigkill

\* Mutant: the entries are dropped and their callers forgotten.
RejectAllPendingDropped(s) == [s EXCEPT !.pending = {}, !.timers = @ \ s.pending]

RejectAllPending(s) ==
  [Settle(s, s.pending, "failed") EXCEPT !.pending = {}, !.timers = @ \ s.pending]

\* Mutant: the timeouts of rejected items keep running.
RejectAllQueuedKeepTimers(s) == [Settle(s, s.queued, "failed") EXCEPT !.queued = {}]

RejectAllQueued(s) ==
  [Settle(s, s.queued, "failed") EXCEPT !.queued = {}, !.timers = @ \ s.queued]

AbandonWorker(s) ==
  [RejectAllQueued(RejectAllPending(s)) EXCEPT !.sending = FALSE, !.proc = NoProc]

\* rejectAllQueued leaves the `pending` entries of what it rejects: only here
\* and in DrainQueue can an entry outlive its settled promise.
FailSpawn(s, permanent) ==
  AbandonWorker([s EXCEPT !.idleTimer = FALSE, !.spawnFailed = TRUE,
                          !.pikeUnavailable = @ \/ permanent])

\* Mutant: what the old process was asked is not rejected.
StopKeepsPending(s) ==
  [s EXCEPT !.idleTimer = FALSE, !.sigterm = @ \cup (IF IsAlive(s) THEN {s.proc} ELSE {}),
            !.proc = NoProc, !.queued = {}, !.sending = FALSE]

Stop(s) ==
  LET dying == IF IsAlive(s) THEN {s.proc} ELSE {}
  IN  [RejectAllPending(s) EXCEPT
         !.idleTimer = FALSE, !.sigterm = @ \cup dying, !.grace = @ \cup dying,
         !.proc = NoProc, !.queued = {}, !.sending = FALSE]

Spawn(s) ==
  [s EXCEPT !.spawned = @ + 1, !.proc = s.spawned + 1, !.os[s.spawned + 1] = "new",
            !.spawnFailed = FALSE, !.requestCount = 0]

\* How spawn() turns out; with the bound reached every further spawn fails.
StartResults ==
  (IF spawned < MaxProcs THEN {"ok"} ELSE {"transient"})
    \cup (IF "spawnError" \in Faults THEN {"permanent", "transient"} ELSE {})

Start(s, how) ==
  IF IsAlive(s) THEN s
  ELSE IF how = "ok" THEN Spawn(s)
  ELSE FailSpawn(s, how = "permanent")

\* Mutant: last in, first out within a priority.
BeforeLifo(s, i, j) ==
  \/ s.priority[i] < s.priority[j]
  \/ s.priority[i] = s.priority[j] /\ i > j

Before(s, i, j) ==
  \/ s.priority[i] < s.priority[j]
  \/ s.priority[i] = s.priority[j] /\ i < j

\* drainQueue: drop the cancelled items at the front, write the first other one.
DrainQueue(s) ==
  LET live    == s.queued \ cancelRequested
      next    == CHOOSE i \in live : \A j \in live \ {i} : Before(s, i, j)
      dropped == {i \in s.queued \cap cancelRequested : live = {} \/ Before(s, i, next)}
      t       == [Settle(s, dropped, "cancelled") EXCEPT
                    !.queued = @ \ dropped, !.pending = @ \ dropped,
                    !.timers = @ \ (dropped \cap s.pending)]
  IN  IF s.sending THEN s
      ELSE IF ~IsAlive(s) THEN IF s.spawnFailed THEN RejectAllQueued(s) ELSE s
      ELSE IF live = {} THEN t
      ELSE [t EXCEPT !.queued = @ \ {next}, !.sending = TRUE,
                     !.writes = @ \cup {[id |-> next, proc |-> s.proc]},
                     !.pipe[s.proc] = Append(@, next)]

\* Mutant: requestId++ in place of ++requestId.
PushPostIncrement(s, pr) ==
  [s EXCEPT !.requestId = @ + 1, !.requestCount = @ + 1, !.idleTimer = TRUE,
            !.pending = @ \cup {s.requestId}, !.timers = @ \cup {s.requestId},
            !.queued = @ \cup {s.requestId}]

\* The part of enqueue and enqueuePromise that registers a new request.
Push(s, pr) ==
  LET id == s.requestId + 1
  IN  [s EXCEPT !.requestId = id, !.priority[id] = pr, !.outcome[id] = "open",
                !.requestCount = @ + 1, !.idleTimer = TRUE,
                !.pending = @ \cup {id}, !.timers = @ \cup {id}, !.queued = @ \cup {id}]

ShouldForceRestart(s, aged) ==
  IsAlive(s) /\ (s.requestCount >= MaxRequestsBeforeRestart \/ aged)

\* checkAndClearBackoff: may a request go ahead, and the state it leaves.
BackoffAllows(s) == s.consecutiveCrashes < CrashThreshold \/ ~s.backoff

CheckAndClearBackoff(s) ==
  IF s.consecutiveCrashes < CrashThreshold THEN s
  ELSE [s EXCEPT !.consecutiveCrashes = 0, !.backoff = FALSE]

RecordCrash(s) ==
  [s EXCEPT !.consecutiveCrashes = @ + 1,
            !.backoff = @ \/ s.consecutiveCrashes + 1 >= CrashThreshold]

(***************************************************************************)
(* Actions.                                                                *)
(***************************************************************************)
Init ==
  /\ requestId = 0 /\ priority = [i \in Ids |-> 0]
  /\ queued = {} /\ pending = {} /\ timers = {} /\ cancelRequested = {}
  /\ outcome = [i \in Ids |-> "none"]
  /\ proc = NoProc /\ spawned = 0 /\ os = [p \in Procs |-> "unborn"]
  /\ sigterm = {} /\ sigkill = {} /\ grace = {}
  /\ pipe = [p \in Procs |-> <<>>] /\ writes = {} /\ sending = FALSE
  /\ idleTimer = FALSE /\ requestCount = 0
  /\ spawnFailed = FALSE /\ pikeUnavailable = FALSE
  /\ consecutiveCrashes = 0 /\ backoff = FALSE

\* Any public request: diagnose, autodoc, typeof_, resolve, ping.  A call that
\* checkBackoff or an unavailable Pike turns away changes nothing.
Enqueue(pr, aged, how1, how2) ==
  /\ requestId < MaxId
  /\ ~pikeUnavailable
  /\ BackoffAllows(Here)
  /\ LET s0 == CheckAndClearBackoff(Here)
         s1 == IF ShouldForceRestart(s0, aged) THEN Start(Stop(s0), how1) ELSE s0
         s2 == Start(s1, how2)
     IN  Become(DrainQueue(Push(s2, pr)))
  /\ UNCHANGED cancelRequested

\* The client cancels a request it is still waiting for.
Cancel(i) ==
  /\ "cancel" \in Faults
  /\ outcome[i] = "open" /\ i \notin cancelRequested
  /\ cancelRequested' = cancelRequested \cup {i}
  /\ UNCHANGED <<requestId, priority, queued, pending, timers, outcome, proc, spawned,
                 os, sigterm, sigkill, grace, pipe, writes, sending, idleTimer,
                 requestCount, spawnFailed, pikeUnavailable, consecutiveCrashes, backoff>>

\* Mutant: the completed write does not drain the queue.
WriteDoneNoDrain(x) ==
  /\ x \in writes /\ os[x.proc] \in {"new", "alive"}
  /\ Become([Here EXCEPT !.writes = @ \ {x}, !.sending = FALSE])
  /\ UNCHANGED cancelRequested

\* The write was accepted at once, or the child drained its stdin.
WriteDone(x) ==
  /\ x \in writes /\ os[x.proc] \in {"new", "alive"}
  /\ Become(DrainQueue([Here EXCEPT !.writes = @ \ {x}, !.sending = FALSE]))
  /\ UNCHANGED cancelRequested

\* stdin reports an error (EPIPE, destroyed) while the write waits for drain.
WriteFail(x) ==
  /\ "writeError" \in Faults
  /\ x \in writes
  /\ Become(DrainQueue([Settle(Here, {x.id}, "failed")
                          EXCEPT !.writes = @ \ {x}, !.sending = FALSE]))
  /\ UNCHANGED cancelRequested

\* A response line.  The handler does not ask which child it came from, and
\* stdout may still deliver after the exit event.
Deliver(p) ==
  /\ os[p] \in {"alive", "gone"} /\ pipe[p] # <<>> /\ Head(pipe[p]) # Junk
  /\ LET i == Head(pipe[p])
         s == [Here EXCEPT !.pipe[p] = Tail(@), !.consecutiveCrashes = 0]
     IN  Become(IF i \notin pending THEN s
                ELSE [Settle(s, {i}, "answered") EXCEPT
                        !.pending = @ \ {i}, !.timers = @ \ {i}])
  /\ UNCHANGED cancelRequested

\* Five malformed lines in one chunk, or more than 1MB without a newline:
\* restart().  Its verification pings are later Enqueue steps.
DeliverJunk(p, how) ==
  /\ os[p] \in {"alive", "gone"} /\ pipe[p] # <<>> /\ Head(pipe[p]) = Junk
  /\ Become(Start(Stop(RejectAllPending([Here EXCEPT !.pipe[p] = Tail(@)])), how))
  /\ UNCHANGED cancelRequested

\* Mutant: a timeout abandons the process without killing it.
TimeoutNoKill(i) ==
  /\ i \in timers
  /\ LET s == [Here EXCEPT !.pending = @ \ {i}, !.queued = @ \ {i}, !.timers = @ \ {i}]
     IN  Become(Settle(IF IsAlive(s) THEN AbandonWorker(s) ELSE s, {i}, "timeout"))
  /\ UNCHANGED cancelRequested

\* setTimeout of enqueuePromise, with forceKillForTimeout.
Timeout(i) ==
  /\ i \in timers
  /\ LET s == [Here EXCEPT !.pending = @ \ {i}, !.queued = @ \ {i}, !.timers = @ \ {i}]
         t == IF IsAlive(s) THEN AbandonWorker([s EXCEPT !.sigkill = @ \cup {s.proc}]) ELSE s
     IN  Become(Settle(t, {i}, "timeout"))
  /\ UNCHANGED cancelRequested

IdleFire ==
  /\ idleTimer
  /\ IdleOutlastsTimeouts => timers = {}
  /\ LET s == [Here EXCEPT !.idleTimer = FALSE]
     IN  Become(IF IsAlive(s) /\ pending = {} /\ queued = {} THEN Stop(s) ELSE s)
  /\ UNCHANGED cancelRequested

\* stop() from hibernation, shutdown or a signal handler.
StopWorker ==
  /\ "stop" \in Faults
  /\ Become(Stop(Here))
  /\ UNCHANGED cancelRequested

\* The force timer of stop(): it kills only a child whose `killed` is false.
GraceTimer(p) ==
  /\ p \in grace
  /\ Become([Here EXCEPT !.grace = @ \ {p},
               !.sigkill = IF p \in sigterm \cup sigkill THEN @ ELSE @ \cup {p}])
  /\ UNCHANGED cancelRequested

\* Mutant: the exit of a replaced child is counted too.
ExitCountsAll(p, code, k) ==
  /\ os[p] = "alive"
  /\ "exit" \in Faults \/ p \in sigterm \cup sigkill
  /\ p # proc => code = "crash"
  /\ LET s == [Here EXCEPT !.idleTimer = FALSE, !.os[p] = "gone",
                           !.pipe[p] = SubSeq(@, 1, k)]
         t == IF code = "crash" THEN RecordCrash(s)
              ELSE [s EXCEPT !.pikeUnavailable = @ \/ code = "notfound"]
     IN  Become(IF p = proc THEN AbandonWorker(t) ELSE t)
  /\ UNCHANGED cancelRequested

\* The exit event of any child, current or replaced; the first k answers in its
\* pipe were flushed before it died and can still be delivered.
Exit(p, code, k) ==
  /\ os[p] = "alive"
  /\ "exit" \in Faults \/ p \in sigterm \cup sigkill
  /\ p # proc => code = "crash"
  /\ LET s == [Here EXCEPT !.idleTimer = FALSE, !.os[p] = "gone",
                           !.pipe[p] = SubSeq(@, 1, k)]
         t == IF code = "crash" THEN RecordCrash(s)
              ELSE [s EXCEPT !.pikeUnavailable = @ \/ code = "notfound"]
     IN  Become(IF p = proc THEN AbandonWorker(t) ELSE s)
  /\ UNCHANGED cancelRequested

\* The error event of a child that never ran (ENOENT, EAGAIN, ...).
SpawnError(p, permanent) ==
  /\ "spawnError" \in Faults
  /\ os[p] = "new"
  /\ LET s == [Here EXCEPT !.os[p] = "gone", !.pipe[p] = <<>>]
     IN  Become(IF p = proc THEN FailSpawn(s, permanent) ELSE s)
  /\ UNCHANGED cancelRequested

BackoffExpires ==
  /\ backoff
  /\ Become([Here EXCEPT !.backoff = FALSE])
  /\ UNCHANGED cancelRequested

\* The child comes up; later it may print what is not a response.
Ready(p) ==
  /\ os[p] = "new"
  /\ Become([Here EXCEPT !.os[p] = "alive"])
  /\ UNCHANGED cancelRequested

Garble(p) ==
  /\ "junk" \in Faults
  /\ os[p] = "alive" /\ \A k \in DOMAIN pipe[p] : pipe[p][k] # Junk
  /\ Become([Here EXCEPT !.pipe[p] = <<Junk>> \o @])
  /\ UNCHANGED cancelRequested

Ages == IF AgeCeiling THEN BOOLEAN ELSE {FALSE}

Next ==
  \/ \E pr \in UsedPriorities, aged \in Ages, how1, how2 \in StartResults :
        Enqueue(pr, aged, how1, how2)
  \/ \E i \in Ids : Cancel(i) \/ Timeout(i)
  \/ \E x \in writes : WriteDone(x) \/ WriteFail(x)
  \/ \E p \in Procs :
        \/ Deliver(p) \/ GraceTimer(p) \/ Ready(p) \/ Garble(p)
        \/ \E how \in StartResults : DeliverJunk(p, how)
        \/ \E code \in ExitCodes, k \in 0..Len(pipe[p]) : Exit(p, code, k)
        \/ \E permanent \in BOOLEAN : SpawnError(p, permanent)
  \/ IdleFire \/ StopWorker \/ BackoffExpires

Spec == Init /\ [][Next]_vars

(***************************************************************************)
(* Fairness: timers fire, the kernel reports the fate of a spawn and       *)
(* reaps a child that was sent SIGKILL.  Nothing is assumed of a child     *)
(* that runs: it may hang, ignore SIGTERM or never drain its stdin.        *)
(***************************************************************************)
Fairness ==
  /\ \A i \in Ids : WF_vars(Timeout(i))
  /\ WF_vars(IdleFire)
  /\ WF_vars(BackoffExpires)
  /\ \A p \in Procs :
       /\ WF_vars(GraceTimer(p))
       /\ WF_vars(Ready(p) \/ \E permanent \in BOOLEAN : SpawnError(p, permanent))
       /\ WF_vars(p \in sigkill /\ \E code \in ExitCodes, k \in 0..Len(pipe[p]) : Exit(p, code, k))

FairSpec == Spec /\ Fairness

\* All that the settlement of requests needs: their timeouts fire.
TimeoutSpec == Spec /\ \A i \in Ids : WF_vars(Timeout(i))

(***************************************************************************)
(* Properties.                                                             *)
(***************************************************************************)
Open == {i \in Ids : outcome[i] = "open"}
InPipe(i, p) == \E k \in DOMAIN pipe[p] : pipe[p][k] = i

TypeOK ==
  /\ requestId \in 0..MaxId
  /\ priority \in [Ids -> Priorities]
  /\ queued \subseteq Ids /\ pending \subseteq Ids /\ timers \subseteq Ids
  /\ cancelRequested \subseteq Ids
  /\ outcome \in [Ids -> Outcomes]
  /\ proc \in Procs \cup {NoProc} /\ spawned \in 0..MaxProcs
  /\ os \in [Procs -> {"unborn", "new", "alive", "gone"}]
  /\ sigterm \subseteq Procs /\ sigkill \subseteq Procs /\ grace \subseteq Procs
  /\ pipe \in [Procs -> Seq(Ids \cup {Junk})]
  /\ writes \subseteq [id : Ids, proc : Procs]
  /\ sending \in BOOLEAN /\ idleTimer \in BOOLEAN
  /\ requestCount \in Nat
  /\ spawnFailed \in BOOLEAN /\ pikeUnavailable \in BOOLEAN
  /\ consecutiveCrashes \in Nat /\ backoff \in BOOLEAN

\* Every unsettled request is in the pending map with its timeout armed: no
\* handler drops a request and leaves its caller waiting for ever.
NoStrandedRequest == Open \subseteq pending \cap timers

\* An unsettled request that was written is in the pipe of the current process:
\* nobody waits for an answer from a process that was stopped or replaced.
WaitsOnCurrentProcess ==
  \A i \in Open \ queued : proc # NoProc /\ InPipe(i, proc)

\* A request waits in the queue only behind an unfinished write to the current
\* process, whose completion drains the queue: no lost wake-up.
NoLostWakeup ==
  queued # {} => proc # NoProc /\ \E x \in writes : x.proc = proc

\* A child that still runs is the current one or has been signalled.
NoOrphan ==
  \A p \in Procs : os[p] \in {"new", "alive"} => p = proc \/ p \in sigterm \cup sigkill

\* Requests of one priority reach a process in the order they were made, through
\* cancellations, timeouts and restarts (decision 0034).
SamePriorityFIFO ==
  \A p \in Procs : \A k, l \in DOMAIN pipe[p] :
    LET i == pipe[p][k]
        j == pipe[p][l]
    IN  k < l /\ i # Junk /\ j # Junk /\ priority[i] = priority[j] => i < j

\* An armed timeout belongs to an unsettled request, so that no timer of a
\* request that is over is left to kill a healthy process.  Writes that fail
\* on a live child are the exception: see the runs.
NoStaleTimer == timers \subseteq Open

\* Only children that died by themselves count as crashes, each of them once,
\* and a pause comes after CrashThreshold of them: a stop, a ceiling restart, an
\* eviction or a kill for a timeout is never taken for a crash, however late the
\* exit event of its child arrives (pikeWorkerProcess.ts:167-169).
DiedByThemselves == {p \in Procs : os[p] = "gone" /\ p \notin sigterm \cup sigkill}

OnlyCrashesCount ==
  /\ consecutiveCrashes <= Cardinality(DiedByThemselves)
  /\ backoff => CrashThreshold <= Cardinality(DiedByThemselves)

\* PikeWorker implements RequestService.
Service == INSTANCE RequestService WITH accepted <- requestId
ImplementsService == Service!Spec

\* Every accepted request settles, whatever the child does.
EveryRequestSettles == Service!Live
===============================================================================
