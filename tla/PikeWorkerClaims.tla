--------------------------- MODULE PikeWorkerClaims ---------------------------
(***************************************************************************)
(* What comments, settings and contracts of the repository say of the      *)
(* worker and its code does not do.  Each definition is the property of    *)
(* one run that expects a violation.                                       *)
(***************************************************************************)
EXTENDS PikeWorker

\* pikeWorker.ts:8 "exactly one request in flight at a time".
OneRequestInFlight == Cardinality(Open \ queued) <= 1

\* pikeWorkerProcess.ts:63 "exactly one write to stdin at a time": of the
\* current process, since an unfinished write to an old one cannot be undone.
OneWriteAtATime ==
  \A x, y \in writes : x.proc = proc /\ y.proc = proc => x = y

\* pikeWorkerProcess.ts:224 "SIGTERM then SIGKILL after 3s to prevent zombies":
\* a stopped child does not outlive the grace period by ignoring SIGTERM.
StoppedChildDies == \A p \in Procs : (p \in sigterm) ~> (os[p] = "gone")

\* pikeWorker.ts:10 "Idle eviction: kill after N minutes of no requests": a worker
\* that is left without requests is eventually stopped.
IdleWorkerEvicted ==
  (proc # NoProc /\ Open = {}) ~> (proc = NoProc \/ Open # {})

\* pikeWorkerHealth.ts:33 "if Pike crashes repeatedly, we stop auto-restarting
\* until the backoff period expires": no process is started in a pause.
NoRespawnInBackoff == [][backoff => spawned' = spawned]_vars

\* extension.package.json:240 "Set to 0 to disable": with a ceiling of 0 a new
\* request never replaces the running process.
ZeroDisablesCeiling ==
  [][MaxRequestsBeforeRestart = 0 /\ proc # NoProc /\ requestId' # requestId
       => proc' = proc]_vars
===============================================================================
