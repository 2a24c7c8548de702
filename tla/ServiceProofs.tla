----------------------------- MODULE ServiceProofs -----------------------------
(***************************************************************************)
(* PikeWorker implements RequestService: every handler is one step of the  *)
(* service, or none.  As in PikeWorkerProofs the methods come first, each  *)
(* with a lemma on what it does to the promises (Serves) and to the order  *)
(* of the pipes and the timers (Keeps), and the handlers chain them.       *)
(* Beyond the invariant of PikeWorkerProofs the refinement needs only that *)
(* the promises made are those of the ids handed out.                      *)
(***************************************************************************)
EXTENDS PikeWorkerProofs, FiniteSetTheorems

Rejected == {"failed", "timeout"}
Taken == Rejected \cup {"cancelled"}

\* Between s and r no request is accepted, and the promises that change were open.
Serves(r, s) ==
  /\ r.requestId = s.requestId
  /\ \A i \in Ids : \/ r.outcome[i] = s.outcome[i]
                    \/ s.outcome[i] = "open" /\ r.outcome[i] \in Taken

\* The requests that are rejected between s and r.
Loses(r, s) == {i \in Ids : s.outcome[i] = "open" /\ r.outcome[i] \in Rejected}

OneOrAll(r, s) ==
  \/ \A i, j \in Loses(r, s) : i = j
  \/ OpenIn(s) \cap OpenIn(r) = {}

\* The promises made are those of the ids handed out.
Numbered(s) == \A i \in Ids : s.outcome[i] = "none" <=> i > s.requestId

\* Within a priority, whatever was written went in the order of the ids, and
\* nothing that waits was overtaken.
Ordered(s) ==
  /\ \A p \in Procs : \A k, l \in DOMAIN s.pipe[p] :
       LET i == s.pipe[p][k]
           j == s.pipe[p][l]
       IN  k < l /\ i \in Ids /\ j \in Ids /\ s.priority[i] = s.priority[j] => i < j
  /\ \A p \in Procs, i \in Ids, j \in s.queued :
       PipedIn(s, i, p) /\ s.priority[i] = s.priority[j] => i < j

\* Every armed timeout is that of an open request.
Tidy(s) == s.timers \subseteq OpenIn(s)

\* No stream is out of step.
Clean(s) == \A p \in Procs : \A k \in DOMAIN s.pipe[p] : s.pipe[p][k] # Junk

\* r is as orderly as s was, as far as the faults allow.
Keeps(r, s) ==
  /\ Ordered(s) => Ordered(r)
  /\ "writeError" \in Faults \/ (Tidy(s) => Tidy(r))
  /\ "junk" \in Faults \/ (Clean(s) => Clean(r))

Orderly(s) ==
  /\ Ordered(s)
  /\ "writeError" \in Faults \/ Tidy(s)
  /\ "junk" \in Faults \/ Clean(s)

Aligned(s) == Numbered(s) /\ Orderly(s)

ServiceInv == IInv /\ Aligned(Here)

-------------------------------------------------------------------------------
(* Methods. *)

LEMMA ServesTransitive ==
  ASSUME NEW r, NEW t, NEW s, Serves(r, t), Serves(t, s)
  PROVE  Serves(r, s) /\ OpenIn(r) \subseteq OpenIn(t) /\ OpenIn(t) \subseteq OpenIn(s)
  BY DEF Serves, OpenIn, Taken, Rejected

LEMMA KeepsTransitive ==
  ASSUME NEW r, NEW t, NEW s, Keeps(r, t), Keeps(t, s)
  PROVE  Keeps(r, s)
  BY DEF Keeps

LEMMA ServesNumbered ==
  ASSUME NEW r, NEW s, Serves(r, s), Numbered(s)
  PROVE  Numbered(r)
  BY DEF Serves, Numbered, Taken, Rejected

\* Nothing happens to the promises.
LEMMA SameServes ==
  ASSUME NEW r, NEW s, r.outcome = s.outcome, r.requestId = s.requestId
  PROVE  Serves(r, s) /\ Loses(r, s) = {} /\ OpenIn(r) = OpenIn(s)
  BY DEF Serves, Loses, OpenIn, Rejected

\* Nothing is written, and nothing is queued.
LEMMA SameKeeps ==
  ASSUME NEW r, NEW s, r.priority = s.priority, r.queued \subseteq s.queued,
         r.pipe = s.pipe, Tidy(s) => Tidy(r)
  PROVE  Keeps(r, s)
  <1>1. Ordered(s) => Ordered(r)
    BY DEF Ordered, PipedIn
  <1>2. Clean(s) => Clean(r)
    BY DEF Clean
  <1> QED
    BY <1>1, <1>2 DEF Keeps

LEMMA SettleServes ==
  ASSUME NEW s \in State, NEW S, NEW how \in Taken
  PROVE  LET r == Settle(s, S, how) IN
         /\ Serves(r, s) /\ Loses(r, s) \subseteq S
         /\ how = "cancelled" => Loses(r, s) = {}
         /\ r.priority = s.priority /\ r.pipe = s.pipe
  BY DEF Settle, State, Serves, Loses, Taken, Rejected

\* rejectAllPending drops the timers of what it rejects.
LEMMA RejectAllPendingServes ==
  ASSUME NEW s \in State
  PROVE  /\ Serves(RejectAllPending(s), s) /\ Keeps(RejectAllPending(s), s)
         /\ RejectAllPending(s).timers \subseteq s.timers
  <1> DEFINE t == Settle(s, s.pending, "failed")
             T == t.timers \ s.pending
             r == RejectAllPending(s)
  <1>1. /\ t \in State /\ Serves(t, s) /\ t.priority = s.priority /\ t.pipe = s.pipe
        /\ OpenIn(t) = OpenIn(s) \ s.pending /\ t.queued = s.queued
        /\ T = s.timers \ s.pending
    BY SettleLemma, SettleServes DEF Outcomes, Taken, Rejected
  <1>2. r = [t EXCEPT !.pending = {}, !.timers = T]
    BY DEF RejectAllPending
  <1> HIDE DEF t, T, r
  <1>3. /\ r.outcome = t.outcome /\ r.requestId = t.requestId /\ r.priority = t.priority
        /\ r.pipe = t.pipe /\ r.queued = t.queued /\ r.timers = T
    BY <1>1, <1>2 DEF State
  <1>4. Tidy(s) => Tidy(r)
    BY <1>1, <1>3 DEF Tidy, OpenIn
  <1> QED
    BY <1>1, <1>3, <1>4, SameKeeps DEF Serves, r

\* rejectAllQueued too.
LEMMA RejectAllQueuedServes ==
  ASSUME NEW s \in State
  PROVE  /\ Serves(RejectAllQueued(s), s) /\ Keeps(RejectAllQueued(s), s)
         /\ RejectAllQueued(s).timers \subseteq s.timers
  <1> DEFINE t == Settle(s, s.queued, "failed")
             T == t.timers \ s.queued
             r == RejectAllQueued(s)
  <1>1. /\ t \in State /\ Serves(t, s) /\ t.priority = s.priority /\ t.pipe = s.pipe
        /\ OpenIn(t) = OpenIn(s) \ s.queued /\ T = s.timers \ s.queued
    BY SettleLemma, SettleServes DEF Outcomes, Taken, Rejected
  <1>2. r = [t EXCEPT !.queued = {}, !.timers = T]
    BY DEF RejectAllQueued
  <1> HIDE DEF t, T, r
  <1>3. /\ r.outcome = t.outcome /\ r.requestId = t.requestId /\ r.priority = t.priority
        /\ r.pipe = t.pipe /\ r.queued = {} /\ r.timers = T
    BY <1>1, <1>2 DEF State
  <1>4. Tidy(s) => Tidy(r)
    BY <1>1, <1>3 DEF Tidy, OpenIn
  <1> QED
    BY <1>1, <1>3, <1>4, SameKeeps DEF Serves, r

LEMMA AbandonWorkerServes ==
  ASSUME NEW s \in State
  PROVE  /\ Serves(AbandonWorker(s), s) /\ Keeps(AbandonWorker(s), s)
         /\ AbandonWorker(s).timers \subseteq s.timers
  <1> DEFINE u == RejectAllPending(s)
             t == RejectAllQueued(u)
             r == AbandonWorker(s)
  <1>1. u \in State /\ Serves(u, s) /\ Keeps(u, s) /\ u.timers \subseteq s.timers
    BY RejectAllPendingLemma, RejectAllPendingServes
  <1>2. r = [t EXCEPT !.sending = FALSE, !.proc = NoProc]
    BY DEF AbandonWorker
  <1> HIDE DEF u
  <1>3. t \in State /\ Serves(t, u) /\ Keeps(t, u) /\ t.timers \subseteq u.timers
    BY <1>1, RejectAllQueuedLemma, RejectAllQueuedServes
  <1> HIDE DEF t, r
  <1>4. /\ r.outcome = t.outcome /\ r.requestId = t.requestId /\ r.priority = t.priority
        /\ r.pipe = t.pipe /\ r.queued = t.queued /\ r.timers = t.timers
    BY <1>2, <1>3 DEF State
  <1>5. Serves(r, t) /\ Keeps(r, t)
    BY <1>4, SameServes, SameKeeps DEF Tidy
  <1> QED
    BY <1>1, <1>3, <1>4, <1>5, ServesTransitive, KeepsTransitive DEF r

LEMMA StopServes ==
  ASSUME NEW s \in State
  PROVE  Serves(Stop(s), s) /\ Keeps(Stop(s), s)
  <1> DEFINE u == RejectAllPending(s)
             dying == IF IsAlive(s) THEN {s.proc} ELSE {}
             T == u.sigterm \cup dying
             G == u.grace \cup dying
             r == Stop(s)
  <1>1. u \in State /\ Serves(u, s) /\ Keeps(u, s)
    BY RejectAllPendingLemma, RejectAllPendingServes
  <1>2. r = [u EXCEPT !.idleTimer = FALSE, !.sigterm = T, !.grace = G,
                      !.proc = NoProc, !.queued = {}, !.sending = FALSE]
    BY DEF Stop
  <1> HIDE DEF u, dying, T, G, r
  <1>3. /\ r.outcome = u.outcome /\ r.requestId = u.requestId /\ r.priority = u.priority
        /\ r.pipe = u.pipe /\ r.queued = {} /\ r.timers = u.timers
    BY <1>1, <1>2 DEF State
  <1>4. Serves(r, u) /\ Keeps(r, u)
    BY <1>3, SameServes, SameKeeps DEF Tidy
  <1> QED
    BY <1>1, <1>4, ServesTransitive, KeepsTransitive DEF r

LEMMA FailSpawnServes ==
  ASSUME NEW s \in State, NEW permanent \in BOOLEAN
  PROVE  Serves(FailSpawn(s, permanent), s) /\ Keeps(FailSpawn(s, permanent), s)
  <1> DEFINE U == s.pikeUnavailable \/ permanent
             t == [s EXCEPT !.idleTimer = FALSE, !.spawnFailed = TRUE, !.pikeUnavailable = U]
  <1>1. U \in BOOLEAN
    OBVIOUS
  <1>2. FailSpawn(s, permanent) = AbandonWorker(t)
    BY Zenon DEF FailSpawn
  <1>3. t = [s EXCEPT !.idleTimer = FALSE, !.spawnFailed = TRUE, !.pikeUnavailable = U]
    OBVIOUS
  <1> HIDE DEF U, t
  <1>4. t \in State
    BY <1>1, <1>3 DEF State
  <1>5. /\ t.outcome = s.outcome /\ t.requestId = s.requestId /\ t.priority = s.priority
        /\ t.pipe = s.pipe /\ t.queued = s.queued /\ t.timers = s.timers
    BY <1>3 DEF State
  <1>6. Serves(t, s) /\ Keeps(t, s)
    BY <1>5, SameServes, SameKeeps DEF Tidy
  <1> QED
    BY <1>2, <1>4, <1>6, AbandonWorkerServes, ServesTransitive, KeepsTransitive

LEMMA StartServes ==
  ASSUME NEW s \in State, NEW how \in {"ok", "permanent", "transient"}
  PROVE  /\ Serves(Start(s, how), s) /\ Keeps(Start(s, how), s)
         /\ IsAlive(s) => Start(s, how) = s
  <1>1. Serves(s, s) /\ Keeps(s, s)
    BY SameServes DEF Keeps
  <1>2. Serves(Spawn(s), s) /\ Keeps(Spawn(s), s)
    <2> DEFINE r == Spawn(s)
    <2>1. /\ r.outcome = s.outcome /\ r.requestId = s.requestId /\ r.priority = s.priority
          /\ r.pipe = s.pipe /\ r.queued = s.queued /\ r.timers = s.timers
      BY DEF Spawn, State
    <2> HIDE DEF r
    <2>2. Serves(r, s) /\ Keeps(r, s)
      BY <2>1, SameServes, SameKeeps DEF Tidy
    <2> QED
      BY <2>2 DEF r
  <1>3. /\ Serves(FailSpawn(s, how = "permanent"), s)
        /\ Keeps(FailSpawn(s, how = "permanent"), s)
    BY FailSpawnServes
  <1> QED
    BY <1>1, <1>2, <1>3 DEF Start

\* Writing one request that none of its priority in the queue precedes.
LEMMA WriteKeeps ==
  ASSUME NEW t, Sound(t), t.proc # NoProc, NEW n \in t.queued,
         \A j \in t.queued \ {n} : t.priority[n] = t.priority[j] => n < j,
         NEW r, r.pipe = [t.pipe EXCEPT ![t.proc] = Append(t.pipe[t.proc], n)],
         r.queued = t.queued \ {n}, r.priority = t.priority,
         r.timers = t.timers, r.outcome = t.outcome
  PROVE  Keeps(r, t)
  <1> DEFINE p == t.proc
             S == Ids \cup {Junk}
             q == t.pipe[p]
  <1>1. p \in Procs /\ n \in Ids /\ t.pipe \in [Procs -> Seq(S)] /\ q \in Seq(S) /\ n \in S
    BY DEF Sound, State
  <1>2. /\ r.pipe[p] = Append(q, n)
        /\ \A o \in Procs : o # p => r.pipe[o] = t.pipe[o]
    BY <1>1
  <1>q. q = t.pipe[t.proc] /\ p = t.proc
    OBVIOUS
  <1>j. Junk \notin Ids
    BY PikeWorkerAssumption DEF Ids, Junk
  <1>s. S = Ids \cup {Junk}
    OBVIOUS
  <1> HIDE DEF q, p, S
  <1>3. /\ \A k \in DOMAIN Append(q, n) :
             Append(q, n)[k] = n \/ (k \in DOMAIN q /\ Append(q, n)[k] = q[k])
    BY <1>1, AppendPiped
  <1>4. /\ DOMAIN Append(q, n) = 1..(Len(q) + 1) /\ DOMAIN q = 1..Len(q) /\ Len(q) \in Nat
        /\ Append(q, n)[Len(q) + 1] = n /\ \A k \in 1..Len(q) : Append(q, n)[k] = q[k]
    <2>1. /\ Append(q, n) \in Seq(S) /\ Len(Append(q, n)) = Len(q) + 1
          /\ Append(q, n)[Len(q) + 1] = n
          /\ \A k \in 1..Len(q) : Append(q, n)[k] = q[k]
      BY <1>1, AppendProperties
    <2> QED
      BY <1>1, <2>1
  <1>5. ASSUME Ordered(t), NEW o \in Procs, NEW i \in Ids, PipedIn(r, i, o), i # n
        PROVE  PipedIn(t, i, o)
    <2>1. PICK k \in DOMAIN r.pipe[o] : r.pipe[o][k] = i
      BY <1>5 DEF PipedIn
    <2>2. CASE o = p
      BY <1>2, <1>3, <1>5, <1>q, <2>1, <2>2 DEF PipedIn
    <2>3. CASE o # p
      BY <1>2, <2>1, <2>3 DEF PipedIn
    <2> QED
      BY <2>2, <2>3
  <1>6. ASSUME Ordered(t)
        PROVE  Ordered(r)
    <2>1. ASSUME NEW o \in Procs, NEW k \in DOMAIN r.pipe[o], NEW l \in DOMAIN r.pipe[o], k < l,
                 r.pipe[o][k] \in Ids, r.pipe[o][l] \in Ids,
                 r.priority[r.pipe[o][k]] = r.priority[r.pipe[o][l]]
          PROVE  r.pipe[o][k] < r.pipe[o][l]
      <3>1. CASE o # p
        BY <1>2, <1>6, <2>1, <3>1 DEF Ordered
      <3>2. CASE o = p /\ l \in 1..Len(q)
        <4>1. /\ k \in DOMAIN q /\ l \in DOMAIN q
              /\ r.pipe[o][k] = q[k] /\ r.pipe[o][l] = q[l]
          BY <1>2, <1>4, <2>1, <3>2
        <4> QED
          BY <1>1, <1>6, <1>q, <2>1, <4>1 DEF Ordered
      <3>3. CASE o = p /\ l \notin 1..Len(q)
        <4>1. /\ k \in DOMAIN q /\ r.pipe[o][k] = q[k] /\ r.pipe[o][l] = n
          BY <1>2, <1>4, <2>1, <3>3
        <4>2. PipedIn(t, q[k], p)
          BY <1>q, <4>1 DEF PipedIn
        <4> QED
          BY <1>1, <1>6, <2>1, <4>1, <4>2 DEF Ordered
      <3> QED
        BY <3>1, <3>2, <3>3
    <2>2. ASSUME NEW o \in Procs, NEW i \in Ids, NEW j \in r.queued,
                 PipedIn(r, i, o), r.priority[i] = r.priority[j]
          PROVE  i < j
      <3>1. CASE i = n
        BY <2>2, <3>1
      <3>2. CASE i # n
        BY <1>5, <1>6, <2>2, <3>2 DEF Ordered
      <3> QED
        BY <3>1, <3>2
    <2> QED
      BY <2>1, <2>2 DEF Ordered
  <1>7. Tidy(t) => Tidy(r)
    BY DEF Tidy, OpenIn
  <1>8. Clean(t) => Clean(r)
    <2> SUFFICES ASSUME Clean(t), NEW o \in Procs, NEW k \in DOMAIN r.pipe[o]
                 PROVE  r.pipe[o][k] # Junk
      BY DEF Clean
    <2>1. CASE o = p
      BY <1>1, <1>2, <1>3, <1>j, <1>q, <2>1 DEF Clean
    <2>2. CASE o # p
      BY <1>2, <2>2 DEF Clean
    <2> QED
      BY <2>1, <2>2
  <1> QED
    BY <1>6, <1>7, <1>8 DEF Keeps

\* drainQueue resolves cancelled requests; it rejects only without a process,
\* and what it writes is the oldest of its priority.
LEMMA DrainServes ==
  ASSUME NEW s, Sound(s), cancelRequested \subseteq Ids
  PROVE  /\ Serves(DrainQueue(s), s) /\ Keeps(DrainQueue(s), s)
         /\ s.proc # NoProc => Loses(DrainQueue(s), s) = {}
         /\ DrainQueue(s).spawned = s.spawned
  <1> DEFINE live    == s.queued \ cancelRequested
             next    == CHOOSE i \in live : \A j \in live \ {i} : Before(s, i, j)
             D       == {i \in s.queued \cap cancelRequested : live = {} \/ Before(s, i, next)}
             u       == Settle(s, D, "cancelled")
             Q       == u.queued \ D
             P       == u.pending \ D
             T       == u.timers \ (D \cap s.pending)
             t       == [u EXCEPT !.queued = Q, !.pending = P, !.timers = T]
             N       == t.queued \ {next}
             W       == t.writes \cup {[id |-> next, proc |-> s.proc]}
             O       == [t.pipe EXCEPT ![s.proc] = Append(@, next)]
             w       == [t EXCEPT !.queued = N, !.sending = TRUE, !.writes = W, !.pipe = O]
  <1>1. DrainQueue(s) =
          IF s.sending THEN s
          ELSE IF ~IsAlive(s) THEN IF s.spawnFailed THEN RejectAllQueued(s) ELSE s
          ELSE IF live = {} THEN t
          ELSE [t EXCEPT !.queued = @ \ {next}, !.sending = TRUE,
                         !.writes = @ \cup {[id |-> next, proc |-> s.proc]},
                         !.pipe[s.proc] = Append(@, next)]
    BY Zenon DEF DrainQueue
  <1>2. s \in State
    BY DEF Sound
  <1>3. /\ u \in State /\ Serves(u, s) /\ Loses(u, s) = {} /\ u.priority = s.priority
        /\ u.pipe = s.pipe /\ u.queued = s.queued /\ u.timers = s.timers
        /\ OpenIn(u) = OpenIn(s) \ D /\ u.spawned = s.spawned
    BY <1>2, SettleLemma, SettleServes DEF Outcomes, Taken, SameContext, SameChildren
  <1>d. t = [u EXCEPT !.queued = Q, !.pending = P, !.timers = T]
    OBVIOUS
  <1>n. live # {} => /\ next \in live
                     /\ \A j \in live \ {next} : Before(s, next, j)
    BY <1>2, NextExists DEF State
  <1>e. /\ D \subseteq s.queued
        /\ \A j \in s.queued \ D : j \in live \/ (live # {} /\ ~Before(s, j, next))
    OBVIOUS
  <1>q. /\ s.queued \subseteq s.pending /\ Q = s.queued \ D
        /\ T = s.timers \ (D \cap s.pending)
    BY <1>3 DEF Sound
  <1>s. Sound(t) /\ t.queued = s.queued \ D /\ t.proc = s.proc
    BY <1>e, DropSound
  <1> HIDE DEF D, next, u, Q, P, T, t
  <1>w. w = [t EXCEPT !.queued = @ \ {next}, !.sending = TRUE,
                      !.writes = @ \cup {[id |-> next, proc |-> s.proc]},
                      !.pipe[s.proc] = Append(@, next)]
    OBVIOUS
  <1>4. /\ t.outcome = u.outcome /\ t.requestId = u.requestId /\ t.priority = u.priority
        /\ t.pipe = u.pipe /\ t.timers = T /\ t.spawned = u.spawned
    BY <1>3, <1>d DEF State
  <1>t. t \in State
    BY <1>s DEF Sound
  <1>o. O = [t.pipe EXCEPT ![t.proc] = Append(t.pipe[t.proc], next)]
    BY <1>s
  <1>m. N = t.queued \ {next}
    OBVIOUS
  <1> HIDE DEF N, W, O
  <1>5. /\ w.outcome = t.outcome /\ w.requestId = t.requestId /\ w.priority = t.priority
        /\ w.queued = N /\ w.pipe = O /\ w.timers = t.timers /\ w.spawned = t.spawned
    BY <1>t DEF State
  <1> HIDE DEF w
  <1>6. Serves(t, s) /\ Loses(t, s) = {} /\ t.spawned = s.spawned
    BY <1>3, <1>4 DEF Serves, Loses
  <1>7. Serves(w, s) /\ Loses(w, s) = {} /\ w.spawned = s.spawned
    BY <1>5, <1>6 DEF Serves, Loses
  <1>8. Serves(s, s) /\ Loses(s, s) = {} /\ Keeps(s, s)
    BY SameServes DEF Keeps
  <1>9. s.proc # NoProc => IsAlive(s)
    BY DEF Sound, IsAlive, Signalled
  <1>10. Keeps(t, s)
    <2>1. OpenIn(t) = OpenIn(u)
      BY <1>4 DEF OpenIn
    <2>2. Tidy(s) => Tidy(t)
      BY <1>3, <1>4, <1>e, <1>q, <2>1 DEF Tidy
    <2> QED
      BY <1>3, <1>4, <1>s, <2>2, SameKeeps
  <1>11. CASE live # {} /\ IsAlive(s)
    <2>1. next \in t.queued
      <3>1. next \notin D
        BY <1>n, <1>11 DEF D
      <3> QED
        BY <1>n, <1>s, <1>11, <3>1
    <2>2. ASSUME NEW j \in t.queued \ {next}, t.priority[next] = t.priority[j]
          PROVE  next < j
      <3>1. t.priority = s.priority
        BY <1>3, <1>4
      <3>2. next \in Ids /\ j \in Ids /\ next \in Int /\ j \in Int /\ next # j
        BY <1>t, <2>1, <2>2, PikeWorkerAssumption DEF State, Ids
      <3>3. j \in live \/ ~Before(s, j, next)
        BY <1>e, <1>s, <2>2
      <3>4. CASE j \in live
        <4>1. Before(s, next, j)
          BY <1>n, <1>11, <3>4, <3>2
        <4>2. s.priority[next] \in Nat /\ s.priority[j] \in Nat
          BY <1>2, <3>2 DEF State, Priorities
        <4> QED
          BY <2>2, <3>1, <4>1, <4>2 DEF Before
      <3>5. CASE ~Before(s, j, next)
        BY <2>2, <3>1, <3>2, <3>5 DEF Before
      <3> QED
        BY <3>3, <3>4, <3>5
    <2>3. t.proc # NoProc
      BY <1>s, <1>11 DEF IsAlive
    <2>4. Keeps(w, t)
      BY <1>5, <1>m, <1>o, <1>s, <2>1, <2>2, <2>3, WriteKeeps
    <2>5. Keeps(w, s)
      BY <1>10, <2>4, KeepsTransitive
    <2> QED
      BY <1>1, <1>7, <1>8, <1>11, <1>w, <2>5
  <1>12. CASE ~(live # {} /\ IsAlive(s))
    <2>1. RejectAllQueued(s).spawned = s.spawned
      BY <1>2, RejectAllQueuedLemma DEF SameContext, SameChildren
    <2> QED
      BY <1>1, <1>2, <1>6, <1>8, <1>9, <1>10, <1>12, <2>1, RejectAllQueuedServes
  <1> QED
    BY <1>11, <1>12

\* A new request takes the next number, and only its promise changes; it goes
\* behind everything that was asked before.
LEMMA PushServes ==
  ASSUME NEW s, Sound(s), s.requestId < MaxId, NEW pr \in Priorities
  PROVE  LET r == Push(s, pr)
             id == s.requestId + 1
         IN  /\ id \in Ids /\ r.requestId = id /\ r.outcome[id] = "open"
             /\ \A i \in Ids : i # id => r.outcome[i] = s.outcome[i]
             /\ Keeps(r, s)
  <1> DEFINE id == s.requestId + 1
             A == [s.priority EXCEPT ![id] = pr]
             O == [s.outcome EXCEPT ![id] = "open"]
             P == s.pending \cup {id}
             T == s.timers \cup {id}
             Q == s.queued \cup {id}
             n == s.requestCount + 1
             r == Push(s, pr)
  <1>1. s \in State /\ s.requestId \in 0..MaxId
    BY DEF Sound, State
  <1>2. id \in Ids /\ id \in Int
    BY <1>1, PikeWorkerAssumption DEF Ids
  <1>3. /\ \A i \in Ids : i # id => O[i] = s.outcome[i] /\ A[i] = s.priority[i]
        /\ O[id] = "open"
    BY <1>1, <1>2 DEF State
  <1>4. r = [s EXCEPT !.requestId = id, !.priority = A, !.outcome = O,
                      !.requestCount = n, !.idleTimer = TRUE,
                      !.pending = P, !.timers = T, !.queued = Q]
    BY <1>1 DEF Push, State
  <1>5. \A i \in s.queued \cup Asked(s) : i \in Int /\ i < id
    <2>1. \A i \in s.queued \cup Asked(s) : i \in Int /\ i <= s.requestId
      BY <1>1, PikeWorkerAssumption DEF Sound, Asked, Ids, State
    <2> QED
      BY <1>1, <2>1
  <1> HIDE DEF id, A, O, n, r
  <1>6. /\ r.requestId = id /\ r.outcome = O /\ r.priority = A /\ r.pipe = s.pipe
        /\ r.timers = T /\ r.queued = Q
    BY <1>1, <1>4 DEF State
  <1>7. ASSUME NEW p \in Procs, NEW i \in Ids, PipedIn(s, i, p)
        PROVE  i < id /\ i # id /\ A[i] = s.priority[i]
    <2>1. i \in Asked(s)
      BY <1>7 DEF Asked
    <2>2. i < id /\ i \in Int
      BY <1>5, <2>1
    <2> QED
      BY <1>2, <1>3, <2>2
  <1>8. ASSUME Ordered(s)
        PROVE  Ordered(r)
    <2>1. ASSUME NEW p \in Procs, NEW k \in DOMAIN r.pipe[p], NEW l \in DOMAIN r.pipe[p], k < l,
                 r.pipe[p][k] \in Ids, r.pipe[p][l] \in Ids,
                 r.priority[r.pipe[p][k]] = r.priority[r.pipe[p][l]]
          PROVE  r.pipe[p][k] < r.pipe[p][l]
      <3>1. PipedIn(s, r.pipe[p][k], p) /\ PipedIn(s, r.pipe[p][l], p)
        BY <1>6, <2>1 DEF PipedIn
      <3> QED
        BY <1>6, <1>7, <1>8, <2>1, <3>1 DEF Ordered
    <2>2. ASSUME NEW p \in Procs, NEW i \in Ids, NEW j \in r.queued,
                 PipedIn(r, i, p), r.priority[i] = r.priority[j]
          PROVE  i < j
      <3>1. PipedIn(s, i, p)
        BY <1>6, <2>2 DEF PipedIn
      <3>2. CASE j = id
        BY <1>7, <3>1, <3>2
      <3>3. CASE j # id
        <4>1. j \in s.queued /\ j \in Ids
          BY <1>1, <1>6, <3>3 DEF State, Q
        <4> QED
          BY <1>3, <1>6, <1>7, <1>8, <2>2, <3>1, <3>3, <4>1 DEF Ordered
      <3> QED
        BY <3>2, <3>3
    <2> QED
      BY <2>1, <2>2 DEF Ordered
  <1>9. Tidy(s) => Tidy(r)
    BY <1>1, <1>2, <1>3, <1>6 DEF Tidy, OpenIn, State
  <1>10. Keeps(r, s)
    BY <1>6, <1>8, <1>9 DEF Keeps, Clean
  <1> QED
    BY <1>2, <1>3, <1>6, <1>10 DEF r, id

-------------------------------------------------------------------------------
(* Pipes. *)

\* What is in q was in o, in the same order.
Thinner(q, o) ==
  /\ \A k \in DOMAIN q : \E m \in DOMAIN o : o[m] = q[k]
  /\ \A k, l \in DOMAIN q : k < l =>
       \E m, n \in DOMAIN o : m < n /\ o[m] = q[k] /\ o[n] = q[l]

LEMMA PrefixThinner ==
  ASSUME NEW S, NEW q \in Seq(S), NEW n \in 0..Len(q)
  PROVE  Thinner(SubSeq(q, 1, n), q)
  <1>1. Len(q) \in Nat /\ DOMAIN q = 1..Len(q) /\ \A k \in 1..n : q[k] \in S
    OBVIOUS
  <1>2. /\ SubSeq(q, 1, n) \in Seq(S)
        /\ Len(SubSeq(q, 1, n)) = IF 1 <= n THEN n - 1 + 1 ELSE 0
        /\ \A k \in 1..(n - 1 + 1) : SubSeq(q, 1, n)[k] = q[1 + k - 1]
    BY <1>1, SubSeqProperties
  <1>3. DOMAIN SubSeq(q, 1, n) = 1..n
    BY <1>1, <1>2
  <1>4. \A k \in DOMAIN SubSeq(q, 1, n) : k \in DOMAIN q /\ q[k] = SubSeq(q, 1, n)[k]
    <2> SUFFICES ASSUME NEW k \in DOMAIN SubSeq(q, 1, n)
                 PROVE  k \in DOMAIN q /\ q[k] = SubSeq(q, 1, n)[k]
      OBVIOUS
    <2>1. k \in DOMAIN q /\ k \in 1..(n - 1 + 1) /\ 1 + k - 1 = k
      BY <1>1, <1>3
    <2> QED
      BY <1>2, <2>1
  <1> QED
    BY <1>4 DEF Thinner

LEMMA TailThinner ==
  ASSUME NEW S, NEW q \in Seq(S), q # <<>>
  PROVE  Thinner(Tail(q), q)
  <1>1. /\ Tail(q) \in Seq(S) /\ Len(Tail(q)) = Len(q) - 1
        /\ \A k \in 1..Len(Tail(q)) : Tail(q)[k] = q[k + 1]
    BY HeadTailProperties
  <1>2. Len(q) \in Nat /\ DOMAIN q = 1..Len(q) /\ Len(q) # 0
    OBVIOUS
  <1>3. DOMAIN Tail(q) = 1..(Len(q) - 1)
    BY <1>1
  <1>4. \A k \in DOMAIN Tail(q) : k + 1 \in DOMAIN q /\ q[k + 1] = Tail(q)[k]
    BY <1>1, <1>2, <1>3
  <1>5. \A k, l \in DOMAIN Tail(q) : k < l => k + 1 < l + 1
    BY <1>2, <1>3
  <1> QED
    BY <1>4, <1>5 DEF Thinner

\* Nothing is written, some of what was written is gone, and nothing is queued.
LEMMA ThinKeeps ==
  ASSUME NEW r, NEW s, r.priority = s.priority, r.queued \subseteq s.queued,
         \A p \in Procs : r.pipe[p] = s.pipe[p] \/ Thinner(r.pipe[p], s.pipe[p]),
         Tidy(s) => Tidy(r)
  PROVE  Keeps(r, s)
  <1>1. ASSUME NEW p \in Procs, NEW i, PipedIn(r, i, p)
        PROVE  PipedIn(s, i, p)
    BY <1>1 DEF PipedIn, Thinner
  <1>2. ASSUME Ordered(s), NEW p \in Procs, NEW k \in DOMAIN r.pipe[p],
               NEW l \in DOMAIN r.pipe[p], k < l,
               r.pipe[p][k] \in Ids, r.pipe[p][l] \in Ids,
               r.priority[r.pipe[p][k]] = r.priority[r.pipe[p][l]]
        PROVE  r.pipe[p][k] < r.pipe[p][l]
    <2>1. PICK m, n \in DOMAIN s.pipe[p] :
            m < n /\ s.pipe[p][m] = r.pipe[p][k] /\ s.pipe[p][n] = r.pipe[p][l]
      BY <1>2 DEF Thinner
    <2> QED
      BY <1>2, <2>1 DEF Ordered
  <1>3. Ordered(s) => Ordered(r)
    BY <1>1, <1>2 DEF Ordered
  <1>4. Clean(s) => Clean(r)
    BY DEF Clean, Thinner
  <1> QED
    BY <1>3, <1>4 DEF Keeps

\* Taking the first line off a pipe.
LEMMA PopKeeps ==
  ASSUME NEW s \in State, NEW p \in Procs, s.pipe[p] # <<>>, NEW c \in Nat
  PROVE  LET u == [s EXCEPT !.pipe[p] = Tail(@), !.consecutiveCrashes = c] IN
         /\ Keeps(u, s)
         /\ u.priority = s.priority /\ u.queued = s.queued /\ u.timers = s.timers
         /\ u.outcome = s.outcome
  <1> DEFINE S == Ids \cup {Junk}
             P == [s.pipe EXCEPT ![p] = Tail(s.pipe[p])]
             u == [s EXCEPT !.pipe = P, !.consecutiveCrashes = c]
  <1>1. s.pipe \in [Procs -> Seq(S)] /\ s.pipe[p] \in Seq(S)
    BY DEF State
  <1> HIDE DEF S
  <1>2. /\ P[p] = Tail(s.pipe[p]) /\ Thinner(P[p], s.pipe[p])
        /\ \A o \in Procs : o # p => P[o] = s.pipe[o]
    BY <1>1, TailThinner
  <1> HIDE DEF P
  <1>3. /\ u.priority = s.priority /\ u.queued = s.queued /\ u.timers = s.timers
        /\ u.outcome = s.outcome /\ u.pipe = P
    BY DEF State
  <1> HIDE DEF u
  <1>4. Keeps(u, s)
    BY <1>2, <1>3, ThinKeeps DEF Tidy, OpenIn
  <1> QED
    BY <1>3, <1>4 DEF u, P

-------------------------------------------------------------------------------
(* Handlers. *)

\* Without a process nobody waits, between two handlers.
LEMMA NobodyWaits ==
  ASSUME NEW s, Invariant(s), s.proc = NoProc
  PROVE  OpenIn(s) = {}
  BY DEF Invariant, Sound

\* What is orderly in a record is orderly in the state it becomes.
LEMMA BecomeOrderly ==
  ASSUME ServiceInv, NEW r, Become(r), Keeps(r, Here)
  PROVE  Orderly(Here)'
  <1>1. /\ Here'.outcome = r.outcome /\ Here'.priority = r.priority /\ Here'.pipe = r.pipe
        /\ Here'.queued = r.queued /\ Here'.timers = r.timers
    BY DEF Become, Here
  <1>2. Orderly(r)
    BY DEF Keeps, Orderly, ServiceInv, Aligned
  <1> QED
    BY <1>1, <1>2 DEF Orderly, Ordered, Tidy, Clean, PipedIn, OpenIn

\* What a handler must do to the promises, to be a step of the service.
LEMMA HandleStep ==
  ASSUME ServiceInv, NEW r, Become(r), Serves(r, Here), OneOrAll(r, Here), Keeps(r, Here)
  PROVE  Service!Handle /\ Aligned(Here)'
  <1>1. /\ outcome' = r.outcome /\ requestId' = r.requestId
        /\ Here.outcome = outcome /\ Here.requestId = requestId
        /\ Here'.outcome = outcome' /\ Here'.requestId = requestId'
    BY DEF Become, Here
  <1>2. outcome \in [Ids -> Outcomes] /\ requestId \in 0..MaxId
    BY DEF ServiceInv, IInv, Invariant, Sound, State, Here
  <1>3. Numbered(Here)'
    BY <1>1, ServesNumbered DEF ServiceInv, Aligned, Numbered, Serves, Taken, Rejected
  <1>4. requestId' = requestId
    BY <1>1 DEF Serves
  <1>5. ASSUME NEW i \in Ids
        PROVE  \/ i > requestId' /\ outcome'[i] = "none"
               \/ i <= requestId /\ outcome[i] \in Service!Settled /\ outcome'[i] = outcome[i]
               \/ /\ i <= requestId' /\ outcome[i] \in {"none", "open"}
                  /\ outcome'[i] \in {"open", "cancelled", "failed", "timeout"}
    <2>1. i \in Int /\ requestId \in Int
      BY <1>2, PikeWorkerAssumption DEF Ids
    <2>2. outcome[i] = "none" <=> i > requestId
      BY <1>1 DEF ServiceInv, Aligned, Numbered
    <2>3. outcome'[i] = outcome[i] \/ (outcome[i] = "open" /\ outcome'[i] \in Taken)
      BY <1>1 DEF Serves
    <2>4. outcome[i] \in Outcomes
      BY <1>2
    <2> QED
      BY <1>4, <2>1, <2>2, <2>3, <2>4 DEF Taken, Rejected, Outcomes, Service!Settled
  <1>6. Service!Lost = Loses(r, Here)
    <2>1. ASSUME NEW i \in Ids
          PROVE  outcome[i] \notin Service!Settled /\ outcome'[i] \in {"failed", "timeout"}
                   <=> outcome[i] = "open" /\ r.outcome[i] \in Rejected
      <3>1. outcome'[i] = outcome[i] \/ (outcome[i] = "open" /\ outcome'[i] \in Taken)
        BY <1>1 DEF Serves
      <3> QED
        BY <1>1, <3>1 DEF Service!Settled, Rejected
    <2> QED
      BY <1>1, <2>1 DEF Service!Lost, Loses, Service!Ids, Ids
  <1>7. \/ \A i, j \in Service!Lost : i = j
        \/ \A i \in Ids : ~(outcome[i] = "open" /\ outcome'[i] = "open")
    BY <1>1, <1>6 DEF OneOrAll, OpenIn
  <1> QED
    BY <1>3, <1>4, <1>5, <1>7, BecomeOrderly DEF Service!Handle, Service!Ids, Ids, Aligned

\* A handler that leaves the promises alone.
LEMMA QuietStep ==
  ASSUME ServiceInv, NEW r, Become(r), r.outcome = outcome, r.requestId = requestId,
         Keeps(r, Here)
  PROVE  UNCHANGED Service!svars /\ Aligned(Here)'
  <1>1. UNCHANGED Service!svars /\ Numbered(Here)'
    BY DEF Become, Here, ServiceInv, Aligned, Numbered, Service!svars
  <1> QED
    BY <1>1, BecomeOrderly DEF Aligned

\* A handler after which nobody waits.
LEMMA AllLost ==
  ASSUME ServiceInv, NEW r, Become(r), Serves(r, Here), OpenIn(r) = {}, Keeps(r, Here)
  PROVE  Service!Handle /\ Aligned(Here)'
  <1>1. OneOrAll(r, Here)
    BY DEF OneOrAll
  <1> QED
    BY <1>1, HandleStep

\* Abandoning the worker, whatever else the handler noted, loses everybody.
LEMMA AbandonAll ==
  ASSUME NEW s, Sound(s), NEW t \in State, t.outcome = s.outcome,
         t.requestId = s.requestId, t.pending = s.pending, Keeps(t, s)
  PROVE  LET r == AbandonWorker(t) IN Serves(r, s) /\ OpenIn(r) = {} /\ Keeps(r, s)
  <1>1. Serves(t, s) /\ OpenIn(t) = OpenIn(s)
    BY SameServes
  <1>2. Serves(AbandonWorker(t), s) /\ Keeps(AbandonWorker(t), s)
    BY <1>1, AbandonWorkerServes, ServesTransitive, KeepsTransitive
  <1>3. OpenIn(AbandonWorker(t)) = OpenIn(t) \ (t.pending \cup t.queued)
    BY AbandonWorkerLemma
  <1> QED
    BY <1>1, <1>2, <1>3 DEF Sound

\* A stop loses everybody.
LEMMA StopAll ==
  ASSUME NEW s, Sound(s)
  PROVE  Serves(Stop(s), s) /\ OpenIn(Stop(s)) = {} /\ Keeps(Stop(s), s)
  <1>1. s \in State /\ OpenIn(s) \subseteq s.pending
    BY DEF Sound
  <1>2. OpenIn(Stop(s)) = OpenIn(s) \ s.pending
    BY <1>1, StopLemma
  <1> QED
    BY <1>1, <1>2, StopServes

\* Enqueue accepts one request; if a restart or a failed spawn rejects others,
\* it rejects all of them.
LEMMA EnqueueServes ==
  ASSUME ServiceInv, NEW pr \in UsedPriorities, NEW aged \in BOOLEAN,
         NEW how1 \in StartResults, NEW how2 \in StartResults,
         Enqueue(pr, aged, how1, how2)
  PROVE  Service!Handle /\ Aligned(Here)'
  <1> DEFINE s  == Here
             s0 == CheckAndClearBackoff(s)
             s1 == IF ShouldForceRestart(s0, aged) THEN Start(Stop(s0), how1) ELSE s0
             s2 == Start(s1, how2)
             s3 == Push(s2, pr)
             s4 == DrainQueue(s3)
             id == s.requestId + 1
  <1>1. /\ Become(s4) /\ s.requestId < MaxId /\ s.spawned = spawned
        /\ s.outcome = outcome /\ s.requestId = requestId
    BY DEF Enqueue, Here
  <1>2. /\ how1 \in {"ok", "permanent", "transient"} /\ how2 \in {"ok", "permanent", "transient"}
        /\ how1 = "ok" => spawned < MaxProcs
        /\ how2 = "ok" => spawned < MaxProcs
    BY DEF StartResults
  <1>3. Invariant(s) /\ Numbered(s) /\ s \in State
    BY DEF ServiceInv, Aligned, IInv, Invariant, Sound
  <1>4. outcome' = s4.outcome /\ requestId' = s4.requestId
    BY <1>1 DEF Become
  <1>h. Here'.outcome = outcome' /\ Here'.requestId = requestId'
    BY DEF Here
  <1>s. s = Here
    OBVIOUS
  <1> HIDE DEF s
  <1>k. Keeps(s0, s)
    <2>1. /\ s0.priority = s.priority /\ s0.queued = s.queued /\ s0.pipe = s.pipe
          /\ s0.timers = s.timers /\ s0.outcome = s.outcome
      BY <1>3 DEF CheckAndClearBackoff, State
    <2> QED
      BY <2>1, SameKeeps DEF Tidy, OpenIn
  <1>5. /\ Invariant(s0) /\ s0 \in State /\ s0.requestId = s.requestId
        /\ s0.outcome = s.outcome /\ s0.spawned = s.spawned
    <2>1. /\ s0 \in State /\ SameRequests(s0, s) /\ s0.grace = s.grace
          /\ s0.pipe = s.pipe /\ s0.os = s.os
      BY <1>3 DEF CheckAndClearBackoff, State, SameRequests
    <2>2. Invariant(s0)
      BY <1>3, <2>1, FrameInv DEF Runs
    <2> QED
      BY <2>1, <2>2 DEF SameRequests
  <1> HIDE DEF s0
  <1>6. /\ Sound(s1) /\ Serves(s1, s0) /\ Keeps(s1, s0) /\ (s1.proc # NoProc \/ s1.spawned = spawned)
        /\ s1 = s0 \/ OpenIn(s1) = {}
    <2>1. CASE ShouldForceRestart(s0, aged)
      <3>1. Sound(Stop(s0)) /\ Stop(s0).spawned = spawned /\ Stop(s0) \in State
        BY <1>1, <1>5, StopSound DEF SameContext, SameChildren, Invariant, Sound
      <3>2. Serves(Stop(s0), s0) /\ OpenIn(Stop(s0)) = {} /\ Keeps(Stop(s0), s0)
        BY <1>5, StopAll DEF Invariant
      <3>3. Sound(s1) /\ (s1.proc # NoProc \/ s1.spawned = spawned)
        BY <1>2, <2>1, <3>1, StartSound
      <3>4. Serves(s1, Stop(s0)) /\ Keeps(s1, Stop(s0))
        BY <1>2, <2>1, <3>1, StartServes
      <3> HIDE DEF s1
      <3> QED
        BY <3>2, <3>3, <3>4, ServesTransitive, KeepsTransitive
    <2>2. CASE ~ShouldForceRestart(s0, aged)
      BY <1>1, <1>5, <2>2, SameServes DEF Invariant, Keeps
    <2> QED
      BY <2>1, <2>2
  <1> HIDE DEF s1
  <1>7. /\ Sound(s2) /\ s2 \in State /\ Serves(s2, s1) /\ Keeps(s2, s1)
        /\ s2.proc # NoProc \/ s2.spawnFailed = TRUE
        /\ OpenIn(s2) = {} \/ (s2 = s1 /\ s1 = s0 /\ s2.proc # NoProc)
    <2>1. Sound(s2) /\ (s2.proc # NoProc \/ s2.spawnFailed = TRUE)
      BY <1>2, <1>6, StartSound
    <2>2. s1 \in State /\ s2 \in State
      BY <1>6, <2>1 DEF Sound
    <2>3. Serves(s2, s1) /\ Keeps(s2, s1) /\ (IsAlive(s1) => s2 = s1)
      BY <1>2, <2>2, StartServes
    <2>4. OpenIn(s2) \subseteq OpenIn(s1)
      BY <2>3 DEF Serves, OpenIn, Taken, Rejected
    <2>5. CASE s1 = s0 /\ IsAlive(s1)
      BY <2>1, <2>2, <2>3, <2>5 DEF IsAlive
    <2>6. CASE s1 = s0 /\ ~IsAlive(s1)
      <3>1. s1.proc = NoProc
        BY <1>6, <2>6 DEF Sound, IsAlive, Signalled
      <3>2. OpenIn(s1) = {}
        BY <1>5, <2>6, <3>1, NobodyWaits
      <3> QED
        BY <2>1, <2>2, <2>3, <2>4, <3>2
    <2> QED
      BY <1>6, <2>1, <2>2, <2>3, <2>4, <2>5, <2>6
  <1>8. Serves(s2, s)
    <2>1. Serves(s0, s)
      BY <1>5, SameServes
    <2> QED
      BY <1>6, <1>7, <2>1, ServesTransitive
  <1> HIDE DEF s2
  <1>9. s2.requestId = s.requestId
    BY <1>8 DEF Serves
  <1>l. Keeps(s2, s)
    BY <1>6, <1>7, <1>k, KeepsTransitive
  <1>10. /\ id \in Ids /\ s3.requestId = id /\ s3.outcome[id] = "open"
         /\ \A i \in Ids : i # id => s3.outcome[i] = s2.outcome[i]
         /\ Sound(s3) /\ s3.proc = s2.proc /\ Keeps(s3, s2)
    <2>1. pr \in Priorities /\ s2.requestId < MaxId
      BY <1>1, <1>9, PikeWorkerAssumption DEF Priorities
    <2>2. Sound(s3) /\ s3.proc = s2.proc
      BY <1>7, <2>1, PushSound
    <2>3. LET n == s2.requestId + 1
          IN  /\ n \in Ids /\ s3.requestId = n /\ s3.outcome[n] = "open"
              /\ \A i \in Ids : i # n => s3.outcome[i] = s2.outcome[i]
              /\ Keeps(s3, s2)
      BY <1>7, <2>1, PushServes
    <2> HIDE DEF s3
    <2> QED
      BY <1>9, <2>2, <2>3
  <1> HIDE DEF s3
  <1>11. /\ Serves(s4, s3) /\ Keeps(s4, s3)
         /\ s3.proc # NoProc => Loses(s4, s3) = {}
    BY <1>10, DrainServes DEF ServiceInv, IInv
  <1>i. id = s.requestId + 1
    OBVIOUS
  <1> HIDE DEF s4, id
  <1>12. s.requestId \in Nat /\ id = requestId + 1 /\ requestId' = id /\ s.requestId = requestId
    BY <1>1, <1>3, <1>4, <1>10, <1>11, <1>i DEF State, Serves
  <1>13. s.outcome[id] = "none"
    BY <1>3, <1>10, <1>12 DEF Numbered
  <1>14. ASSUME NEW i \in Ids, i # id
         PROVE  outcome'[i] = outcome[i] \/ (outcome[i] = "open" /\ outcome'[i] \in Taken)
    <2>1. s3.outcome[i] = s2.outcome[i]
      BY <1>10, <1>14
    <2>2. s4.outcome[i] = s3.outcome[i] \/ (s3.outcome[i] = "open" /\ s4.outcome[i] \in Taken)
      BY <1>11 DEF Serves
    <2>3. s2.outcome[i] = s.outcome[i] \/ (s.outcome[i] = "open" /\ s2.outcome[i] \in Taken)
      BY <1>8 DEF Serves
    <2> QED
      BY <1>1, <1>4, <2>1, <2>2, <2>3 DEF Taken, Rejected
  <1>15. outcome'[id] \in {"open"} \cup Taken
    BY <1>4, <1>10, <1>11 DEF Serves
  <1>m. Keeps(s4, s)
    BY <1>10, <1>11, <1>l, KeepsTransitive
  <1>o. Orderly(Here)'
    BY <1>1, <1>m, <1>s, BecomeOrderly
  <1>16. Numbered(Here)'
    <2> SUFFICES ASSUME NEW i \in Ids
                 PROVE  outcome'[i] = "none" <=> i > requestId'
      BY <1>h DEF Numbered
    <2>1. i \in Int /\ (outcome[i] = "none" <=> i > requestId)
      BY <1>1, <1>3, PikeWorkerAssumption DEF Numbered, Ids
    <2>2. CASE i = id
      BY <1>12, <1>15, <2>1, <2>2 DEF Taken, Rejected
    <2>3. CASE i # id
      BY <1>12, <1>14, <2>1, <2>3 DEF Taken, Rejected
    <2> QED
      BY <2>2, <2>3
  <1>17. ASSUME NEW i \in Ids
         PROVE  \/ i > requestId' /\ outcome'[i] = "none"
                \/ i <= requestId /\ outcome[i] \in Service!Settled /\ outcome'[i] = outcome[i]
                \/ /\ i <= requestId' /\ outcome[i] \in {"none", "open"}
                   /\ outcome'[i] \in {"open", "cancelled", "failed", "timeout"}
    <2>1. /\ i \in Int /\ outcome[i] \in Outcomes
          /\ outcome[i] = "none" <=> i > requestId
      BY <1>1, <1>3, PikeWorkerAssumption DEF Numbered, Ids, State
    <2>2. CASE i = id
      BY <1>1, <1>12, <1>13, <1>15, <2>1, <2>2 DEF Taken, Rejected
    <2>3. CASE i # id
      BY <1>12, <1>14, <2>1, <2>3 DEF Taken, Rejected, Outcomes, Service!Settled
    <2> QED
      BY <2>2, <2>3
  <1>18. CASE OpenIn(s2) = {}
    <2>1. ASSUME NEW i \in Ids, outcome[i] = "open", outcome'[i] = "open"
          PROVE  FALSE
      <3>1. i # id
        BY <1>1, <1>13, <2>1
      <3>2. s3.outcome[i] = "open"
        BY <1>4, <1>11, <2>1 DEF Serves, Taken, Rejected
      <3> QED
        BY <1>10, <1>18, <3>1, <3>2 DEF OpenIn
    <2> QED
      BY <1>12, <1>16, <1>17, <1>o, <2>1 DEF Service!Handle, Service!Ids, Ids, Aligned
  <1>19. CASE s2 = s1 /\ s1 = s0 /\ s2.proc # NoProc
    <2>1. Service!Lost = {}
      <3>1. ASSUME NEW i \in Ids, outcome[i] \notin Service!Settled,
                   outcome'[i] \in {"failed", "timeout"}
            PROVE  FALSE
        <4>1. s3.outcome[i] = "open"
          <5>1. CASE i = id
            BY <1>10, <5>1
          <5>2. CASE i # id
            <6>1. s3.outcome[i] = outcome[i]
              BY <1>1, <1>5, <1>10, <1>19, <5>2
            <6> QED
              BY <1>14, <3>1, <5>2, <6>1 DEF Taken, Rejected, Service!Settled
          <5> QED
            BY <5>1, <5>2
        <4>2. i \in Loses(s4, s3)
          BY <1>4, <3>1, <4>1 DEF Loses, Rejected
        <4> QED
          BY <1>10, <1>11, <1>19, <4>2
      <3> QED
        BY <3>1 DEF Service!Lost, Service!Ids, Ids
    <2> QED
      BY <1>12, <1>16, <1>17, <1>o, <2>1 DEF Service!Handle, Service!Ids, Ids, Aligned
  <1> QED
    BY <1>7, <1>18, <1>19

\* A completed write rejects nobody.
LEMMA WriteDoneServes ==
  ASSUME ServiceInv, NEW x \in writes, WriteDone(x)
  PROVE  Service!Handle /\ Aligned(Here)'
  <1> DEFINE s == Here
             W == s.writes \ {x}
             t == [s EXCEPT !.writes = W, !.sending = FALSE]
             r == DrainQueue(t)
  <1>1. Become(r) /\ x \in s.writes
    BY DEF WriteDone, Here
  <1>2. Invariant(s) /\ Sound(s) /\ s \in State
    BY DEF ServiceInv, IInv, Invariant, Sound
  <1>s. s = Here
    OBVIOUS
  <1> HIDE DEF s
  <1>3. Sound(t) /\ t.proc = s.proc
    BY <1>1, <1>2, WriteEndSound
  <1>4. /\ t.outcome = s.outcome /\ t.requestId = s.requestId /\ t.priority = s.priority
        /\ t.pipe = s.pipe /\ t.queued = s.queued /\ t.timers = s.timers
    BY <1>2 DEF State
  <1> HIDE DEF t
  <1>5. Serves(t, s) /\ OpenIn(t) = OpenIn(s) /\ Keeps(t, s)
    BY <1>4, SameServes, SameKeeps DEF Tidy
  <1>6. Serves(r, t) /\ Keeps(r, t) /\ (t.proc # NoProc => Loses(r, t) = {})
    BY <1>3, DrainServes DEF ServiceInv, IInv
  <1> HIDE DEF r
  <1>7. Serves(r, s) /\ Keeps(r, s)
    BY <1>5, <1>6, ServesTransitive, KeepsTransitive
  <1>8. OneOrAll(r, s)
    <2>1. CASE s.proc = NoProc
      BY <1>2, <2>1, NobodyWaits DEF OneOrAll
    <2>2. CASE s.proc # NoProc
      BY <1>3, <1>4, <1>6, <2>2 DEF OneOrAll, Loses
    <2> QED
      BY <2>1, <2>2
  <1> QED
    BY <1>1, <1>7, <1>8, <1>s, HandleStep

\* A failed write rejects its own request and no other.
LEMMA WriteFailServes ==
  ASSUME ServiceInv, NEW x \in writes, WriteFail(x)
  PROVE  Service!Handle /\ Aligned(Here)'
  <1> DEFINE s == Here
             u == Settle(s, {x.id}, "failed")
             W == u.writes \ {x}
             t == [u EXCEPT !.writes = W, !.sending = FALSE]
             r == DrainQueue(t)
  <1>1. Become(r) /\ x \in s.writes
    BY DEF WriteFail, Here
  <1>2. Invariant(s) /\ Sound(s) /\ s \in State
    BY DEF ServiceInv, IInv, Invariant, Sound
  <1>s. s = Here
    OBVIOUS
  <1> HIDE DEF s
  <1>3. x.id \in Ids /\ x.id \notin s.queued
    <2>1. x \in [id : Ids, proc : Procs]
      BY <1>1, <1>2 DEF State
    <2>2. x.id \in Asked(s)
      BY <1>1, <2>1 DEF Asked
    <2> QED
      BY <1>2, <2>1, <2>2 DEF Sound
  <1>4. Sound(u) /\ u.proc = s.proc /\ u.writes = s.writes
    BY <1>2, <1>3, SettleAskedSound DEF Outcomes
  <1>5. /\ Serves(u, s) /\ Loses(u, s) \subseteq {x.id}
        /\ u.priority = s.priority /\ u.pipe = s.pipe /\ u.queued = s.queued
    BY <1>2, SettleServes, SettleLemma DEF Taken, Rejected, Outcomes
  <1> HIDE DEF u
  <1>6. Sound(t) /\ t.proc = u.proc
    BY <1>1, <1>4, WriteEndSound
  <1>7. /\ t.outcome = u.outcome /\ t.requestId = u.requestId /\ t.priority = u.priority
        /\ t.pipe = u.pipe /\ t.queued = u.queued
    BY <1>4 DEF Sound, State
  <1> HIDE DEF t
  <1>k. Keeps(t, s)
    BY <1>5, <1>7 DEF Keeps, Ordered, Clean, PipedIn, WriteFail
  <1>8. Serves(t, s)
    BY <1>5, <1>7 DEF Serves
  <1>9. Serves(r, t) /\ Keeps(r, t) /\ (t.proc # NoProc => Loses(r, t) = {})
    BY <1>6, DrainServes DEF ServiceInv, IInv
  <1> HIDE DEF r
  <1>10. Serves(r, s) /\ Keeps(r, s)
    BY <1>8, <1>9, <1>k, ServesTransitive, KeepsTransitive
  <1>11. OneOrAll(r, s)
    <2>1. CASE s.proc = NoProc
      BY <1>2, <2>1, NobodyWaits DEF OneOrAll
    <2>2. CASE s.proc # NoProc
      <3>1. Loses(r, t) = {}
        BY <1>4, <1>6, <1>9, <2>2
      <3>2. Loses(r, s) \subseteq {x.id}
        <4> SUFFICES ASSUME NEW i \in Loses(r, s)
                     PROVE  i = x.id
          OBVIOUS
        <4>1. i \in Ids /\ s.outcome[i] = "open" /\ r.outcome[i] \in Rejected
          BY DEF Loses
        <4>2. t.outcome[i] # "open"
          BY <3>1, <4>1 DEF Loses
        <4>3. r.outcome[i] = t.outcome[i]
          BY <1>9, <4>1, <4>2 DEF Serves
        <4> QED
          BY <1>5, <1>7, <4>1, <4>3 DEF Loses
      <3> QED
        BY <3>2 DEF OneOrAll
    <2> QED
      BY <2>1, <2>2
  <1> QED
    BY <1>1, <1>10, <1>11, <1>s, HandleStep

\* A response line answers its request, or nobody.
LEMMA DeliverServes ==
  ASSUME ServiceInv, NEW p \in Procs, Deliver(p)
  PROVE  /\ Service!Next \/ UNCHANGED Service!svars
         /\ Aligned(Here)'
  <1> DEFINE s == Here
             i == Head(s.pipe[p])
             u == [s EXCEPT !.pipe[p] = Tail(@), !.consecutiveCrashes = 0]
             v == Settle(u, {i}, "answered")
             r == [v EXCEPT !.pending = @ \ {i}, !.timers = @ \ {i}]
  <1>1. /\ Become(IF i \notin s.pending THEN u ELSE r)
        /\ s.outcome = outcome /\ s.requestId = requestId
    BY DEF Deliver, Here
  <1>2. s \in State /\ Numbered(s) /\ s.pipe[p] # <<>>
    BY DEF ServiceInv, Aligned, IInv, Invariant, Sound, Deliver, Here
  <1>s. s = Here
    OBVIOUS
  <1>h. Here'.outcome = outcome' /\ Here'.requestId = requestId'
    BY DEF Here
  <1> HIDE DEF s, i
  <1>3. /\ u.outcome = s.outcome /\ u.requestId = s.requestId /\ u.pending = s.pending
        /\ u.queued = s.queued /\ u.timers = s.timers
    BY <1>2 DEF State
  <1>k. Keeps(u, s)
    BY <1>2, PopKeeps
  <1> HIDE DEF u
  <1>4. CASE i \notin s.pending
    BY <1>1, <1>3, <1>4, <1>k, <1>s, QuietStep
  <1>5. CASE i \in s.pending
    <2>1. /\ r.outcome = v.outcome /\ r.requestId = v.requestId /\ r.priority = v.priority
          /\ r.pipe = v.pipe /\ r.queued = v.queued
      OBVIOUS
    <2>2. /\ v.outcome = [j \in Ids |-> IF j \in {i} /\ u.outcome[j] = "open"
                                        THEN "answered" ELSE u.outcome[j]]
          /\ v.requestId = u.requestId /\ v.priority = u.priority /\ v.pipe = u.pipe
          /\ v.queued = u.queued
      BY DEF Settle
    <2>t. r.timers = u.timers \ {i}
      BY <1>2 DEF Settle, State, u
    <2>3. i \in Ids /\ outcome \in [Ids -> Outcomes]
      BY <1>1, <1>2, <1>5 DEF State
    <2> HIDE DEF v, r
    <2>4. outcome' = r.outcome /\ requestId' = r.requestId
      BY <1>1, <1>5 DEF Become
    <2>5. requestId' = requestId
      BY <1>1, <1>3, <2>1, <2>2, <2>4
    <2>k. Keeps(r, u)
      BY <2>1, <2>2, <2>t, SameKeeps DEF Tidy, OpenIn
    <2>o. Orderly(Here)'
      <3>1. Keeps(r, s)
        BY <1>k, <2>k, KeepsTransitive
      <3> QED
        BY <1>1, <1>5, <1>s, <3>1, BecomeOrderly
    <2>6. CASE outcome[i] = "open"
      <3>1. outcome' = [outcome EXCEPT ![i] = "answered"]
        BY <1>1, <1>3, <2>1, <2>2, <2>3, <2>4, <2>6
      <3>2. Service!Answer(i)
        BY <2>5, <2>6, <3>1 DEF Service!Answer
      <3>3. Numbered(Here)'
        <4> SUFFICES ASSUME NEW j \in Ids
                     PROVE  outcome'[j] = "none" <=> j > requestId'
          BY <1>h DEF Numbered
        <4>1. outcome'[j] = "none" <=> outcome[j] = "none"
          BY <2>3, <2>6, <3>1
        <4> QED
          BY <1>1, <1>2, <2>5, <4>1 DEF Numbered
      <3> QED
        BY <2>3, <2>o, <3>2, <3>3 DEF Service!Next, Service!Ids, Ids, Aligned
    <2>7. CASE outcome[i] # "open"
      <3>1. outcome' = outcome
        BY <1>1, <1>3, <2>1, <2>2, <2>3, <2>4, <2>7
      <3>2. Numbered(Here)'
        BY <1>1, <1>2, <1>h, <2>5, <3>1 DEF Numbered
      <3> QED
        BY <2>5, <2>o, <3>1, <3>2 DEF Service!svars, Aligned
    <2> QED
      BY <2>6, <2>7
  <1> QED
    BY <1>4, <1>5

\* A desynced stream loses everybody.
LEMMA DeliverJunkServes ==
  ASSUME ServiceInv, NEW p \in Procs, NEW how \in StartResults, DeliverJunk(p, how)
  PROVE  Service!Handle /\ Aligned(Here)'
  <1> DEFINE s == Here
             c == s.consecutiveCrashes
             u == [s EXCEPT !.pipe[p] = Tail(@)]
             t == RejectAllPending(u)
             w == Stop(t)
             r == Start(w, how)
  <1>1. Become(r) /\ s.pipe[p] # <<>>
    BY DEF DeliverJunk, Here
  <1>2. Sound(s) /\ s \in State
    BY DEF ServiceInv, IInv, Invariant, Sound
  <1>s. s = Here
    OBVIOUS
  <1> HIDE DEF s
  <1>3. u = [s EXCEPT !.pipe[p] = Tail(@), !.consecutiveCrashes = c] /\ c \in Nat
    BY <1>2 DEF State
  <1> HIDE DEF u, c
  <1>4. u \in State /\ SameRequests(u, s) /\ Keeps(u, s)
    BY <1>1, <1>2, <1>3, PopFacts, PopKeeps
  <1>5. Serves(u, s) /\ OpenIn(u) = OpenIn(s) /\ OpenIn(u) \subseteq u.pending
    BY <1>2, <1>4, SameServes DEF SameRequests, Sound
  <1>6. t \in State /\ OpenIn(t) = {} /\ Serves(t, u) /\ Keeps(t, u)
    BY <1>4, <1>5, RejectAllPendingLemma, RejectAllPendingServes
  <1> HIDE DEF t
  <1>7. w \in State /\ Serves(w, t) /\ Keeps(w, t)
    BY <1>6, StopLemma, StopServes
  <1> HIDE DEF w
  <1>8. how \in {"ok", "permanent", "transient"}
    BY DEF StartResults
  <1>9. Serves(r, w) /\ Keeps(r, w)
    BY <1>7, <1>8, StartServes
  <1> HIDE DEF r
  <1>10. Serves(t, s) /\ Serves(w, s) /\ OpenIn(w) = {}
    BY <1>5, <1>6, <1>7, ServesTransitive
  <1>k. Keeps(r, s)
    BY <1>4, <1>6, <1>7, <1>9, KeepsTransitive
  <1>11. Serves(r, s) /\ OpenIn(r) = {}
    BY <1>9, <1>10, ServesTransitive
  <1> QED
    BY <1>1, <1>11, <1>k, <1>s, AllLost

\* A timeout rejects its request, and everybody if it has to kill the process.
LEMMA TimeoutServes ==
  ASSUME ServiceInv, NEW i \in Ids, Timeout(i)
  PROVE  Service!Handle /\ Aligned(Here)'
  <1> DEFINE s == Here
             P == s.pending \ {i}
             Q == s.queued \ {i}
             T == s.timers \ {i}
             u == [s EXCEPT !.pending = P, !.queued = Q, !.timers = T]
             k == [u EXCEPT !.sigkill = @ \cup {u.proc}]
             a == AbandonWorker(k)
             t == IF IsAlive(u) THEN a ELSE u
             r == Settle(t, {i}, "timeout")
  <1>1. Become(r)
    BY DEF Timeout, Here
  <1>2. Sound(s) /\ s \in State
    BY DEF ServiceInv, IInv, Invariant, Sound
  <1>s. s = Here
    OBVIOUS
  <1> HIDE DEF s
  <1>3. P \in SUBSET Ids /\ Q \in SUBSET Ids /\ T \in SUBSET Ids
    BY <1>2 DEF State
  <1>p. P = s.pending \ {i}
    OBVIOUS
  <1> HIDE DEF P, Q, T
  <1>4. u \in State
    BY <1>2, <1>3 DEF State
  <1>5. /\ u.outcome = s.outcome /\ u.requestId = s.requestId /\ u.pending = P
        /\ u.timers = T /\ u.queued = Q /\ u.pipe = s.pipe /\ u.priority = s.priority
    BY <1>2 DEF State
  <1> HIDE DEF u
  <1>6. Serves(u, s) /\ OpenIn(u) = OpenIn(s) /\ Keeps(u, s)
    BY <1>5, SameServes, SameKeeps DEF Tidy, Q, T
  <1>g. i \notin u.timers
    BY <1>5 DEF T
  <1>7. CASE IsAlive(u)
    <2> DEFINE K == u.sigkill \cup {u.proc}
    <2>1. k = [u EXCEPT !.sigkill = K] /\ K \in SUBSET Procs
      BY <1>4, <1>7 DEF State, IsAlive
    <2> HIDE DEF k, K
    <2>2. k \in State
      BY <1>4, <2>1 DEF State
    <2>3. /\ k.outcome = u.outcome /\ k.requestId = u.requestId /\ k.pending = u.pending
          /\ k.timers = u.timers /\ k.queued = u.queued /\ k.pipe = u.pipe
          /\ k.priority = u.priority
      BY <1>4, <2>1 DEF State
    <2>4. /\ a \in State /\ OpenIn(a) = OpenIn(k) \ (k.pending \cup k.queued) /\ Serves(a, k)
          /\ Keeps(a, k) /\ a.timers \subseteq k.timers
      BY <2>2, AbandonWorkerLemma, AbandonWorkerServes
    <2> HIDE DEF a
    <2>5. t = a
      BY <1>7
    <2> HIDE DEF t
    <2>6. /\ OpenIn(r) = OpenIn(t) \ {i} /\ Serves(r, t) /\ r.priority = t.priority
          /\ r.pipe = t.pipe /\ r.queued = t.queued /\ r.timers = t.timers
      BY <2>4, <2>5, SettleLemma, SettleServes DEF Outcomes, Taken, Rejected
    <2> HIDE DEF r
    <2>7. Serves(k, u) /\ OpenIn(k) = OpenIn(u) /\ Keeps(k, u)
      BY <2>3, SameServes, SameKeeps DEF Tidy
    <2>8. Serves(k, s)
      BY <1>6, <2>7, ServesTransitive
    <2>9. Serves(t, s)
      BY <2>4, <2>5, <2>8, ServesTransitive
    <2>10. Serves(r, s)
      BY <2>6, <2>9, ServesTransitive
    <2>11. OpenIn(r) = {}
      BY <1>2, <1>5, <1>6, <1>p, <2>3, <2>4, <2>5, <2>6, <2>7 DEF Sound
    <2>12. Keeps(r, t)
      BY <1>g, <2>3, <2>4, <2>5, <2>6, SameKeeps DEF Tidy
    <2>13. Keeps(k, s)
      BY <1>6, <2>7, KeepsTransitive
    <2>14. Keeps(t, s)
      BY <2>4, <2>5, <2>13, KeepsTransitive
    <2>15. Keeps(r, s)
      BY <2>12, <2>14, KeepsTransitive
    <2> QED
      BY <1>1, <1>s, <2>10, <2>11, <2>15, AllLost
  <1>8. CASE ~IsAlive(u)
    <2>1. t = u
      BY <1>8
    <2> HIDE DEF t
    <2>2. /\ Serves(r, u) /\ Loses(r, u) \subseteq {i} /\ OpenIn(r) = OpenIn(u) \ {i}
          /\ r.priority = u.priority /\ r.pipe = u.pipe /\ r.queued = u.queued
          /\ r.timers = u.timers
      BY <1>4, <2>1, SettleLemma, SettleServes DEF Taken, Rejected, Outcomes
    <2> HIDE DEF r
    <2>5. Keeps(r, u)
      BY <1>g, <2>2, SameKeeps DEF Tidy
    <2>3. Serves(r, s) /\ Keeps(r, s)
      BY <1>6, <2>2, <2>5, ServesTransitive, KeepsTransitive
    <2>4. OneOrAll(r, s)
      BY <1>5, <2>2 DEF OneOrAll, Loses
    <2> QED
      BY <1>1, <1>s, <2>3, <2>4, HandleStep
  <1> QED
    BY <1>7, <1>8

\* An idle stop finds nobody waiting; a stop from outside loses everybody.
LEMMA IdleFireServes ==
  ASSUME ServiceInv, IdleFire
  PROVE  Service!Handle /\ Aligned(Here)'
  <1> DEFINE s == Here
             u == [s EXCEPT !.idleTimer = FALSE]
  <1>1. Become(IF IsAlive(u) /\ s.pending = {} /\ s.queued = {} THEN Stop(u) ELSE u)
    BY DEF IdleFire, Here
  <1>2. Invariant(s) /\ Sound(s) /\ s \in State
    BY DEF ServiceInv, IInv, Invariant, Sound
  <1>s. s = Here
    OBVIOUS
  <1> HIDE DEF s
  <1>3. /\ u \in State /\ SameRequests(u, s) /\ u.grace = s.grace
        /\ u.pipe = s.pipe /\ u.os = s.os
    BY <1>2 DEF State, SameRequests
  <1>u. u = [s EXCEPT !.idleTimer = FALSE]
    OBVIOUS
  <1> HIDE DEF u
  <1>4. Sound(u)
    BY <1>2, <1>3, FrameInv DEF Runs, Invariant
  <1>p. u.priority = s.priority
    BY <1>u, <1>2 DEF State
  <1>5. Serves(u, s) /\ OneOrAll(u, s) /\ Keeps(u, s)
    BY <1>3, <1>p, SameServes, SameKeeps DEF SameRequests, OneOrAll, Tidy
  <1>6. Serves(Stop(u), u) /\ OpenIn(Stop(u)) = {} /\ Keeps(Stop(u), u)
    BY <1>4, StopAll
  <1>7. Serves(Stop(u), s) /\ Keeps(Stop(u), s)
    BY <1>5, <1>6, ServesTransitive, KeepsTransitive
  <1>8. CASE IsAlive(u) /\ s.pending = {} /\ s.queued = {}
    BY <1>1, <1>6, <1>7, <1>8, <1>s, AllLost
  <1>9. CASE ~(IsAlive(u) /\ s.pending = {} /\ s.queued = {})
    BY <1>1, <1>5, <1>9, <1>s, HandleStep
  <1> QED
    BY <1>8, <1>9

LEMMA StopWorkerServes ==
  ASSUME ServiceInv, StopWorker
  PROVE  Service!Handle /\ Aligned(Here)'
  <1>1. Become(Stop(Here)) /\ Sound(Here)
    BY DEF StopWorker, ServiceInv, IInv, Invariant
  <1> QED
    BY <1>1, StopAll, AllLost

\* The exit of the current child loses everybody; any other exit, nobody.
LEMMA ExitServes ==
  ASSUME ServiceInv, NEW p \in Procs, NEW code \in ExitCodes, NEW k \in 0..Len(pipe[p]),
         Exit(p, code, k)
  PROVE  Service!Handle /\ Aligned(Here)'
  <1> DEFINE s == Here
             Q == SubSeq(s.pipe[p], 1, k)
             O == [s.os EXCEPT ![p] = "gone"]
             P == [s.pipe EXCEPT ![p] = Q]
             u == [s EXCEPT !.idleTimer = FALSE, !.os = O, !.pipe = P]
             t == IF code = "crash" THEN RecordCrash(u)
                  ELSE [u EXCEPT !.pikeUnavailable = @ \/ code = "notfound"]
             a == AbandonWorker(t)
  <1>1. /\ Become(IF p = s.proc THEN a ELSE u)
        /\ k \in 0..Len(s.pipe[p])
    BY DEF Exit, Here
  <1>2. Sound(s) /\ s \in State
    BY DEF ServiceInv, IInv, Invariant, Sound
  <1>s. s = Here
    OBVIOUS
  <1> HIDE DEF s
  <1>3. Q \in Seq(Ids \cup {Junk}) /\ Thinner(Q, s.pipe[p])
    <2>1. s.pipe[p] \in Seq(Ids \cup {Junk})
      BY <1>2 DEF State
    <2> QED
      BY <1>1, <2>1, PrefixPiped, PrefixThinner
  <1> HIDE DEF Q
  <1>4. O \in [Procs -> Statuses] /\ P \in [Procs -> Seq(Ids \cup {Junk})]
    BY <1>2, <1>3 DEF State, Statuses
  <1>p. P[p] = Q /\ \A o \in Procs : o # p => P[o] = s.pipe[o]
    BY <1>2 DEF State
  <1>t. \A o \in Procs : P[o] = s.pipe[o] \/ Thinner(P[o], s.pipe[o])
    BY <1>3, <1>p
  <1> HIDE DEF O, P
  <1>5. /\ u \in State /\ u.outcome = s.outcome /\ u.requestId = s.requestId
        /\ u.pending = s.pending /\ u.priority = s.priority /\ u.queued = s.queued
        /\ u.timers = s.timers /\ u.pipe = P
    BY <1>2, <1>4 DEF State
  <1> HIDE DEF u
  <1>k. Keeps(u, s)
    BY <1>5, <1>t, ThinKeeps DEF Tidy, OpenIn
  <1>6. CASE p = s.proc
    <2>1. /\ t \in State /\ t.outcome = s.outcome /\ t.requestId = s.requestId
          /\ t.pending = s.pending /\ t.priority = u.priority /\ t.queued = u.queued
          /\ t.timers = u.timers /\ t.pipe = u.pipe
      <3>1. CASE code = "crash"
        <4> DEFINE n == u.consecutiveCrashes + 1
                   b == u.backoff \/ u.consecutiveCrashes + 1 >= CrashThreshold
        <4>1. n \in Nat /\ b \in BOOLEAN
          BY <1>5 DEF State
        <4>2. t = [u EXCEPT !.consecutiveCrashes = n, !.backoff = b]
          BY <3>1, Zenon DEF RecordCrash
        <4> HIDE DEF n, b, t
        <4> QED
          BY <1>5, <4>1, <4>2 DEF State
      <3>2. CASE code # "crash"
        BY <1>5, <3>2 DEF State
      <3> QED
        BY <3>1, <3>2
    <2> HIDE DEF t
    <2>3. Keeps(t, u)
      BY <1>5, <2>1, SameKeeps DEF Tidy, OpenIn
    <2>4. Keeps(t, s)
      BY <1>k, <2>3, KeepsTransitive
    <2>2. Serves(a, s) /\ OpenIn(a) = {} /\ Keeps(a, s)
      BY <1>2, <2>1, <2>4, AbandonAll
    <2> HIDE DEF a
    <2> QED
      BY <1>1, <1>6, <1>s, <2>2, AllLost
  <1>7. CASE p # s.proc
    <2>1. Serves(u, s) /\ OneOrAll(u, s)
      BY <1>5, SameServes DEF OneOrAll
    <2> QED
      BY <1>1, <1>7, <1>k, <1>s, <2>1, HandleStep
  <1> QED
    BY <1>6, <1>7

\* A child that never ran loses everybody, if it is the current one.
LEMMA SpawnErrorServes ==
  ASSUME ServiceInv, NEW p \in Procs, NEW permanent \in BOOLEAN, SpawnError(p, permanent)
  PROVE  Service!Handle /\ Aligned(Here)'
  <1> DEFINE s == Here
             O == [s.os EXCEPT ![p] = "gone"]
             P == [s.pipe EXCEPT ![p] = <<>>]
             u == [s EXCEPT !.os = O, !.pipe = P]
             f == FailSpawn(u, permanent)
  <1>1. Become(IF p = s.proc THEN f ELSE u)
    BY DEF SpawnError, Here
  <1>2. Sound(s) /\ s \in State
    BY DEF ServiceInv, IInv, Invariant, Sound
  <1>s. s = Here
    OBVIOUS
  <1> HIDE DEF s
  <1>3. <<>> \in Seq(Ids \cup {Junk})
    OBVIOUS
  <1>4. O \in [Procs -> Statuses] /\ P \in [Procs -> Seq(Ids \cup {Junk})]
    BY <1>2, <1>3 DEF State, Statuses
  <1>t. \A o \in Procs : P[o] = s.pipe[o] \/ Thinner(P[o], s.pipe[o])
    <2>1. P[p] = <<>> /\ \A o \in Procs : o # p => P[o] = s.pipe[o]
      BY <1>2 DEF State
    <2> QED
      BY <2>1 DEF Thinner
  <1> HIDE DEF O, P
  <1>5. /\ u \in State /\ u.outcome = s.outcome /\ u.requestId = s.requestId
        /\ u.pending = s.pending /\ u.priority = s.priority /\ u.queued = s.queued
        /\ u.timers = s.timers /\ u.pipe = P
    BY <1>2, <1>4 DEF State
  <1> HIDE DEF u
  <1>k. Keeps(u, s)
    BY <1>5, <1>t, ThinKeeps DEF Tidy, OpenIn
  <1>6. Serves(u, s) /\ OpenIn(u) = OpenIn(s) /\ OneOrAll(u, s)
    BY <1>5, SameServes DEF OneOrAll
  <1>7. Serves(f, u) /\ Keeps(f, u) /\ OpenIn(f) = OpenIn(u) \ (u.pending \cup u.queued)
    BY <1>5, FailSpawnLemma, FailSpawnServes
  <1> HIDE DEF f
  <1>8. Serves(f, s) /\ OpenIn(f) = {} /\ Keeps(f, s)
    BY <1>2, <1>5, <1>6, <1>7, <1>k, ServesTransitive, KeepsTransitive DEF Sound
  <1>9. CASE p = s.proc
    BY <1>1, <1>8, <1>9, <1>s, AllLost
  <1>10. CASE p # s.proc
    BY <1>1, <1>6, <1>10, <1>k, <1>s, HandleStep
  <1> QED
    BY <1>9, <1>10

-------------------------------------------------------------------------------
(* Handlers that touch no promise and no timer. *)

\* Of the fields that matter here such a handler touches at most the pipes.
LEMMA UntouchedServes ==
  ASSUME ServiceInv, NEW r, Become(r), r.outcome = outcome, r.requestId = requestId,
         r.priority = priority, r.queued = queued, r.timers = timers, r.pipe = pipe
  PROVE  UNCHANGED Service!svars /\ Aligned(Here)'
  <1>1. Keeps(r, Here)
    BY SameKeeps DEF Tidy, OpenIn, Here
  <1> QED
    BY <1>1, QuietStep

LEMMA GraceTimerServes ==
  ASSUME ServiceInv, NEW p \in Procs, GraceTimer(p)
  PROVE  UNCHANGED Service!svars /\ Aligned(Here)'
  <1> DEFINE s == Here
             G == s.grace \ {p}
             K == IF p \in s.sigterm \cup s.sigkill THEN s.sigkill ELSE s.sigkill \cup {p}
             r == [s EXCEPT !.grace = G, !.sigkill = K]
  <1>1. Become(r)
    BY DEF GraceTimer, Here
  <1>2. /\ s \in State /\ s.outcome = outcome /\ s.requestId = requestId /\ s.pipe = pipe
        /\ s.priority = priority /\ s.queued = queued /\ s.timers = timers
    BY DEF ServiceInv, IInv, Invariant, Sound, Here
  <1> HIDE DEF s, G, K
  <1>3. /\ r.outcome = s.outcome /\ r.requestId = s.requestId /\ r.pipe = s.pipe
        /\ r.priority = s.priority /\ r.queued = s.queued /\ r.timers = s.timers
    BY <1>2 DEF State
  <1> HIDE DEF r
  <1> QED
    BY <1>1, <1>2, <1>3, UntouchedServes

LEMMA ReadyServes ==
  ASSUME ServiceInv, NEW p \in Procs, Ready(p)
  PROVE  UNCHANGED Service!svars /\ Aligned(Here)'
  <1> DEFINE s == Here
             O == [s.os EXCEPT ![p] = "alive"]
             r == [s EXCEPT !.os = O]
  <1>1. Become(r)
    BY DEF Ready, Here
  <1>2. /\ s \in State /\ s.outcome = outcome /\ s.requestId = requestId /\ s.pipe = pipe
        /\ s.priority = priority /\ s.queued = queued /\ s.timers = timers
    BY DEF ServiceInv, IInv, Invariant, Sound, Here
  <1> HIDE DEF s, O
  <1>3. /\ r.outcome = s.outcome /\ r.requestId = s.requestId /\ r.pipe = s.pipe
        /\ r.priority = s.priority /\ r.queued = s.queued /\ r.timers = s.timers
    BY <1>2 DEF State
  <1> HIDE DEF r
  <1> QED
    BY <1>1, <1>2, <1>3, UntouchedServes

LEMMA BackoffExpiresServes ==
  ASSUME ServiceInv, BackoffExpires
  PROVE  UNCHANGED Service!svars /\ Aligned(Here)'
  <1> DEFINE r == [Here EXCEPT !.backoff = FALSE]
  <1>1. Become(r)
    BY DEF BackoffExpires
  <1>2. /\ r.outcome = outcome /\ r.requestId = requestId /\ r.pipe = pipe
        /\ r.priority = priority /\ r.queued = queued /\ r.timers = timers
    BY DEF Here
  <1> HIDE DEF r
  <1> QED
    BY <1>1, <1>2, UntouchedServes

\* Garbage in front of a pipe changes the order of nothing behind it.
LEMMA GarbleServes ==
  ASSUME ServiceInv, NEW p \in Procs, Garble(p)
  PROVE  UNCHANGED Service!svars /\ Aligned(Here)'
  <1> DEFINE s == Here
             S == Ids \cup {Junk}
             q == s.pipe[p]
             c == <<Junk>> \o q
             P == [s.pipe EXCEPT ![p] = c]
             r == [s EXCEPT !.pipe = P]
  <1>1. Become(r) /\ "junk" \in Faults
    BY DEF Garble
  <1>2. s \in State /\ s.outcome = outcome /\ s.requestId = requestId
    BY DEF ServiceInv, IInv, Invariant, Sound, Here
  <1>s. s = Here
    OBVIOUS
  <1> HIDE DEF s
  <1>3. s.pipe \in [Procs -> Seq(S)] /\ q \in Seq(S) /\ Junk \in S
    BY <1>2 DEF State
  <1>4. Junk \notin Ids
    BY PikeWorkerAssumption DEF Ids, Junk
  <1>q. q = s.pipe[p]
    OBVIOUS
  <1> HIDE DEF S, q
  <1>5. /\ <<Junk>> \in Seq(S) /\ Len(<<Junk>>) = 1 /\ <<Junk>>[1] = Junk
        /\ Len(q) \in Nat /\ DOMAIN q = 1..Len(q)
    BY <1>3
  <1>6. /\ c \in Seq(S) /\ Len(c) = 1 + Len(q)
        /\ \A k \in 1..(1 + Len(q)) : c[k] = IF k <= 1 THEN <<Junk>>[k] ELSE q[k - 1]
    BY <1>3, <1>5, ConcatProperties
  <1> HIDE DEF c
  <1>7. DOMAIN c = 1..(1 + Len(q))
    BY <1>6
  <1>8. ASSUME NEW k \in DOMAIN c, c[k] \in Ids
        PROVE  k \in Int /\ k - 1 \in DOMAIN q /\ c[k] = q[k - 1]
    <2>1. k \in 1..(1 + Len(q)) /\ k \in Int
      BY <1>5, <1>7
    <2>2. CASE k <= 1
      <3>1. k = 1
        BY <2>1, <2>2
      <3> QED
        BY <1>4, <1>5, <1>6, <1>8, <2>1, <3>1
    <2>3. CASE ~(k <= 1)
      BY <1>5, <1>6, <2>1, <2>3
    <2> QED
      BY <2>2, <2>3
  <1>9. P[p] = c /\ \A o \in Procs : o # p => P[o] = s.pipe[o]
    BY <1>3
  <1> HIDE DEF P
  <1>10. /\ r.outcome = s.outcome /\ r.requestId = s.requestId /\ r.pipe = P
         /\ r.priority = s.priority /\ r.queued = s.queued /\ r.timers = s.timers
    BY <1>2 DEF State
  <1> HIDE DEF r
  <1>11. ASSUME NEW o \in Procs, NEW i \in Ids, PipedIn(r, i, o)
         PROVE  PipedIn(s, i, o)
    <2>1. PICK k \in DOMAIN r.pipe[o] : r.pipe[o][k] = i
      BY <1>11 DEF PipedIn
    <2>2. CASE o = p
      <3>1. k \in DOMAIN c /\ c[k] \in Ids /\ c[k] = i
        BY <1>9, <1>10, <2>1, <2>2
      <3>2. k - 1 \in DOMAIN q /\ q[k - 1] = i
        BY <1>8, <3>1
      <3> QED
        BY <1>q, <2>2, <3>2 DEF PipedIn
    <2>3. CASE o # p
      BY <1>9, <1>10, <2>1, <2>3 DEF PipedIn
    <2> QED
      BY <2>2, <2>3
  <1>12. ASSUME Ordered(s), NEW o \in Procs, NEW k \in DOMAIN r.pipe[o],
                NEW l \in DOMAIN r.pipe[o], k < l,
                r.pipe[o][k] \in Ids, r.pipe[o][l] \in Ids,
                r.priority[r.pipe[o][k]] = r.priority[r.pipe[o][l]]
         PROVE  r.pipe[o][k] < r.pipe[o][l]
    <2>1. CASE o = p
      <3>1. /\ k \in DOMAIN c /\ l \in DOMAIN c /\ c[k] \in Ids /\ c[l] \in Ids
            /\ r.pipe[o][k] = c[k] /\ r.pipe[o][l] = c[l]
        BY <1>9, <1>10, <1>12, <2>1
      <3>2. /\ k \in Int /\ k - 1 \in DOMAIN q /\ c[k] = q[k - 1]
            /\ l \in Int /\ l - 1 \in DOMAIN q /\ c[l] = q[l - 1]
        BY <1>8, <3>1
      <3>3. k - 1 < l - 1
        BY <1>12, <3>2
      <3> QED
        BY <1>10, <1>12, <1>q, <2>1, <3>1, <3>2, <3>3 DEF Ordered
    <2>2. CASE o # p
      BY <1>9, <1>10, <1>12, <2>2 DEF Ordered
    <2> QED
      BY <2>1, <2>2
  <1>13. Ordered(s) => Ordered(r)
    BY <1>10, <1>11, <1>12 DEF Ordered
  <1>14. Keeps(r, s)
    BY <1>1, <1>10, <1>13 DEF Keeps, Tidy, OpenIn
  <1> QED
    BY <1>1, <1>2, <1>10, <1>14, <1>s, QuietStep

-------------------------------------------------------------------------------
(* The refinement. *)

\* Every step of the worker is a step of the service or none.
LEMMA NextServes ==
  ASSUME ServiceInv, [Next]_vars
  PROVE  ([Service!Next]_(Service!svars)) /\ Aligned(Here)'
  <1>1. ASSUME NEW pr \in UsedPriorities, NEW aged \in Ages,
               NEW how1 \in StartResults, NEW how2 \in StartResults,
               Enqueue(pr, aged, how1, how2)
        PROVE  Service!Handle /\ Aligned(Here)'
    BY <1>1, EnqueueServes DEF Ages
  <1>2. ASSUME NEW i \in Ids, Timeout(i)
        PROVE  Service!Handle /\ Aligned(Here)'
    BY <1>2, TimeoutServes
  <1>3. ASSUME NEW x \in writes, WriteDone(x) \/ WriteFail(x)
        PROVE  Service!Handle /\ Aligned(Here)'
    BY <1>3, WriteDoneServes, WriteFailServes
  <1>4. ASSUME NEW p \in Procs, Deliver(p)
        PROVE  (Service!Next \/ UNCHANGED Service!svars) /\ Aligned(Here)'
    BY <1>4, DeliverServes
  <1>5. ASSUME NEW p \in Procs, NEW how \in StartResults, DeliverJunk(p, how)
        PROVE  Service!Handle /\ Aligned(Here)'
    BY <1>5, DeliverJunkServes
  <1>6. ASSUME NEW p \in Procs, NEW code \in ExitCodes, NEW k \in 0..Len(pipe[p]),
               Exit(p, code, k)
        PROVE  Service!Handle /\ Aligned(Here)'
    BY <1>6, ExitServes
  <1>7. ASSUME NEW p \in Procs, NEW permanent \in BOOLEAN, SpawnError(p, permanent)
        PROVE  Service!Handle /\ Aligned(Here)'
    BY <1>7, SpawnErrorServes
  <1>8. ASSUME IdleFire \/ StopWorker
        PROVE  Service!Handle /\ Aligned(Here)'
    BY <1>8, IdleFireServes, StopWorkerServes
  <1>9. ASSUME \/ \E p \in Procs : GraceTimer(p) \/ Ready(p) \/ Garble(p)
               \/ BackoffExpires
        PROVE  UNCHANGED Service!svars /\ Aligned(Here)'
    BY <1>9, GraceTimerServes, ReadyServes, GarbleServes, BackoffExpiresServes
  <1>10. ASSUME (\E i \in Ids : Cancel(i)) \/ UNCHANGED vars
         PROVE  UNCHANGED Service!svars /\ Aligned(Here)'
    <2>1. Here' = Here /\ requestId' = requestId /\ outcome' = outcome
      BY <1>10 DEF Cancel, vars, Here
    <2>2. Aligned(Here)'
      BY <2>1 DEF ServiceInv
    <2> QED
      BY <2>1, <2>2 DEF Service!svars
  <1> QED
    BY <1>1, <1>2, <1>3, <1>4, <1>5, <1>6, <1>7, <1>8, <1>9, <1>10 DEF Next, Service!Next

LEMMA InitServes == Init => ServiceInv /\ Service!Init
  <1> SUFFICES ASSUME Init PROVE ServiceInv /\ Service!Init
    OBVIOUS
  <1>1. IInv
    BY InitInv
  <1>2. /\ requestId = 0 /\ outcome = [i \in Ids |-> "none"] /\ timers = {} /\ queued = {}
        /\ pipe = [p \in Procs |-> <<>>]
    BY DEF Init
  <1>3. Numbered(Here)
    BY <1>2, PikeWorkerAssumption DEF Numbered, Here, Ids
  <1>4. \A p \in Procs : DOMAIN pipe[p] = {}
    BY <1>2
  <1>5. Orderly(Here)
    BY <1>2, <1>4 DEF Orderly, Ordered, Tidy, Clean, Here, OpenIn
  <1>6. Service!Init
    BY <1>2 DEF Service!Init, Service!Ids, Ids
  <1> QED
    BY <1>1, <1>3, <1>5, <1>6 DEF ServiceInv, Aligned

LEMMA ServiceInductive == Spec => []ServiceInv
  <1>1. Init => ServiceInv
    BY InitServes
  <1>2. ServiceInv /\ [Next]_vars => ServiceInv'
    BY NextInv, NextServes DEF ServiceInv
  <1> QED
    BY <1>1, <1>2, PTL DEF Spec

\* The worker implements the service it promises, for every number of requests
\* and processes, every ceiling and every set of faults.
THEOREM ImplementsTheService == Spec => ImplementsService
  <1>1. Init => ServiceInv /\ Service!Init
    BY InitServes
  <1>2. ServiceInv /\ [Next]_vars => ServiceInv' /\ [Service!Next]_(Service!svars)
    BY NextInv, NextServes DEF ServiceInv
  <1> QED
    BY <1>1, <1>2, PTL DEF Spec, ImplementsService, Service!Spec

\* Whatever fails, no request overtakes another of its priority.
THEOREM KeepsOrder == Spec => []SamePriorityFIFO
  <1>1. ServiceInv => SamePriorityFIFO
    <2> SUFFICES ASSUME ServiceInv PROVE SamePriorityFIFO
      OBVIOUS
    <2>1. Ordered(Here) /\ pipe \in [Procs -> Seq(Ids \cup {Junk})]
      BY DEF ServiceInv, Aligned, Orderly, IInv, Invariant, Sound, State, Here
    <2>2. \A p \in Procs : \A k \in DOMAIN pipe[p] : pipe[p][k] \in Ids \cup {Junk}
      BY <2>1
    <2> QED
      BY <2>1, <2>2 DEF SamePriorityFIFO, Ordered, Here
  <1> QED
    BY <1>1, ServiceInductive, PTL

\* As long as no write fails on a child that lives on, no timer outlives its
\* request.
THEOREM NoTimerOutlivesItsRequest ==
  ASSUME "writeError" \notin Faults
  PROVE  Spec => []NoStaleTimer
  <1>1. ServiceInv => NoStaleTimer
    BY DEF ServiceInv, Aligned, Orderly, Tidy, NoStaleTimer, OpenIn, Open, Here
  <1> QED
    BY <1>1, ServiceInductive, PTL

-------------------------------------------------------------------------------
(* What counts as a crash. *)

DiedIn(s) == {p \in Procs : s.os[p] = "gone" /\ p \notin Signalled(s)}

\* OnlyCrashesCount over records, with what makes it inductive: no child has
\* gone that was not spawned, and the current child has not gone.
Counted(s) ==
  /\ \A p \in Procs : s.os[p] = "gone" => p <= s.spawned
  /\ s.consecutiveCrashes <= Cardinality(DiedIn(s))
  /\ s.backoff => CrashThreshold <= Cardinality(DiedIn(s))

Honest(s) == Counted(s) /\ (s.proc # NoProc => s.os[s.proc] # "gone")

\* The fields that Honest is about, but for the current process.
Alike(r, s) ==
  /\ r.spawned = s.spawned /\ r.os = s.os
  /\ r.sigterm = s.sigterm /\ r.sigkill = s.sigkill
  /\ r.consecutiveCrashes = s.consecutiveCrashes /\ r.backoff = s.backoff

\* The children that died are finitely many, and more of them is a larger number.
LEMMA DiedGrows ==
  ASSUME NEW r, NEW s, DiedIn(s) \subseteq DiedIn(r)
  PROVE  /\ Cardinality(DiedIn(s)) \in Nat /\ Cardinality(DiedIn(r)) \in Nat
         /\ Cardinality(DiedIn(s)) <= Cardinality(DiedIn(r))
         /\ DiedIn(s) # DiedIn(r) => Cardinality(DiedIn(s)) < Cardinality(DiedIn(r))
  <1>1. IsFiniteSet(Procs)
    BY FS_Interval, PikeWorkerAssumption DEF Procs
  <1>2. IsFiniteSet(DiedIn(r)) /\ IsFiniteSet(DiedIn(s))
    BY <1>1, FS_Subset DEF DiedIn
  <1> QED
    BY <1>2, FS_Subset, FS_CardinalityType

\* A step that counts no crash, spawns nothing over a dead child and signals
\* none keeps the count honest.
LEMMA StillHonest ==
  ASSUME NEW s \in State, Honest(s), NEW r \in State,
         r.proc # NoProc => r.os[r.proc] # "gone",
         \A p \in Procs : r.os[p] = "gone" => p <= r.spawned,
         r.consecutiveCrashes <= s.consecutiveCrashes, r.backoff => s.backoff,
         DiedIn(s) \subseteq DiedIn(r)
  PROVE  Honest(r)
  <1>1. /\ Cardinality(DiedIn(s)) \in Nat /\ Cardinality(DiedIn(r)) \in Nat
        /\ Cardinality(DiedIn(s)) <= Cardinality(DiedIn(r))
    BY DiedGrows
  <1>2. /\ r.consecutiveCrashes \in Nat /\ s.consecutiveCrashes \in Nat
        /\ CrashThreshold \in Nat
    BY PikeWorkerAssumption DEF State
  <1> QED
    BY <1>1, <1>2 DEF Honest, Counted

LEMMA AlikeHonest ==
  ASSUME NEW s \in State, Counted(s), NEW r \in State, Alike(r, s),
         (Honest(s) /\ r.proc = s.proc) \/ r.proc = NoProc
  PROVE  Honest(r)
  BY DEF Honest, Counted, Alike, DiedIn, Signalled

-------------------------------------------------------------------------------

\* Settling and rejecting leave the children and the count alone.
LEMMA SettleAlike ==
  ASSUME NEW s \in State, NEW S, NEW how
  PROVE  Alike(Settle(s, S, how), s)
  BY DEF Settle, State, Alike

LEMMA RejectAlike ==
  ASSUME NEW s \in State
  PROVE  Alike(RejectAllPending(s), s) /\ Alike(RejectAllQueued(s), s)
  <1>1. \A S : Settle(s, S, "failed") \in State /\ Alike(Settle(s, S, "failed"), s)
    BY SettleAlike, SettleLemma DEF Outcomes
  <1>2. Alike(RejectAllPending(s), s)
    <2> DEFINE u == Settle(s, s.pending, "failed")
               T == u.timers \ s.pending
               r == [u EXCEPT !.pending = {}, !.timers = T]
    <2>1. u \in State /\ Alike(u, s)
      BY <1>1
    <2>2. RejectAllPending(s) = r
      BY DEF RejectAllPending
    <2> HIDE DEF u, T
    <2>3. Alike(r, u)
      BY <2>1 DEF State, Alike
    <2> QED
      BY <2>1, <2>2, <2>3 DEF Alike
  <1>3. Alike(RejectAllQueued(s), s)
    <2> DEFINE u == Settle(s, s.queued, "failed")
               T == u.timers \ s.queued
               r == [u EXCEPT !.queued = {}, !.timers = T]
    <2>1. u \in State /\ Alike(u, s)
      BY <1>1
    <2>2. RejectAllQueued(s) = r
      BY DEF RejectAllQueued
    <2> HIDE DEF u, T
    <2>3. Alike(r, u)
      BY <2>1 DEF State, Alike
    <2> QED
      BY <2>1, <2>2, <2>3 DEF Alike
  <1> QED
    BY <1>2, <1>3

\* Abandoning the worker and a failed spawn forget the process, no more.
LEMMA AbandonHonest ==
  ASSUME NEW s \in State, Counted(s)
  PROVE  /\ AbandonWorker(s) \in State /\ Honest(AbandonWorker(s))
         /\ \A permanent \in BOOLEAN :
              FailSpawn(s, permanent) \in State /\ Honest(FailSpawn(s, permanent))
  <1>1. ASSUME NEW u \in State, Counted(u)
        PROVE  AbandonWorker(u) \in State /\ Honest(AbandonWorker(u))
    <2> DEFINE v == RejectAllPending(u)
               w == RejectAllQueued(v)
               r == AbandonWorker(u)
    <2>1. v \in State /\ Alike(v, u)
      BY RejectAlike, RejectAllPendingLemma
    <2> HIDE DEF v
    <2>2. w \in State /\ Alike(w, v)
      BY <2>1, RejectAlike, RejectAllQueuedLemma
    <2>3. r = [w EXCEPT !.sending = FALSE, !.proc = NoProc]
      BY DEF AbandonWorker, v
    <2> HIDE DEF w
    <2>4. r \in State /\ r.proc = NoProc
      BY AbandonWorkerLemma
    <2> HIDE DEF r
    <2>5. Alike(r, w)
      BY <2>2, <2>3 DEF State, Alike
    <2>6. Alike(r, u)
      BY <2>1, <2>2, <2>5 DEF Alike
    <2>7. Honest(r)
      BY <1>1, <2>4, <2>6, AlikeHonest DEF Honest
    <2> QED
      BY <2>4, <2>7 DEF r
  <1>2. ASSUME NEW permanent \in BOOLEAN
        PROVE  FailSpawn(s, permanent) \in State /\ Honest(FailSpawn(s, permanent))
    <2> DEFINE U == s.pikeUnavailable \/ permanent
               t == [s EXCEPT !.idleTimer = FALSE, !.spawnFailed = TRUE, !.pikeUnavailable = U]
    <2>1. U \in BOOLEAN
      OBVIOUS
    <2>2. FailSpawn(s, permanent) = AbandonWorker(t)
      BY Zenon DEF FailSpawn
    <2> HIDE DEF U
    <2>3. t \in State /\ Alike(t, s) /\ t.proc = s.proc
      BY <2>1 DEF State, Alike
    <2> HIDE DEF t
    <2>4. Counted(t)
      BY <2>3 DEF Counted, Alike, DiedIn, Signalled
    <2> QED
      BY <1>1, <2>2, <2>3, <2>4
  <1> QED
    BY <1>1, <1>2

\* stop signals a child that has not gone.
LEMMA StopHonest ==
  ASSUME NEW s \in State, Honest(s)
  PROVE  Stop(s) \in State /\ Honest(Stop(s)) /\ Stop(s).proc = NoProc
  <1> DEFINE u == RejectAllPending(s)
             dying == IF IsAlive(s) THEN {s.proc} ELSE {}
             T == u.sigterm \cup dying
             G == u.grace \cup dying
             r == Stop(s)
  <1>1. u \in State /\ Alike(u, s)
    BY RejectAlike, RejectAllPendingLemma
  <1>2. r = [u EXCEPT !.idleTimer = FALSE, !.sigterm = T, !.grace = G,
                      !.proc = NoProc, !.queued = {}, !.sending = FALSE]
    BY DEF Stop
  <1>3. r \in State /\ r.proc = NoProc
    BY StopLemma
  <1>4. \A p \in dying : s.os[p] # "gone"
    BY DEF Honest, Counted, IsAlive
  <1> HIDE DEF u, dying, r, G
  <1>5. T = s.sigterm \cup dying
    BY <1>1 DEF Alike
  <1> HIDE DEF T
  <1>6. /\ r.spawned = s.spawned /\ r.os = s.os /\ r.sigterm = s.sigterm \cup dying
        /\ r.sigkill = s.sigkill /\ r.backoff = s.backoff
        /\ r.consecutiveCrashes = s.consecutiveCrashes
    BY <1>1, <1>2, <1>5 DEF State, Alike
  <1>7. DiedIn(r) = DiedIn(s)
    BY <1>4, <1>6 DEF DiedIn, Signalled
  <1>8. Honest(r)
    BY <1>3, <1>6, <1>7 DEF Honest, Counted
  <1> QED
    BY <1>3, <1>8 DEF r

\* start spawns a child that was never there.
LEMMA StartHonest ==
  ASSUME NEW s \in State, Honest(s), NEW how \in {"ok", "permanent", "transient"},
         how = "ok" /\ ~IsAlive(s) => s.spawned < MaxProcs
  PROVE  Start(s, how) \in State /\ Honest(Start(s, how))
  <1>1. CASE IsAlive(s)
    BY <1>1 DEF Start
  <1>2. CASE ~IsAlive(s) /\ how = "ok"
    <2> DEFINE p == s.spawned + 1
               O == [s.os EXCEPT ![p] = "new"]
               r == Spawn(s)
    <2>1. s.spawned \in 0..MaxProcs /\ s.spawned < MaxProcs /\ MaxProcs \in Nat
      BY <1>2, PikeWorkerAssumption DEF State
    <2>2. p \in Procs /\ p \in 0..MaxProcs /\ p # NoProc /\ ~(p <= s.spawned)
      BY <2>1 DEF Procs, NoProc
    <2>3. r = [s EXCEPT !.spawned = p, !.proc = p, !.os = O,
                        !.spawnFailed = FALSE, !.requestCount = 0]
      BY <2>2 DEF Spawn, State
    <2>4. /\ O \in [Procs -> Statuses] /\ O[p] = "new"
          /\ \A q \in Procs : O[q] = "gone" <=> s.os[q] = "gone"
      BY <2>2 DEF State, Statuses, Honest, Counted
    <2>5. \A q \in Procs : s.os[q] = "gone" => q <= p
      BY <2>1 DEF Honest, Counted, Procs
    <2> HIDE DEF p, O, r
    <2>6. r \in State
      BY <2>2, <2>3, <2>4 DEF State
    <2>7. /\ r.spawned = p /\ r.proc = p /\ r.os = O /\ r.sigterm = s.sigterm
          /\ r.sigkill = s.sigkill /\ r.backoff = s.backoff
          /\ r.consecutiveCrashes = s.consecutiveCrashes
      BY <2>3 DEF State
    <2>8. DiedIn(r) = DiedIn(s)
      BY <2>4, <2>7 DEF DiedIn, Signalled
    <2>9. Honest(r)
      BY <2>4, <2>5, <2>7, <2>8 DEF Honest, Counted
    <2> QED
      BY <1>2, <2>6, <2>9 DEF Start, r
  <1>3. CASE ~IsAlive(s) /\ how # "ok"
    <2>1. Start(s, how) = FailSpawn(s, how = "permanent")
      BY <1>3 DEF Start
    <2> QED
      BY <2>1, AbandonHonest DEF Honest
  <1> QED
    BY <1>1, <1>2, <1>3

\* Registering a request touches no child.
LEMMA PushHonest ==
  ASSUME NEW s, Sound(s), Honest(s), s.requestId < MaxId, NEW pr \in Priorities
  PROVE  Sound(Push(s, pr)) /\ Honest(Push(s, pr))
  <1> DEFINE r == Push(s, pr)
             id == s.requestId + 1
             A == [s.priority EXCEPT ![id] = pr]
             O == [s.outcome EXCEPT ![id] = "open"]
             P == s.pending \cup {id}
             T == s.timers \cup {id}
             Q == s.queued \cup {id}
             n == s.requestCount + 1
  <1>1. s \in State /\ Sound(r) /\ r.proc = s.proc /\ r \in State
    BY PushSound DEF Sound
  <1>2. r = [s EXCEPT !.requestId = id, !.priority = A, !.outcome = O,
                      !.requestCount = n, !.idleTimer = TRUE,
                      !.pending = P, !.timers = T, !.queued = Q]
    BY <1>1 DEF Push, State
  <1> HIDE DEF r, id, A, O, P, T, Q, n
  <1>3. Alike(r, s)
    BY <1>1, <1>2 DEF State, Alike
  <1>4. Honest(r)
    BY <1>1, <1>3, AlikeHonest DEF Honest
  <1> QED
    BY <1>1, <1>4 DEF r

\* Sending the next request touches no child.
LEMMA DrainHonest ==
  ASSUME NEW s, Sound(s), Honest(s), cancelRequested \subseteq Ids,
         s.queued # {} => s.proc # NoProc \/ s.spawnFailed = TRUE
  PROVE  DrainQueue(s) \in State /\ Honest(DrainQueue(s))
  <1> DEFINE live    == s.queued \ cancelRequested
             next    == CHOOSE i \in live : \A j \in live \ {i} : Before(s, i, j)
             D       == {i \in s.queued \cap cancelRequested : live = {} \/ Before(s, i, next)}
             u       == Settle(s, D, "cancelled")
             Q       == u.queued \ D
             P       == u.pending \ D
             T       == u.timers \ (D \cap s.pending)
             t       == [u EXCEPT !.queued = Q, !.pending = P, !.timers = T]
             N       == t.queued \ {next}
             W       == t.writes \cup {[id |-> next, proc |-> s.proc]}
             O       == [t.pipe EXCEPT ![s.proc] = Append(@, next)]
             w       == [t EXCEPT !.queued = N, !.sending = TRUE, !.writes = W, !.pipe = O]
             r       == DrainQueue(s)
  <1>1. r = IF s.sending THEN s
            ELSE IF ~IsAlive(s) THEN IF s.spawnFailed THEN RejectAllQueued(s) ELSE s
            ELSE IF live = {} THEN t
            ELSE [t EXCEPT !.queued = @ \ {next}, !.sending = TRUE,
                           !.writes = @ \cup {[id |-> next, proc |-> s.proc]},
                           !.pipe[s.proc] = Append(@, next)]
    BY Zenon DEF DrainQueue
  <1>2. s \in State /\ Sound(r) /\ r \in State
    BY DrainSound DEF Sound
  <1>3. u \in State /\ Alike(u, s) /\ u.proc = s.proc
    BY <1>2, SettleLemma, SettleAlike DEF Outcomes
  <1>4. Sound(t) /\ t.proc = s.proc
    <2>1. /\ D \subseteq s.queued
          /\ \A j \in s.queued \ D : j \in live \/ (live # {} /\ ~Before(s, j, next))
      OBVIOUS
    <2> QED
      BY <2>1, DropSound
  <1>w. w = [t EXCEPT !.queued = @ \ {next}, !.sending = TRUE,
                      !.writes = @ \cup {[id |-> next, proc |-> s.proc]},
                      !.pipe[s.proc] = Append(@, next)]
    OBVIOUS
  <1> HIDE DEF D, next, u, Q, P, T
  <1>5. Alike(t, u)
    BY <1>3 DEF State, Alike
  <1> HIDE DEF t, N, W, O
  <1>6. t \in State
    BY <1>4 DEF Sound
  <1>7. Alike(w, t) /\ w.proc = t.proc
    BY <1>6 DEF State, Alike
  <1> HIDE DEF w, r, live
  <1>8. Alike(t, s) /\ Alike(w, s) /\ w.proc = s.proc
    BY <1>3, <1>4, <1>5, <1>7 DEF Alike
  <1>9. Alike(RejectAllQueued(s), s) /\ RejectAllQueued(s).proc = s.proc
    BY <1>2, RejectAlike, RejectAllQueuedLemma
  <1>10. r \in {s, RejectAllQueued(s), t, w}
    BY <1>1, <1>w
  <1>11. Alike(r, s) /\ r.proc = s.proc
    BY <1>4, <1>8, <1>9, <1>10 DEF Alike
  <1>12. Honest(r)
    BY <1>2, <1>11, AlikeHonest DEF Honest
  <1> QED
    BY <1>2, <1>12 DEF r

-------------------------------------------------------------------------------

CountInv == IInv /\ Honest(Here)

\* A handler that ends in an honest state leaves one.
LEMMA BecomeHonest ==
  ASSUME NEW r \in State, Honest(r), Become(r)
  PROVE  Honest(Here)'
  <1>1. PICK s \in {r} : Become(s)
    OBVIOUS
  <1>2. Here' = r
    BY DEF Become, Here, State
  <1> QED
    BY <1>2

\* Enqueue may forget crashes, never count one.
LEMMA EnqueueHonest ==
  ASSUME CountInv, NEW pr \in UsedPriorities, NEW aged \in BOOLEAN,
         NEW how1 \in StartResults, NEW how2 \in StartResults,
         Enqueue(pr, aged, how1, how2)
  PROVE  Honest(Here)'
  <1> DEFINE s  == Here
             s0 == CheckAndClearBackoff(s)
             s1 == IF ShouldForceRestart(s0, aged) THEN Start(Stop(s0), how1) ELSE s0
             s2 == Start(s1, how2)
             s3 == Push(s2, pr)
             s4 == DrainQueue(s3)
  <1>1. Become(s4) /\ s.requestId < MaxId /\ s.spawned = spawned
    BY DEF Enqueue, Here
  <1>2. /\ how1 \in {"ok", "permanent", "transient"} /\ how2 \in {"ok", "permanent", "transient"}
        /\ how1 = "ok" => spawned < MaxProcs
        /\ how2 = "ok" => spawned < MaxProcs
    BY DEF StartResults
  <1>3. Invariant(s) /\ Honest(s) /\ s \in State /\ cancelRequested \subseteq Ids
    BY DEF CountInv, IInv, Invariant, Sound
  <1> HIDE DEF s
  <1>4. /\ Sound(s0) /\ Honest(s0) /\ s0.requestId = s.requestId /\ s0.spawned = s.spawned
    <2>a. s.consecutiveCrashes \in Nat
      BY <1>3 DEF State
    <2>b. /\ s0 \in State /\ SameRequests(s0, s) /\ s0.grace = s.grace
          /\ s0.pipe = s.pipe /\ s0.os = s.os
      BY <1>3 DEF CheckAndClearBackoff, State, SameRequests
    <2>c. /\ s0.consecutiveCrashes \in {0, s.consecutiveCrashes}
          /\ s0.backoff => s.backoff
      BY <1>3 DEF CheckAndClearBackoff, State
    <2>1. /\ s0 \in State /\ SameRequests(s0, s) /\ s0.grace = s.grace
          /\ s0.pipe = s.pipe /\ s0.os = s.os /\ s0.consecutiveCrashes <= s.consecutiveCrashes
          /\ s0.backoff => s.backoff
      BY <2>a, <2>b, <2>c
    <2>2. Invariant(s0)
      BY <1>3, <2>1, FrameInv DEF Runs
    <2>3. DiedIn(s0) = DiedIn(s)
      BY <2>1 DEF DiedIn, Signalled, SameRequests
    <2>4. Honest(s0)
      BY <1>3, <2>1, <2>3, StillHonest DEF SameRequests, Honest, Counted
    <2> QED
      BY <2>1, <2>2, <2>4 DEF Invariant, SameRequests
  <1> HIDE DEF s0
  <1>5. /\ Sound(s1) /\ Honest(s1) /\ s1.requestId = s.requestId
        /\ s1.proc # NoProc \/ s1.spawned = spawned
    <2>1. CASE ShouldForceRestart(s0, aged)
      <3>1. /\ Sound(Stop(s0)) /\ Stop(s0).requestId = s.requestId
            /\ Stop(s0).spawned = spawned
        BY <1>1, <1>4, StopSound DEF SameContext, SameChildren
      <3>2. Stop(s0) \in State /\ Honest(Stop(s0))
        BY <1>4, StopHonest DEF Sound
      <3> QED
        BY <1>2, <2>1, <3>1, <3>2, StartSound, StartHonest
    <2>2. CASE ~ShouldForceRestart(s0, aged)
      BY <1>1, <1>4, <2>2
    <2> QED
      BY <2>1, <2>2
  <1> HIDE DEF s1
  <1>6. how2 = "ok" /\ ~IsAlive(s1) => s1.spawned < MaxProcs
    BY <1>2, <1>5 DEF Sound, IsAlive, Signalled
  <1>7. /\ Sound(s2) /\ Honest(s2) /\ s2.requestId = s.requestId
        /\ s2.proc # NoProc \/ s2.spawnFailed = TRUE
    <2>1. Sound(s2) /\ s2.requestId = s.requestId /\ (s2.proc # NoProc \/ s2.spawnFailed = TRUE)
      BY <1>2, <1>5, StartSound
    <2>2. Honest(s2)
      BY <1>2, <1>5, <1>6, StartHonest DEF Sound
    <2> QED
      BY <2>1, <2>2
  <1> HIDE DEF s2
  <1>8. /\ Sound(s3) /\ Honest(s3) /\ s3.proc = s2.proc
        /\ s3.spawnFailed = s2.spawnFailed
    BY <1>1, <1>7, PushSound, PushHonest, PikeWorkerAssumption DEF Priorities
  <1> HIDE DEF s3
  <1>9. s4 \in State /\ Honest(s4)
    BY <1>3, <1>7, <1>8, DrainHonest
  <1> HIDE DEF s4
  <1> QED
    BY <1>1, <1>9, BecomeHonest

\* The end of a write lets drainQueue send the next request.
LEMMA WriteHonest ==
  ASSUME CountInv, NEW x \in writes, WriteDone(x) \/ WriteFail(x)
  PROVE  Honest(Here)'
  <1> DEFINE s == Here
             u == Settle(s, {x.id}, "failed")
             End(t) == [t EXCEPT !.writes = @ \ {x}, !.sending = FALSE]
  <1>1. /\ Become(DrainQueue(End(s))) \/ Become(DrainQueue(End(u)))
        /\ x \in s.writes
    BY DEF WriteDone, WriteFail, Here
  <1>2. /\ Sound(s) /\ Honest(s) /\ (s.queued # {} => s.proc # NoProc)
        /\ cancelRequested \subseteq Ids
    BY DEF CountInv, IInv, Invariant, Sound
  <1> HIDE DEF s
  <1>3. ASSUME NEW t, Sound(t), Honest(t), t.writes = s.writes,
               t.queued # {} => t.proc # NoProc, Become(DrainQueue(End(t)))
        PROVE  Honest(Here)'
    <2> DEFINE r == End(t)
               W == t.writes \ {x}
    <2>1. Sound(r) /\ r.queued = t.queued /\ r.proc = t.proc
      BY <1>1, <1>3, WriteEndSound
    <2>2. r = [t EXCEPT !.writes = W, !.sending = FALSE]
      OBVIOUS
    <2> HIDE DEF W
    <2>3. Alike([t EXCEPT !.writes = W, !.sending = FALSE], t)
      BY <1>3 DEF Sound, State, Alike
    <2>4. Become(DrainQueue(r))
      BY <1>3
    <2> HIDE DEF r
    <2>5. Honest(r)
      BY <1>3, <2>1, <2>2, <2>3, AlikeHonest DEF Sound, Honest
    <2>6. DrainQueue(r) \in State /\ Honest(DrainQueue(r))
      BY <1>2, <1>3, <2>1, <2>5, DrainHonest
    <2> QED
      BY <2>4, <2>6, BecomeHonest
  <1>4. Sound(u) /\ Honest(u) /\ u.queued = s.queued /\ u.proc = s.proc /\ u.writes = s.writes
    <2>1. s \in State
      BY <1>2 DEF Sound
    <2>2. x \in [id : Ids, proc : Procs]
      BY <1>1, <2>1 DEF State
    <2>3. x.id \in Ids /\ x.id \notin s.queued
      BY <1>1, <1>2, <2>2 DEF Sound, Asked
    <2>4. Sound(u) /\ u.queued = s.queued /\ u.proc = s.proc /\ u.writes = s.writes
      BY <1>2, <2>3, SettleAskedSound DEF Outcomes
    <2>5. Alike(u, s)
      BY <2>1, SettleAlike
    <2> HIDE DEF u
    <2>6. Honest(u)
      BY <1>2, <2>1, <2>4, <2>5, AlikeHonest DEF Sound, Honest
    <2> QED
      BY <2>4, <2>6
  <1> HIDE DEF u, End
  <1> QED
    BY <1>1, <1>2, <1>3, <1>4

\* The first line of a pipe is taken off without a crash being counted.
LEMMA PopHonest ==
  ASSUME NEW s \in State, Honest(s), NEW p \in Procs, s.pipe[p] # <<>>,
         NEW c \in {0, s.consecutiveCrashes}
  PROVE  LET u == [s EXCEPT !.pipe[p] = Tail(@), !.consecutiveCrashes = c] IN
         u \in State /\ Honest(u) /\ u.proc = s.proc
  <1> DEFINE u == [s EXCEPT !.pipe[p] = Tail(@), !.consecutiveCrashes = c]
  <1>1. c \in Nat /\ c <= s.consecutiveCrashes
    BY DEF State
  <1>2. u \in State /\ SameRequests(u, s) /\ u.os = s.os
    BY <1>1, PopFacts
  <1>3. u.consecutiveCrashes = c /\ u.backoff = s.backoff
    BY DEF State
  <1> HIDE DEF u
  <1>4. DiedIn(u) = DiedIn(s)
    BY <1>2 DEF SameRequests, DiedIn, Signalled
  <1>5. Honest(u)
    BY <1>1, <1>2, <1>3, <1>4, StillHonest DEF SameRequests, Honest, Counted
  <1> QED
    BY <1>2, <1>5 DEF u, SameRequests

\* An answer forgets the crashes; a desynced stream leaves them.
LEMMA DeliverHonest ==
  ASSUME CountInv, NEW p \in Procs, Deliver(p)
  PROVE  Honest(Here)'
  <1> DEFINE s == Here
             i == Head(s.pipe[p])
             u == [s EXCEPT !.pipe[p] = Tail(@), !.consecutiveCrashes = 0]
             v == Settle(u, {i}, "answered")
             r == [v EXCEPT !.pending = @ \ {i}, !.timers = @ \ {i}]
  <1>1. Become(u) \/ Become(r)
    BY DEF Deliver, Here
  <1>2. s.pipe[p] # <<>> /\ s \in State /\ Honest(s)
    BY DEF Deliver, CountInv, IInv, Invariant, Sound, Here
  <1> HIDE DEF s, i
  <1>3. u \in State /\ Honest(u)
    BY <1>2, PopHonest
  <1> HIDE DEF u
  <1>4. v \in State /\ Alike(v, u) /\ v.proc = u.proc
    BY <1>3, SettleLemma, SettleAlike DEF Outcomes
  <1> DEFINE P == v.pending \ {i}
             T == v.timers \ {i}
  <1>5. r = [v EXCEPT !.pending = P, !.timers = T]
    OBVIOUS
  <1>6. P \in SUBSET Ids /\ T \in SUBSET Ids
    BY <1>4 DEF State
  <1> HIDE DEF v, r, P, T
  <1>7. r \in State /\ Alike(r, v) /\ r.proc = v.proc
    BY <1>4, <1>5, <1>6 DEF State, Alike
  <1>8. Alike(r, u) /\ r.proc = u.proc
    BY <1>4, <1>7 DEF Alike
  <1>9. Honest(r)
    BY <1>3, <1>7, <1>8, AlikeHonest DEF Honest
  <1> QED
    BY <1>1, <1>3, <1>7, <1>9, BecomeHonest

LEMMA DeliverJunkHonest ==
  ASSUME CountInv, NEW p \in Procs, NEW how \in StartResults, DeliverJunk(p, how)
  PROVE  Honest(Here)'
  <1> DEFINE s == Here
             c == s.consecutiveCrashes
             u == [s EXCEPT !.pipe[p] = Tail(@)]
             v == RejectAllPending(u)
             w == Stop(v)
             r == Start(w, how)
  <1>1. Become(r) /\ s.pipe[p] # <<>> /\ s.spawned = spawned
    BY DEF DeliverJunk, Here
  <1>2. s \in State /\ Honest(s)
    BY DEF CountInv, IInv, Invariant, Sound
  <1> HIDE DEF s
  <1>3. u = [s EXCEPT !.pipe[p] = Tail(@), !.consecutiveCrashes = c]
    BY <1>2 DEF State
  <1>4. u.spawned = s.spawned
    BY <1>2 DEF State
  <1> HIDE DEF c, u
  <1>5. u \in State /\ Honest(u)
    BY <1>1, <1>2, <1>3, PopHonest DEF c
  <1>6. v \in State /\ Alike(v, u) /\ v.proc = u.proc
    BY <1>5, RejectAlike, RejectAllPendingLemma
  <1> HIDE DEF v
  <1>7. Honest(v)
    BY <1>5, <1>6, AlikeHonest DEF Honest
  <1>8. w \in State /\ Honest(w) /\ w.spawned = v.spawned
    BY <1>6, <1>7, StopHonest, StopLemma DEF SameContext, SameChildren
  <1> HIDE DEF w
  <1>9. how \in {"ok", "permanent", "transient"} /\ (how = "ok" => w.spawned < MaxProcs)
    BY <1>1, <1>4, <1>6, <1>8 DEF StartResults, Alike
  <1>10. r \in State /\ Honest(r)
    BY <1>8, <1>9, StartHonest
  <1> HIDE DEF r
  <1> QED
    BY <1>1, <1>10, BecomeHonest

\* A timeout signals the current child, which has not gone.
LEMMA TimeoutHonest ==
  ASSUME CountInv, NEW i \in Ids, Timeout(i)
  PROVE  Honest(Here)'
  <1> DEFINE s == Here
             P == s.pending \ {i}
             Q == s.queued \ {i}
             T == s.timers \ {i}
             K == s.sigkill \cup {s.proc}
             u == [s EXCEPT !.pending = P, !.queued = Q, !.timers = T]
             k == [u EXCEPT !.sigkill = @ \cup {u.proc}]
             t == IF IsAlive(u) THEN AbandonWorker(k) ELSE u
             r == Settle(t, {i}, "timeout")
  <1>1. Become(r)
    BY DEF Timeout, Here
  <1>2. s \in State /\ Honest(s)
    BY DEF CountInv, IInv, Invariant, Sound
  <1>3. P \in SUBSET Ids /\ Q \in SUBSET Ids /\ T \in SUBSET Ids
    BY <1>2 DEF State
  <1> HIDE DEF s, P, Q, T
  <1>4. u \in State /\ Alike(u, s) /\ u.proc = s.proc
    BY <1>2, <1>3 DEF State, Alike
  <1>5. k = [u EXCEPT !.sigkill = K]
    BY <1>4 DEF Alike
  <1> HIDE DEF u, k, K
  <1>6. Honest(u)
    BY <1>2, <1>4, AlikeHonest DEF Honest
  <1>7. ASSUME IsAlive(u)
        PROVE  k \in State /\ Honest(k)
    <2>1. u.proc \in Procs /\ u.os[u.proc] # "gone" /\ K = u.sigkill \cup {u.proc}
      BY <1>4, <1>6, <1>7 DEF State, IsAlive, Honest, Counted, Alike, K
    <2>2. K \in SUBSET Procs
      BY <1>4, <2>1 DEF State
    <2>3. /\ k \in State /\ k.proc = u.proc /\ k.os = u.os /\ k.spawned = u.spawned
          /\ k.sigkill = K /\ k.sigterm = u.sigterm /\ k.backoff = u.backoff
          /\ k.consecutiveCrashes = u.consecutiveCrashes
      BY <1>4, <1>5, <2>2 DEF State
    <2>4. DiedIn(k) = DiedIn(u)
      BY <2>1, <2>3 DEF DiedIn, Signalled
    <2> QED
      BY <1>6, <2>3, <2>4 DEF Honest, Counted
  <1>8. t \in State /\ Honest(t)
    BY <1>4, <1>6, <1>7, AbandonHonest DEF Honest
  <1> HIDE DEF t
  <1>9. r \in State /\ Alike(r, t) /\ r.proc = t.proc
    BY <1>8, SettleLemma, SettleAlike DEF Outcomes
  <1> HIDE DEF r
  <1>10. Honest(r)
    BY <1>8, <1>9, AlikeHonest DEF Honest
  <1> QED
    BY <1>1, <1>9, <1>10, BecomeHonest

\* Stopping an idle worker, or any, counts nothing.
LEMMA StopsHonest ==
  ASSUME CountInv, IdleFire \/ StopWorker
  PROVE  Honest(Here)'
  <1> DEFINE s == Here
             u == [s EXCEPT !.idleTimer = FALSE]
  <1>1. Become(u) \/ Become(Stop(u)) \/ Become(Stop(s))
    BY DEF IdleFire, StopWorker
  <1>2. s \in State /\ Honest(s)
    BY DEF CountInv, IInv, Invariant, Sound
  <1> HIDE DEF s
  <1>3. u \in State /\ Alike(u, s) /\ u.proc = s.proc
    BY <1>2 DEF State, Alike
  <1> HIDE DEF u
  <1>4. Honest(u)
    BY <1>2, <1>3, AlikeHonest DEF Honest
  <1> QED
    BY <1>1, <1>2, <1>3, <1>4, StopHonest, BecomeHonest

\* The grace timer signals nobody who was not signalled before; a child that
\* comes up or garbles its output, and the end of a pause, count nothing.
LEMMA QuietHonest ==
  ASSUME CountInv,
         \/ BackoffExpires
         \/ \E p \in Procs : GraceTimer(p) \/ Ready(p) \/ Garble(p)
  PROVE  Honest(Here)'
  <1>1. Sound(Here) /\ Here \in State /\ Honest(Here)
    BY DEF CountInv, IInv, Invariant, Sound
  <1>2. IInv'
    BY BackoffExpiresInv, GraceTimerInv, ReadyInv, GarbleInv DEF CountInv
  <1>3. Here' \in State
    BY <1>2 DEF IInv, Invariant, Sound
  <1> DEFINE Quiet == /\ proc' = proc /\ spawned' = spawned
                      /\ sigterm' = sigterm /\ sigkill' = sigkill
                      /\ consecutiveCrashes' = consecutiveCrashes
                      /\ backoff' => backoff
                      /\ \A p \in Procs : os'[p] = "gone" <=> os[p] = "gone"
  <1>4. Quiet
    <2>1. CASE BackoffExpires
      BY <2>1 DEF BackoffExpires, Become, Here
    <2>2. ASSUME NEW p \in Procs, GraceTimer(p)
          PROVE  Quiet
      <3> DEFINE K == IF p \in sigterm \cup sigkill THEN sigkill ELSE sigkill \cup {p}
                 G == grace \ {p}
      <3>1. K = sigkill
        BY <1>1, <2>2 DEF Sound, GraceTimer, Signalled, Here
      <3>2. Become([Here EXCEPT !.grace = G, !.sigkill = K])
        BY <2>2 DEF GraceTimer, Here
      <3> DEFINE r == [Here EXCEPT !.grace = G, !.sigkill = K]
      <3> HIDE DEF K, G
      <3>3. /\ r.proc = proc /\ r.spawned = spawned /\ r.sigterm = sigterm
            /\ r.sigkill = K /\ r.consecutiveCrashes = consecutiveCrashes
            /\ r.backoff = backoff /\ r.os = os
        BY DEF Here
      <3> HIDE DEF r
      <3>4. Become(r)
        BY <3>2 DEF r
      <3> QED
        BY <3>1, <3>3, <3>4 DEF Become
    <2>3. ASSUME NEW p \in Procs, Ready(p)
          PROVE  Quiet
      <3>1. os' = [os EXCEPT ![p] = "alive"] /\ os[p] = "new"
        BY <2>3 DEF Ready, Become, Here
      <3>2. os \in [Procs -> Statuses]
        BY <1>1 DEF State, Here
      <3> QED
        BY <2>3, <3>1, <3>2 DEF Ready, Become, Here
    <2>4. ASSUME NEW p \in Procs, Garble(p)
          PROVE  Quiet
      BY <2>4 DEF Garble, Become, Here
    <2> QED
      BY <2>1, <2>2, <2>3, <2>4
  <1>5. DiedIn(Here)' = DiedIn(Here)
    BY <1>4 DEF DiedIn, Signalled, Here
  <1>6. proc \in Procs \cup {NoProc}
    BY <1>1 DEF State, Here
  <1> QED
    BY <1>1, <1>4, <1>5, <1>6 DEF Honest, Counted, Here

\* Every crash that is counted is the death of the current child, which nobody
\* had signalled; a replaced child has been signalled and is not counted.
LEMMA ExitHonest ==
  ASSUME CountInv, NEW p \in Procs, NEW code \in ExitCodes, NEW k \in 0..Len(pipe[p]),
         Exit(p, code, k)
  PROVE  Honest(Here)'
  <1> DEFINE s == Here
             F == SubSeq(s.pipe[p], 1, k)
             O == [s.os EXCEPT ![p] = "gone"]
             P == [s.pipe EXCEPT ![p] = F]
             u == [s EXCEPT !.idleTimer = FALSE, !.os = O, !.pipe = P]
             C == u.consecutiveCrashes + 1
             B == u.backoff \/ u.consecutiveCrashes + 1 >= CrashThreshold
             n == [u EXCEPT !.consecutiveCrashes = C, !.backoff = B]
             A == u.pikeUnavailable \/ code = "notfound"
             a == [u EXCEPT !.pikeUnavailable = A]
             t == IF code = "crash" THEN n ELSE a
  <1>1. /\ Become(IF p = s.proc THEN AbandonWorker(t) ELSE u) /\ s.os[p] = "alive"
    BY DEF Exit, Here, RecordCrash
  <1>2. /\ Sound(s) /\ s \in State /\ Honest(s) /\ s.pipe[p] \in Seq(Ids \cup {Junk})
        /\ k \in 0..Len(s.pipe[p])
    BY DEF CountInv, IInv, Invariant, Sound, State, Here
  <1> HIDE DEF s
  <1>3. F \in Seq(Ids \cup {Junk})
    BY <1>2, PrefixPiped
  <1> HIDE DEF F
  <1>4. /\ O \in [Procs -> Statuses] /\ P \in [Procs -> Seq(Ids \cup {Junk})] /\ O[p] = "gone"
        /\ \A q \in Procs : q # p => O[q] = s.os[q]
    BY <1>2, <1>3 DEF State, Statuses
  <1> HIDE DEF O, P
  <1>5. /\ u \in State /\ u.os = O /\ u.proc = s.proc /\ u.spawned = s.spawned
        /\ u.sigterm = s.sigterm /\ u.sigkill = s.sigkill /\ u.backoff = s.backoff
        /\ u.consecutiveCrashes = s.consecutiveCrashes
    BY <1>2, <1>4 DEF State
  <1> HIDE DEF u
  <1>6. DiedIn(s) \subseteq DiedIn(u) /\ Signalled(u) = Signalled(s)
    BY <1>4, <1>5 DEF DiedIn, Signalled
  <1>7. \A q \in Procs : u.os[q] = "gone" => q <= u.spawned
    BY <1>1, <1>2, <1>4, <1>5 DEF Sound, Honest, Counted, Procs, NoProc
  <1>8. CASE p # s.proc
    <2>1. u.consecutiveCrashes <= s.consecutiveCrashes
      BY <1>2, <1>5 DEF State
    <2>2. u.proc # NoProc => u.os[u.proc] # "gone"
      <3>1. u.proc \in Procs \cup {NoProc}
        BY <1>5 DEF State
      <3> QED
        BY <1>2, <1>4, <1>5, <1>8, <3>1 DEF Honest, Counted
    <2>3. Honest(u)
      BY <1>2, <1>5, <1>6, <1>7, <2>1, <2>2, StillHonest
    <2> QED
      BY <1>1, <1>5, <1>8, <2>3, BecomeHonest
  <1>9. CASE p = s.proc
    <2>1. p \notin Signalled(s)
      BY <1>2, <1>9 DEF Sound, Procs, NoProc
    <2>2. p \in DiedIn(u) /\ p \notin DiedIn(s)
      BY <1>1, <1>4, <1>5, <1>6, <2>1 DEF DiedIn
    <2>3. /\ Cardinality(DiedIn(s)) \in Nat /\ Cardinality(DiedIn(u)) \in Nat
          /\ Cardinality(DiedIn(s)) < Cardinality(DiedIn(u))
      BY <1>6, <2>2, DiedGrows
    <2>4. /\ u.consecutiveCrashes \in Nat /\ C = u.consecutiveCrashes + 1
          /\ B \in BOOLEAN /\ A \in BOOLEAN /\ CrashThreshold \in Nat
          /\ B <=> u.backoff \/ C >= CrashThreshold
      BY <1>5, PikeWorkerAssumption DEF State
    <2>a. C \in Nat
      BY <2>4
    <2>n. n = [u EXCEPT !.consecutiveCrashes = C, !.backoff = B]
      OBVIOUS
    <2> HIDE DEF B, C, A, n
    <2>5. /\ n \in State /\ n.proc = u.proc /\ n.spawned = u.spawned /\ n.os = u.os
          /\ n.sigterm = u.sigterm /\ n.sigkill = u.sigkill
          /\ n.consecutiveCrashes = C /\ n.backoff = B
      BY <1>5, <2>4, <2>a, <2>n DEF State
    <2>6. a \in State /\ Alike(a, u) /\ a.proc = u.proc
      BY <1>5, <2>4 DEF State, Alike
    <2> HIDE DEF a
    <2>7. /\ C <= Cardinality(DiedIn(u))
          /\ B => CrashThreshold <= Cardinality(DiedIn(u))
          /\ u.consecutiveCrashes <= Cardinality(DiedIn(u))
          /\ u.backoff => CrashThreshold <= Cardinality(DiedIn(u))
      BY <1>2, <1>5, <2>3, <2>4 DEF Honest, Counted
    <2>8. Counted(n) /\ Counted(a)
      BY <1>7, <2>5, <2>6, <2>7 DEF Counted, Alike, DiedIn, Signalled
    <2>9. AbandonWorker(t) \in State /\ Honest(AbandonWorker(t))
      BY <2>5, <2>6, <2>8, AbandonHonest
    <2> QED
      BY <1>1, <1>9, <2>9, BecomeHonest
  <1> QED
    BY <1>8, <1>9

\* A spawn that fails is not a crash.
LEMMA SpawnErrorHonest ==
  ASSUME CountInv, NEW p \in Procs, NEW permanent \in BOOLEAN, SpawnError(p, permanent)
  PROVE  Honest(Here)'
  <1> DEFINE s == Here
             O == [s.os EXCEPT ![p] = "gone"]
             P == [s.pipe EXCEPT ![p] = <<>>]
             u == [s EXCEPT !.os = O, !.pipe = P]
  <1>1. Become(IF p = s.proc THEN FailSpawn(u, permanent) ELSE u) /\ s.os[p] = "new"
    BY DEF SpawnError, Here
  <1>2. Sound(s) /\ s \in State /\ Honest(s)
    BY DEF CountInv, IInv, Invariant, Sound
  <1> HIDE DEF s
  <1>3. <<>> \in Seq(Ids \cup {Junk})
    OBVIOUS
  <1>4. /\ O \in [Procs -> Statuses] /\ P \in [Procs -> Seq(Ids \cup {Junk})] /\ O[p] = "gone"
        /\ \A q \in Procs : q # p => O[q] = s.os[q]
    BY <1>2, <1>3 DEF State, Statuses
  <1> HIDE DEF O, P
  <1>5. /\ u \in State /\ u.os = O /\ u.proc = s.proc /\ u.spawned = s.spawned
        /\ u.sigterm = s.sigterm /\ u.sigkill = s.sigkill /\ u.backoff = s.backoff
        /\ u.consecutiveCrashes = s.consecutiveCrashes
    BY <1>2, <1>4 DEF State
  <1> HIDE DEF u
  <1>6. DiedIn(s) \subseteq DiedIn(u)
    BY <1>4, <1>5 DEF DiedIn, Signalled
  <1>7. \A q \in Procs : u.os[q] = "gone" => q <= u.spawned
    BY <1>1, <1>2, <1>4, <1>5 DEF Sound, Honest, Counted, Procs, NoProc
  <1>8. Counted(u)
    <2>1. /\ Cardinality(DiedIn(s)) \in Nat /\ Cardinality(DiedIn(u)) \in Nat
          /\ Cardinality(DiedIn(s)) <= Cardinality(DiedIn(u))
      BY <1>6, DiedGrows
    <2>2. s.consecutiveCrashes \in Nat /\ CrashThreshold \in Nat
      BY <1>2, PikeWorkerAssumption DEF State
    <2> QED
      BY <1>2, <1>5, <1>7, <2>1, <2>2 DEF Honest, Counted
  <1>9. p # s.proc => Honest(u)
    <2>1. u.proc \in Procs \cup {NoProc}
      BY <1>5 DEF State
    <2> QED
      BY <1>2, <1>4, <1>5, <1>8, <2>1 DEF Honest
  <1> QED
    BY <1>1, <1>5, <1>8, <1>9, AbandonHonest, BecomeHonest

\* A new PikeWorker has counted nothing.
LEMMA InitHonest == Init => Honest(Here)
  <1> SUFFICES ASSUME Init PROVE Honest(Here)
    OBVIOUS
  <1>1. Cardinality(DiedIn(Here)) \in Nat
    BY DiedGrows
  <1> QED
    BY <1>1 DEF Init, Here, Honest, Counted

LEMMA NextHonest == CountInv /\ [Next]_vars => CountInv'
  <1> SUFFICES ASSUME CountInv, [Next]_vars PROVE CountInv'
    OBVIOUS
  <1>1. IInv'
    BY NextInv DEF CountInv
  <1>2. CASE UNCHANGED vars \/ \E i \in Ids : Cancel(i)
    <2>1. Here' = Here
      BY <1>2 DEF vars, Cancel, Here
    <2> QED
      BY <1>1, <2>1 DEF CountInv
  <1>3. CASE \E pr \in UsedPriorities, aged \in Ages, how1, how2 \in StartResults :
               Enqueue(pr, aged, how1, how2)
    <2>1. Ages \subseteq BOOLEAN
      BY DEF Ages
    <2> QED
      BY <1>1, <1>3, <2>1, EnqueueHonest DEF CountInv
  <1>4. CASE \E i \in Ids : Timeout(i)
    BY <1>1, <1>4, TimeoutHonest DEF CountInv
  <1>5. CASE \E x \in writes : WriteDone(x) \/ WriteFail(x)
    BY <1>1, <1>5, WriteHonest DEF CountInv
  <1>6. CASE \E p \in Procs :
               \/ Deliver(p)
               \/ \E how \in StartResults : DeliverJunk(p, how)
    BY <1>1, <1>6, DeliverHonest, DeliverJunkHonest DEF CountInv
  <1>7. CASE \E p \in Procs :
               \/ \E code \in ExitCodes, k \in 0..Len(pipe[p]) : Exit(p, code, k)
               \/ \E permanent \in BOOLEAN : SpawnError(p, permanent)
    BY <1>1, <1>7, ExitHonest, SpawnErrorHonest DEF CountInv
  <1>8. CASE \/ BackoffExpires
             \/ \E p \in Procs : GraceTimer(p) \/ Ready(p) \/ Garble(p)
    BY <1>1, <1>8, QuietHonest DEF CountInv
  <1>9. CASE IdleFire \/ StopWorker
    BY <1>1, <1>9, StopsHonest DEF CountInv
  <1> QED
    BY <1>2, <1>3, <1>4, <1>5, <1>6, <1>7, <1>8, <1>9 DEF Next

\* Whatever the children do and however late their exit is reported, the crash
\* counter counts only children that died by themselves, and a pause comes only
\* after CrashThreshold of them (pikeWorkerProcess.ts:157-185).
THEOREM OnlyCrashesAreCounted == Spec => []OnlyCrashesCount
  <1>1. Init => CountInv
    BY InitInv, InitHonest DEF CountInv
  <1>2. CountInv => OnlyCrashesCount
    <2>1. DiedByThemselves = DiedIn(Here)
      BY DEF DiedByThemselves, DiedIn, Signalled, Here
    <2> QED
      BY <2>1 DEF CountInv, Honest, Counted, OnlyCrashesCount, Here
  <1> QED
    BY <1>1, <1>2, NextHonest, PTL DEF Spec
===============================================================================
