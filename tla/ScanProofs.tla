------------------------------ MODULE ScanProofs ------------------------------
(*****************************************************************************)
(* Proofs about WorkspaceScan, for all files, texts, imports, batch sizes    *)
(* and numbers of queries at once.                                           *)
(*                                                                           *)
(* That a prepared index covers what was found is not inductive: it is what  *)
(* a scan leaves behind.  While a scan runs, what it has found has an entry, *)
(* is pending, or is in the batch and was not found missing; the entries it  *)
(* relies on are taken out only by what is not counted as found any more.    *)
(*****************************************************************************)
EXTENDS WorkspaceScan, WorkspaceIndexProofs, FiniteSetTheorems

\* What a scan has found is indexed or still to come.
Covered(scan, i) ==
  /\ scan.phase = "discover" => scan.found = {}
  /\ scan.phase = "yield" => scan.found \subseteq DOMAIN i.files \cup scan.pending
  /\ scan.phase = "read" =>
       scan.found \subseteq DOMAIN i.files \cup scan.pending \cup
         {f \in Range(scan.batch) : f \in DOMAIN scan.read => scan.read[f] # Gone}

ScanInv ==
  /\ TypeOK
  /\ \A s \in DOMAIN scans : Covered(scans[s], ix)
  /\ PreparedCoversFound

-------------------------------------------------------------------------------
(* Sequences and recursive functions. *)

\* An order of a finite set names each of its elements.
LEMMA OrdersCover ==
  ASSUME NEW S, IsFiniteSet(S), NEW order \in SetToSeqs(S)
  PROVE  order \in Seq(S) /\ Len(order) = Cardinality(S) /\ Range(order) = S
  <1> DEFINE n == Cardinality(S)
  <1>1. n \in Nat BY FS_CardinalityType
  <1>2. order \in [1..n -> S] /\ \A i, j \in 1..n : i # j => order[i] # order[j]
    BY DEF SetToSeqs
  <1>3. order \in Injection(1..n, S) BY <1>2 DEF Injection, IsInjective
  <1>4. IsFiniteSet(1..n) /\ Cardinality(1..n) = n BY <1>1, FS_Interval
  <1>5. order \in Surjection(1..n, S) BY <1>3, <1>4, FS_Injection
  <1>6. order \in Seq(S) /\ Len(order) = n BY <1>1, <1>2
  <1>7. Range(order) = S BY <1>2, <1>5 DEF Range, Surjection
  <1> QED BY <1>6, <1>7

-------------------------------------------------------------------------------
(* The methods of the index: which files have an entry. *)

LEMMA StaleDomain ==
  ASSUME NEW i, IsIndex(i), NEW origins, NEW reached
  PROVE  DOMAIN Stale(i, origins, reached).files = DOMAIN i.files
  BY DEF Stale, IsIndex

LEMMA RewireDomain ==
  ASSUME NEW i, IsIndex(i), NEW f
  PROVE  /\ IsIndex(RewireDependents(i, f))
         /\ DOMAIN RewireDependents(i, f).files = DOMAIN i.files
  <1> DEFINE origins == GetDependents(i, f) \cap DOMAIN i.files
             reached == UNION {Reached(i, g) : g \in origins}
  <1>1. RewireDependents(i, f) = Stale(i, origins, reached) BY DEF RewireDependents
  <1>2. IsIndex(RewireDependents(i, f)) BY RewireDependentsMoves DEF Moves
  <1> HIDE DEF origins, reached
  <1> QED BY <1>1, <1>2, StaleDomain

LEMMA InvalidateDomain ==
  ASSUME NEW i, IsIndex(i), NEW f
  PROVE  /\ IsIndex(InvalidateWithDependents(i, f))
         /\ DOMAIN InvalidateWithDependents(i, f).files = DOMAIN i.files
  BY InvalidateWithDependentsMoves, StaleDomain DEF Moves, InvalidateWithDependents

LEMMA BackgroundDomain ==
  ASSUME NEW i, IsIndex(i), NEW f \in Files, NEW v \in Nat, NEW t \in Texts, NEW warm,
         NEW j, j = UpsertBackgroundFile(i, f, v, t, warm)
  PROVE  IsIndex(j) /\ DOMAIN j.files = DOMAIN i.files \cup {f}
  <1> DEFINE rid == RemoveDependencies(i, f)
  <1>1. IsIndex(j) BY UpsertBackgroundFileMoves DEF Moves
  <1>2. rid.files = i.files /\ IsIndex(rid) BY RemoveDependenciesTyped
  <1>3. j = Put(rid, f, UnresolvedEntry(v, t, Wired(rid, f, t, warm)))
    BY DEF UpsertBackgroundFile
  <1> HIDE DEF rid
  <1> QED BY <1>1, <1>2, <1>3 DEF Put, IsIndex

LEMMA UpsertedDomain ==
  ASSUME NEW i, IsIndex(i), NEW f \in Files, NEW t \in Texts, NEW j, j = Upserted(i, f, t)
  PROVE  IsIndex(j) /\ DOMAIN j.files = DOMAIN i.files \cup {f}
  <1> DEFINE rid == RemoveDependencies(i, f)
             table == Wired(rid, f, t, Imports[<<f, t>>])
             e == FullEntry(0, t, table, Imports[<<f, t>>])
             p == Put(rid, f, e)
  <1>1. IsIndex(j) BY UpsertMoves DEF Upserted, Moves
  <1>2. IsIndex(rid) /\ rid.files = i.files BY RemoveDependenciesTyped
  <1>3. j = RegisterReverseDeps(p, f, Imports[<<f, t>>]) BY DEF Upserted, InstallFull
  <1> HIDE DEF rid, e
  <1>4. p.files = [g \in DOMAIN rid.files \cup {f} |-> IF g = f THEN e ELSE rid.files[g]]
    BY <1>2 DEF Put, IsIndex
  <1>5. p = [files |-> p.files, dependents |-> p.dependents]
    BY <1>2 DEF Put, IsIndex
  <1> HIDE DEF p
  <1>6. j.files = p.files BY <1>3, <1>5 DEF RegisterReverseDeps
  <1> QED BY <1>1, <1>2, <1>4, <1>6

LEMMA RemoveFileDomain ==
  ASSUME NEW i, IsIndex(i), NEW f \in Files
  PROVE  /\ IsIndex(RemoveFile(i, f))
         /\ DOMAIN RemoveFile(i, f).files = DOMAIN i.files \ {f}
  <1>1. IsIndex(RemoveFile(i, f)) BY RemoveFileMoves DEF Moves
  <1>2. DOMAIN RemoveFile(i, f).files = DOMAIN i.files \ {f} BY DEF RemoveFile, Has
  <1> QED BY <1>1, <1>2

LEMMA InvalidatedDomain ==
  ASSUME NEW i, IsIndex(i), NEW W, NEW j, j = Invalidated(i, W)
  PROVE  IsIndex(j) /\ DOMAIN j.files = DOMAIN i.files
  <1> DEFINE E(g) == IF g \in W THEN Invalidate(i, g).files[g] ELSE i.files[g]
             fs == [g \in DOMAIN i.files |-> E(g)]
  <1>1. ASSUME NEW g \in DOMAIN i.files PROVE E(g) \in Entry
    <2>1. i.files[g] \in Entry BY DEF IsIndex
    <2>2. CASE g \in W
      <3>1. Invalidate(i, g).files[g] = [i.files[g] EXCEPT !.table = NoTable, !.stale = TRUE]
        BY DEF Invalidate, Has, IsIndex
      <3> QED BY <2>1, <2>2, <3>1 DEF Entry, NoTable, Tables
    <2> QED BY <2>1, <2>2
  <1>2. fs = [g \in DOMAIN fs |-> fs[g]] /\ DOMAIN fs = DOMAIN i.files
        /\ \A g \in DOMAIN i.files : fs[g] = E(g)
    OBVIOUS
  <1>3. j = [i EXCEPT !.files = fs] BY DEF Invalidated
  <1> HIDE DEF E, fs
  <1> QED BY <1>1, <1>2, <1>3, EntriesTyped

-------------------------------------------------------------------------------
(* A batch. *)

\* What a batch makes of the index and of the files to be refreshed.
IsDone(done) ==
  done = [ix |-> done.ix, due |-> done.due] /\ IsIndex(done.ix) /\ done.due \subseteq Files

LEMMA OneOfBatch ==
  ASSUME NEW s, NEW warm, NEW done, IsDone(done), NEW f \in Files,
         scans[s].read[f] \in Texts \cup {Gone},
         NEW end, end = UpsertParsed(s, warm, done, f)
  PROVE  /\ IsDone(end) /\ DOMAIN done.ix.files \subseteq DOMAIN end.ix.files
         /\ scans[s].read[f] # Gone => f \in DOMAIN end.ix.files
  <1> DEFINE t == scans[s].read[f]
             j == UpsertBackgroundFile(done.ix, f, 0, t, {d \in Files : <<f, d>> \in warm})
  <1>1. CASE t = Gone BY <1>1 DEF UpsertParsed
  <1>2. CASE t # Gone
    <2>1. IsIndex(j) /\ DOMAIN j.files = DOMAIN done.ix.files \cup {f}
      BY <1>2, BackgroundDomain DEF IsDone
    <2>2. end = IF s = 0 THEN [ix |-> RewireDependents(j, f), due |-> done.due \cup GetDependents(j, f)]
                ELSE [ix |-> j, due |-> done.due]
      BY <1>2 DEF UpsertParsed, FileIndexed
    <2>3. GetDependents(j, f) \subseteq Files BY DEF GetDependents
    <2> HIDE DEF j
    <2>4. /\ IsIndex(RewireDependents(j, f))
          /\ DOMAIN RewireDependents(j, f).files = DOMAIN j.files
      BY <2>1, RewireDomain
    <2> QED BY <2>1, <2>2, <2>3, <2>4 DEF IsDone
  <1> QED BY <1>1, <1>2

\* `after` is what the batch has made of `start`, file after file.
RunsOver(after, s, warm, batch, start, m) ==
  after = [n \in 0..m |-> IF n = 0 THEN start
                          ELSE UpsertParsed(s, warm, after[n - 1], batch[n])]

LEMMA RunExists ==
  ASSUME NEW s, NEW warm, NEW batch, NEW start, NEW m \in Nat
  PROVE  \E after : RunsOver(after, s, warm, batch, start, m)
  <1> DEFINE D == {n \in Nat : ~\E g : RunsOver(g, s, warm, batch, start, n)}
  <1> SUFFICES ASSUME D # {} PROVE FALSE
    OBVIOUS
  <1>1. PICK k \in D : \A n \in D : k <= n
    <2> HIDE DEF D
    <2>1. D \subseteq Nat BY DEF D
    <2> QED BY <2>1, LeastNatural
  <1>2. CASE k = 0
    <2> DEFINE g == [n \in 0..0 |-> start]
    <2>1. g = [n \in 0..0 |-> IF n = 0 THEN start
                              ELSE UpsertParsed(s, warm, g[n - 1], batch[n])]
      OBVIOUS
    <2> HIDE DEF g
    <2> QED BY <1>1, <1>2, <2>1 DEF RunsOver
  <1>3. CASE k # 0
    <2>1. k \in Nat /\ k - 1 \in Nat /\ k - 1 \notin D BY <1>1, <1>3
    <2>2. PICK g : RunsOver(g, s, warm, batch, start, k - 1) BY <2>1
    <2> DEFINE h == [n \in 0..k |-> IF n = k THEN UpsertParsed(s, warm, g[k - 1], batch[k]) ELSE g[n]]
    <2>3. ASSUME NEW n \in 0..k
          PROVE  h[n] = IF n = 0 THEN start ELSE UpsertParsed(s, warm, h[n - 1], batch[n])
      <3>1. CASE n = k
        <4>1. k - 1 \in 0..k /\ k - 1 # k BY <2>1
        <4> QED BY <1>3, <3>1, <4>1
      <3>2. CASE n # k
        <4>1. n \in 0..(k - 1) /\ h[n] = g[n] BY <2>1, <3>2
        <4>2. g[n] = IF n = 0 THEN start ELSE UpsertParsed(s, warm, g[n - 1], batch[n])
          BY <2>2, <4>1 DEF RunsOver
        <4>3. n # 0 => n - 1 \in 0..k /\ n - 1 # k BY <2>1, <3>2
        <4> QED BY <4>1, <4>2, <4>3
      <3> QED BY <3>1, <3>2
    <2>4. h = [n \in 0..k |-> h[n]] OBVIOUS
    <2> HIDE DEF h
    <2>5. RunsOver(h, s, warm, batch, start, k) BY <2>3, <2>4 DEF RunsOver
    <2> QED BY <1>1, <2>5
  <1> QED BY <1>2, <1>3

\* Every file of the batch that was read has an entry in the end.
LEMMA BatchCovers ==
  ASSUME NEW s, NEW warm, NEW batch \in Seq(Files), NEW start, IsDone(start),
         \A f \in Range(batch) : scans[s].read[f] \in Texts \cup {Gone},
         NEW after, RunsOver(after, s, warm, batch, start, Len(batch))
  PROVE  LET end == after[Len(batch)]
         IN  /\ IsDone(end) /\ DOMAIN start.ix.files \subseteq DOMAIN end.ix.files
             /\ \A f \in Range(batch) : scans[s].read[f] # Gone => f \in DOMAIN end.ix.files
  <1> DEFINE m == Len(batch)
             Good(n) == /\ IsDone(after[n])
                        /\ DOMAIN start.ix.files \subseteq DOMAIN after[n].ix.files
                        /\ \A k \in 1..n : scans[s].read[batch[k]] # Gone
                                             => batch[k] \in DOMAIN after[n].ix.files
             D == {n \in 0..m : ~Good(n)}
  <1>1. m \in Nat /\ \A k \in 1..m : batch[k] \in Files /\ batch[k] \in Range(batch)
    BY DEF Range
  <1>2. Good(m)
    <2> SUFFICES ASSUME D # {} PROVE FALSE BY <1>1
    <2>1. PICK k \in D : \A n \in D : k <= n
      <3>1. D \subseteq Nat OBVIOUS
      <3> HIDE DEF D
      <3> QED BY <3>1, LeastNatural
    <2>2. CASE k = 0
      <3>1. after[0] = start BY <1>1 DEF RunsOver
      <3> QED BY <2>1, <2>2, <3>1
    <2>3. CASE k # 0
      <3>1. k \in 1..m /\ k - 1 \in 0..m /\ k - 1 \notin D BY <1>1, <2>1, <2>3
      <3>2. Good(k - 1) BY <3>1
      <3>3. after[k] = UpsertParsed(s, warm, after[k - 1], batch[k])
        BY <3>1, <2>3 DEF RunsOver
      <3>4. /\ IsDone(after[k])
            /\ DOMAIN after[k - 1].ix.files \subseteq DOMAIN after[k].ix.files
            /\ scans[s].read[batch[k]] # Gone => batch[k] \in DOMAIN after[k].ix.files
        <4>1. IsDone(after[k - 1]) BY <3>2
        <4>2. batch[k] \in Files /\ scans[s].read[batch[k]] \in Texts \cup {Gone}
          BY <1>1, <3>1
        <4> HIDE DEF Good, D, m
        <4> DEFINE done == after[k - 1]  end == after[k]  f == batch[k]
        <4>3. IsDone(done) /\ f \in Files /\ scans[s].read[f] \in Texts \cup {Gone}
              /\ end = UpsertParsed(s, warm, done, f)
          BY <3>3, <4>1, <4>2
        <4> HIDE DEF done, end, f
        <4>4. /\ IsDone(end) /\ DOMAIN done.ix.files \subseteq DOMAIN end.ix.files
              /\ scans[s].read[f] # Gone => f \in DOMAIN end.ix.files
          BY <4>3, OneOfBatch
        <4> QED BY <4>4 DEF done, end, f
      <3>5. \A l \in 1..k : l = k \/ l \in 1..(k - 1) BY <3>1
      <3>6. Good(k) BY <3>2, <3>4, <3>5
      <3> QED BY <2>1, <3>6
    <2> QED BY <2>2, <2>3
  <1>3. \A f \in Range(batch) : \E k \in 1..m : f = batch[k] BY DEF Range
  <1> QED BY <1>2, <1>3

-------------------------------------------------------------------------------
(* What a step has to show. *)

\* A scan with some of its fields changed.
LEMMA BatchTaken ==
  ASSUME NEW scan, IsScan(scan), NEW q, NEW b, NEW r,
         NEW n, n = [scan EXCEPT !.phase = "read", !.pending = q, !.batch = b, !.read = r]
  PROVE  n = [phase |-> "read", found |-> scan.found, pending |-> q, batch |-> b, read |-> r,
              cancelled |-> scan.cancelled]
  BY DEF IsScan

LEMMA BatchDone ==
  ASSUME NEW scan, IsScan(scan), NEW b, NEW r,
         NEW n, n = [scan EXCEPT !.phase = "yield", !.batch = b, !.read = r]
  PROVE  n = [phase |-> "yield", found |-> scan.found, pending |-> scan.pending, batch |-> b,
              read |-> r, cancelled |-> scan.cancelled]
  BY DEF IsScan

LEMMA FilesFound ==
  ASSUME NEW scan, IsScan(scan), NEW f,
         NEW n, n = [scan EXCEPT !.phase = "filter", !.found = f]
  PROVE  n = [phase |-> "filter", found |-> f, pending |-> scan.pending, batch |-> scan.batch,
              read |-> scan.read, cancelled |-> scan.cancelled]
  BY DEF IsScan

LEMMA FileRead ==
  ASSUME NEW scan, IsScan(scan), NEW f, NEW r, NEW n, n = [scan EXCEPT !.read = r, !.found = f]
  PROVE  n = [phase |-> scan.phase, found |-> f, pending |-> scan.pending,
              batch |-> scan.batch, read |-> r, cancelled |-> scan.cancelled]
  BY DEF IsScan

LEMMA ScanCancelled ==
  ASSUME NEW scan, IsScan(scan), NEW n, n = [scan EXCEPT !.cancelled = TRUE]
  PROVE  n = [phase |-> scan.phase, found |-> scan.found, pending |-> scan.pending,
              batch |-> scan.batch, read |-> scan.read, cancelled |-> TRUE]
  BY DEF IsScan

\* The variables beside the index and the scans.
RestTyped ==
  /\ disk \in [Files -> Texts \cup {Gone}] /\ notices \subseteq Files
  /\ buffer \in [Files -> Texts \cup {Closed}]
  /\ prepared \in BOOLEAN /\ owed \subseteq Files
  /\ \A task \in tasks : task \in Task
  /\ refresh \in [due : SUBSET Files, armed : BOOLEAN]
  /\ memory \in [usage : {"low", "between", "high"}, degraded : BOOLEAN,
                 state : {"active", "degraded"}]
  /\ events \in 0..MaxEvents

LEMMA TypeParts ==
  TypeOK <=> /\ RestTyped /\ IsIndex(ix)
             /\ DOMAIN scans \subseteq Slots \cup {0} /\ \A s \in DOMAIN scans : IsScan(scans[s])
  BY DEF TypeOK, RestTyped

LEMMA EventTyped ==
  ASSUME events \in 0..MaxEvents, NEW kind, Event(kind)
  PROVE  events' \in 0..MaxEvents
  BY ScanAssumption DEF Event

\* Entries are added or rewritten, but none is removed.
LEMMA IndexGrows ==
  ASSUME ScanInv, RestTyped', IsIndex(ix'), DOMAIN ix.files \subseteq DOMAIN ix'.files,
         UNCHANGED <<scans, owed>>, prepared' \in {prepared, FALSE}
  PROVE  ScanInv'
  <1>1. TypeOK' BY TypeParts DEF ScanInv, TypeOK, RestTyped
  <1>2. \A s \in DOMAIN scans' : Covered(scans'[s], ix') BY DEF ScanInv, Covered
  <1>3. PreparedCoversFound' BY DEF ScanInv, PreparedCoversFound
  <1> QED BY <1>1, <1>2, <1>3 DEF ScanInv

\* What is removed is found no more.
LEMMA IndexForgets ==
  ASSUME ScanInv, RestTyped', NEW fs, Forgotten(fs), IsIndex(ix'),
         DOMAIN ix.files \ fs \subseteq DOMAIN ix'.files, prepared' \in {prepared, FALSE}
  PROVE  ScanInv'
  <1>1. DOMAIN scans' = DOMAIN scans BY DEF Forgotten
  <1>2. ASSUME NEW s \in DOMAIN scans
        PROVE  IsScan(scans'[s]) /\ Covered(scans'[s], ix')
    <2>1. scans'[s] = [scans[s] EXCEPT !.found = @ \ fs] BY DEF Forgotten
    <2>2. IsScan(scans[s]) /\ Covered(scans[s], ix) BY DEF ScanInv, TypeOK
    <2> DEFINE scan == scans[s]  n == scans'[s]
    <2>3. n = [phase |-> scan.phase, found |-> scan.found \ fs, pending |-> scan.pending,
               batch |-> scan.batch, read |-> scan.read, cancelled |-> scan.cancelled]
      BY <2>1, <2>2 DEF IsScan
    <2>4. IsScan(n)
      <3> HIDE DEF n
      <3> QED BY <2>2, <2>3 DEF IsScan
    <2>5. Covered(n, ix')
      <3> HIDE DEF n
      <3> QED BY <2>2, <2>3 DEF Covered
    <2> QED BY <2>4, <2>5
  <1>3. TypeOK' BY <1>1, <1>2 DEF ScanInv, TypeOK, RestTyped
  <1>4. PreparedCoversFound' BY DEF ScanInv, PreparedCoversFound, Forgotten
  <1> QED BY <1>1, <1>2, <1>3, <1>4 DEF ScanInv

\* A scan goes on, or another one starts.
LEMMA ScanGoesOn ==
  ASSUME ScanInv, RestTyped', IsIndex(ix'), DOMAIN ix.files \subseteq DOMAIN ix'.files,
         NEW s \in Slots \cup {0}, NEW n, IsScan(n), Covered(n, ix'),
         scans' = [r \in DOMAIN scans \cup {s} |-> IF r = s THEN n ELSE scans[r]],
         UNCHANGED <<prepared, owed>>
  PROVE  ScanInv'
  <1>1. \A r \in DOMAIN scans : IsScan(scans[r]) /\ Covered(scans[r], ix')
    BY DEF ScanInv, TypeOK, Covered
  <1>2. /\ DOMAIN scans' \subseteq Slots \cup {0}
        /\ \A r \in DOMAIN scans' : IsScan(scans'[r]) /\ Covered(scans'[r], ix')
    BY <1>1 DEF ScanInv, TypeOK
  <1>3. TypeOK' BY <1>2 DEF TypeOK, RestTyped
  <1>4. PreparedCoversFound' BY DEF ScanInv, PreparedCoversFound
  <1> QED BY <1>2, <1>3, <1>4 DEF ScanInv

LEMMA Becoming ==
  ASSUME NEW s \in DOMAIN scans, NEW n, Becomes(s, n)
  PROVE  scans' = [r \in DOMAIN scans \cup {s} |-> IF r = s THEN n ELSE scans[r]]
  BY DEF Becomes

\* A scan ends, and what it has found is there or it was cancelled.
LEMMA ScanEnds ==
  ASSUME ScanInv, NEW s \in DOMAIN scans, Ended(s), Marked(s, scans[s]),
         ~scans[s].cancelled => scans[s].found \subseteq DOMAIN ix.files,
         UNCHANGED <<disk, notices, buffer, ix, tasks, refresh, memory>>,
         events' \in 0..MaxEvents
  PROVE  ScanInv'
  <1>1. IsScan(scans[s]) BY DEF ScanInv, TypeOK
  <1>2. RestTyped' BY <1>1 DEF ScanInv, TypeOK, RestTyped, Marked, IsScan
  <1>3. /\ DOMAIN scans' \subseteq DOMAIN scans
        /\ \A r \in DOMAIN scans' : scans'[r] = scans[r]
    BY DEF Ended
  <1>4. TypeOK' BY <1>2, <1>3 DEF ScanInv, TypeOK, RestTyped
  <1>5. \A r \in DOMAIN scans' : Covered(scans'[r], ix') BY <1>3 DEF ScanInv
  <1>6. PreparedCoversFound' BY DEF ScanInv, PreparedCoversFound, Marked
  <1> QED BY <1>4, <1>5, <1>6 DEF ScanInv

-------------------------------------------------------------------------------
(* The steps of a scan. *)

LEMMA NextBatchInv ==
  ASSUME ScanInv, NEW s \in DOMAIN scans, NEW pending \in SUBSET Files,
         scans[s].found \subseteq DOMAIN ix.files \cup pending,
         NextBatch(s, pending),
         UNCHANGED <<disk, notices, buffer, ix, tasks, refresh, memory, events>>
  PROVE  ScanInv'
  <1>0. IsScan(scans[s]) /\ RestTyped /\ IsIndex(ix) /\ s \in Slots \cup {0}
    BY TypeParts DEF ScanInv
  <1>1. CASE pending = {} \/ scans[s].cancelled
    BY <1>0, <1>1, ScanEnds DEF NextBatch, RestTyped
  <1>2. CASE ~(pending = {} \/ scans[s].cancelled)
    <2>1. PICK batch \in SUBSET pending :
            /\ Cardinality(batch) = IF Cardinality(pending) < BatchSize
                                    THEN Cardinality(pending) ELSE BatchSize
            /\ \E order \in SetToSeqs(batch) :
                 Becomes(s, [scans[s] EXCEPT !.phase = "read", !.pending = pending \ batch,
                                             !.batch = order, !.read = NoFiles])
      BY <1>2 DEF NextBatch
    <2>2. PICK order \in SetToSeqs(batch) :
            Becomes(s, [scans[s] EXCEPT !.phase = "read", !.pending = pending \ batch,
                                        !.batch = order, !.read = NoFiles])
      BY <2>1
    <2>3. IsFiniteSet(pending) /\ IsFiniteSet(batch) BY ScanAssumption, FS_Subset
    <2>4. order \in Seq(batch) /\ Len(order) = Cardinality(batch) /\ Range(order) = batch
      BY <2>3, OrdersCover
    <2>5. Len(order) <= BatchSize
      <3>1. Cardinality(pending) \in Nat /\ BatchSize \in Nat
        BY <2>3, FS_CardinalityType, ScanAssumption
      <3> QED BY <2>1, <2>4, <3>1
    <2> DEFINE scan == scans[s]
               n == [scan EXCEPT !.phase = "read", !.pending = pending \ batch,
                                 !.batch = order, !.read = NoFiles]
    <2>6. n = [phase |-> "read", found |-> scan.found, pending |-> pending \ batch,
               batch |-> order, read |-> NoFiles, cancelled |-> scan.cancelled]
      <3>1. IsScan(scan) BY <1>0
      <3> HIDE DEF scan
      <3> DEFINE q == pending \ batch
      <3>2. n = [scan EXCEPT !.phase = "read", !.pending = q, !.batch = order, !.read = NoFiles]
        OBVIOUS
      <3> HIDE DEF n, q
      <3>3. n = [phase |-> "read", found |-> scan.found, pending |-> q, batch |-> order,
                 read |-> NoFiles, cancelled |-> scan.cancelled]
        BY <3>1, <3>2, BatchTaken
      <3> QED BY <3>3 DEF q
    <2>7. order \in Seq(Files) BY <2>4
    <2>8. Becomes(s, n) BY <2>2
    <2> HIDE DEF n
    <2>9. DOMAIN NoFiles = {} BY DEF NoFiles
    <2>10. IsScan(n) BY <1>0, <2>5, <2>6, <2>7, <2>9 DEF IsScan, Phases
    <2>11. Covered(n, ix) BY <2>4, <2>6, <2>9 DEF Covered
    <2>12. UNCHANGED <<prepared, owed>> BY <1>2 DEF NextBatch
    <2>13. RestTyped' BY <1>0, <2>12 DEF RestTyped
    <2>14. scans' = [r \in DOMAIN scans \cup {s} |-> IF r = s THEN n ELSE scans[r]]
      BY <2>8, Becoming
    <2> QED BY <1>0, <2>10, <2>11, <2>12, <2>13, <2>14, ScanGoesOn
  <1> QED BY <1>1, <1>2

LEMMA QueryStartsInv == ASSUME ScanInv, NEW s \in Slots, QueryStarts(s) PROVE ScanInv'
  <1>1. IsScan(NewScan) /\ Covered(NewScan, ix)
    BY ScanAssumption DEF NewScan, IsScan, Phases, Covered, NoFiles
  <1>2. RestTyped' BY EventTyped DEF QueryStarts, ScanInv, TypeOK, RestTyped, Rest
  <1>3. IsIndex(ix) BY DEF ScanInv, TypeOK
  <1> QED BY <1>1, <1>2, <1>3, ScanGoesOn DEF QueryStarts

LEMMA QueryCancelledInv == ASSUME ScanInv, NEW s \in Slots, QueryCancelled(s) PROVE ScanInv'
  <1> DEFINE scan == scans[s]  n == [scan EXCEPT !.cancelled = TRUE]
  <1>1. s \in DOMAIN scans /\ IsScan(scan) /\ Covered(scan, ix) /\ IsIndex(ix)
    BY DEF QueryCancelled, ScanInv, TypeOK
  <1>2. n = [phase |-> scan.phase, found |-> scan.found, pending |-> scan.pending,
             batch |-> scan.batch, read |-> scan.read, cancelled |-> TRUE]
    BY <1>1, ScanCancelled
  <1>3. Becomes(s, n) BY DEF QueryCancelled
  <1> HIDE DEF n
  <1>4. IsScan(n) BY <1>1, <1>2 DEF IsScan
  <1>5. Covered(n, ix) BY <1>1, <1>2 DEF Covered
  <1>6. RestTyped' BY EventTyped DEF QueryCancelled, ScanInv, TypeOK, RestTyped, Rest
  <1>7. scans' = [r \in DOMAIN scans \cup {s} |-> IF r = s THEN n ELSE scans[r]]
    BY <1>1, <1>3, Becoming
  <1> QED BY <1>1, <1>4, <1>5, <1>6, <1>7, ScanGoesOn DEF QueryCancelled

LEMMA DiscoversInv == ASSUME ScanInv, NEW s \in Slots \cup {0}, Discovers(s) PROVE ScanInv'
  <1> DEFINE there == {f \in Files : disk[f] # Gone}
  <1>1. PICK files \in SUBSET there :
          /\ \/ files = there /\ UNCHANGED events
             \/ files # there /\ Event("unreadable")
          /\ IF files = {}
             THEN Ended(s) /\ Marked(s, scans[s])
             ELSE /\ Becomes(s, [scans[s] EXCEPT !.phase = "filter", !.found = files])
                  /\ UNCHANGED <<prepared, owed>>
    BY DEF Discovers
  <1>2. /\ s \in DOMAIN scans /\ IsScan(scans[s]) /\ Covered(scans[s], ix) /\ IsIndex(ix)
        /\ RestTyped /\ scans[s].phase = "discover"
    BY TypeParts DEF Discovers, In, ScanInv
  <1>3. events' \in 0..MaxEvents BY <1>1, <1>2, EventTyped DEF RestTyped
  <1>4. UNCHANGED <<disk, notices, buffer, ix, tasks, refresh, memory>> BY DEF Discovers, Rest
  <1>5. CASE files = {}
    <2>1. scans[s].found \subseteq DOMAIN ix.files BY <1>2 DEF Covered
    <2> QED BY <1>1, <1>2, <1>3, <1>4, <1>5, <2>1, ScanEnds
  <1>6. CASE files # {}
    <2> DEFINE scan == scans[s]  n == [scan EXCEPT !.phase = "filter", !.found = files]
    <2>1. n = [phase |-> "filter", found |-> files, pending |-> scan.pending,
               batch |-> scan.batch, read |-> scan.read, cancelled |-> scan.cancelled]
      BY <1>2, FilesFound
    <2>2. Becomes(s, n) /\ UNCHANGED <<prepared, owed>> BY <1>1, <1>6
    <2> HIDE DEF n
    <2>3. IsScan(n) BY <1>2, <2>1 DEF IsScan, Phases
    <2>4. Covered(n, ix) BY <2>1 DEF Covered
    <2>5. RestTyped' BY <1>2, <1>3, <1>4, <2>2 DEF RestTyped
    <2>6. scans' = [r \in DOMAIN scans \cup {s} |-> IF r = s THEN n ELSE scans[r]]
      BY <1>2, <2>2, Becoming
    <2> QED BY <1>2, <1>4, <2>2, <2>3, <2>4, <2>5, <2>6, ScanGoesOn
  <1> QED BY <1>5, <1>6

LEMMA FiltersInv == ASSUME ScanInv, NEW s \in Slots \cup {0}, Filters(s) PROVE ScanInv'
  <1>1. s \in DOMAIN scans /\ IsScan(scans[s]) BY DEF Filters, In, ScanInv, TypeOK
  <1> DEFINE pending == {f \in scans[s].found : ~Has(ix, f)}
  <1>2. pending \in SUBSET Files /\ scans[s].found \subseteq DOMAIN ix.files \cup pending
    BY <1>1 DEF IsScan, Has
  <1>3. NextBatch(s, pending)
        /\ UNCHANGED <<disk, notices, buffer, ix, tasks, refresh, memory, events>>
    BY DEF Filters, Rest
  <1> HIDE DEF pending
  <1> QED BY <1>1, <1>2, <1>3, NextBatchInv

LEMMA YieldsInv == ASSUME ScanInv, NEW s \in Slots \cup {0}, Yields(s) PROVE ScanInv'
  <1>1. s \in DOMAIN scans /\ IsScan(scans[s]) /\ Covered(scans[s], ix)
        /\ scans[s].phase = "yield"
    BY DEF Yields, In, ScanInv, TypeOK
  <1> DEFINE pending == scans[s].pending
  <1>2. pending \in SUBSET Files BY <1>1 DEF IsScan
  <1>3. NextBatch(s, pending)
        /\ UNCHANGED <<disk, notices, buffer, ix, tasks, refresh, memory, events>>
    BY DEF Yields, Rest
  <1>4. scans[s].found \subseteq DOMAIN ix.files \cup pending
    BY <1>1 DEF Covered
  <1> HIDE DEF pending
  <1> QED BY <1>1, <1>2, <1>3, <1>4, NextBatchInv

LEMMA ReadsInv == ASSUME ScanInv, NEW s \in Slots \cup {0}, NEW f \in Files, Reads(s, f) PROVE ScanInv'
  <1> DEFINE scan == scans[s]
  <1>1. /\ s \in DOMAIN scans /\ IsScan(scan) /\ Covered(scan, ix) /\ IsIndex(ix) /\ RestTyped
        /\ scan.phase = "read" /\ f \in Range(scan.batch) /\ f \notin DOMAIN scan.read
    BY TypeParts DEF Reads, In, ScanInv
  <1>2. PICK text \in {disk[f], Gone} :
          /\ \/ text = disk[f] /\ UNCHANGED events
             \/ text # disk[f] /\ Event("unreadable")
          /\ Becomes(s, [scans[s] EXCEPT
               !.read = [g \in DOMAIN @ \cup {f} |-> IF g = f THEN text ELSE @[g]],
               !.found = IF text = Gone THEN @ \ {f} ELSE @])
    BY DEF Reads
  <1> DEFINE read == [g \in DOMAIN scan.read \cup {f} |-> IF g = f THEN text ELSE scan.read[g]]
             found == IF text = Gone THEN scan.found \ {f} ELSE scan.found
             n == [scan EXCEPT !.read = read, !.found = found]
  <1>3. Becomes(s, n) BY <1>2
  <1>4. /\ DOMAIN read = DOMAIN scan.read \cup {f} /\ read[f] = text
        /\ \A g \in DOMAIN scan.read : read[g] = scan.read[g]
    BY <1>1
  <1>5. text \in Texts \cup {Gone} BY <1>1, <1>2 DEF RestTyped
  <1> HIDE DEF read, found
  <1>6. n = [phase |-> scan.phase, found |-> found, pending |-> scan.pending,
             batch |-> scan.batch, read |-> read, cancelled |-> scan.cancelled]
    <2> HIDE DEF scan
    <2> QED BY <1>1, FileRead
  <1> HIDE DEF n
  <1>7. found \subseteq scan.found /\ (text = Gone => f \notin found) BY DEF found
  <1>8. IsScan(n) BY <1>1, <1>4, <1>5, <1>6, <1>7 DEF IsScan
  <1>9. Covered(n, ix) BY <1>1, <1>4, <1>6, <1>7 DEF Covered
  <1>10. UNCHANGED <<disk, notices, buffer, ix, prepared, owed, tasks, refresh, memory>>
    BY DEF Reads, Rest
  <1>11. RestTyped' BY <1>1, <1>2, <1>10, EventTyped DEF RestTyped
  <1>12. scans' = [r \in DOMAIN scans \cup {s} |-> IF r = s THEN n ELSE scans[r]]
    BY <1>1, <1>3, Becoming
  <1> QED BY <1>1, <1>8, <1>9, <1>10, <1>11, <1>12, ScanGoesOn

LEMMA UpsertsInv == ASSUME ScanInv, NEW s \in Slots \cup {0}, Upserts(s) PROVE ScanInv'
  <1> DEFINE scan == scans[s]  read == scan.read  batch == scan.batch  m == Len(batch)
             start == [ix |-> ix, due |-> refresh.due]
  <1>1. /\ s \in DOMAIN scans /\ IsScan(scan) /\ Covered(scan, ix) /\ IsIndex(ix) /\ RestTyped
        /\ scan.phase = "read" /\ DOMAIN read = Range(batch)
    BY TypeParts DEF Upserts, In, ScanInv
  <1>2. PICK warm :
          LET after[n \in 0..m] ==
                IF n = 0 THEN start ELSE UpsertParsed(s, warm, after[n - 1], batch[n])
              end == after[m]
          IN  /\ ix' = end.ix
              /\ refresh' = [due |-> end.due, armed |-> refresh.armed \/ end.due # {}]
    BY DEF Upserts
  <1> DEFINE after[n \in 0..m] ==
               IF n = 0 THEN start ELSE UpsertParsed(s, warm, after[n - 1], batch[n])
             end == after[m]
  <1>3. /\ ix' = end.ix
        /\ refresh' = [due |-> end.due, armed |-> refresh.armed \/ end.due # {}]
    BY <1>2
  <1>4. RunsOver(after, s, warm, batch, start, m)
    <2>1. m \in Nat BY <1>1 DEF IsScan
    <2>2. \E g : g = [n \in 0..m |-> IF n = 0 THEN start
                                     ELSE UpsertParsed(s, warm, g[n - 1], batch[n])]
      <3> HIDE DEF m, start, batch
      <3>1. \E g : RunsOver(g, s, warm, batch, start, m) BY <2>1, RunExists
      <3> QED BY <3>1 DEF RunsOver
    <2>3. after = [n \in 0..m |-> IF n = 0 THEN start
                                  ELSE UpsertParsed(s, warm, after[n - 1], batch[n])]
      BY <2>2
    <2> QED BY <2>3 DEF RunsOver
  <1>5. /\ batch \in Seq(Files) /\ IsDone(start)
        /\ \A f \in Range(batch) : scans[s].read[f] \in Texts \cup {Gone}
    BY <1>1 DEF IsScan, IsDone, RestTyped
  <1> HIDE DEF after
  <1>6. /\ IsDone(end) /\ DOMAIN start.ix.files \subseteq DOMAIN end.ix.files
        /\ \A f \in Range(batch) : scans[s].read[f] # Gone => f \in DOMAIN end.ix.files
    <2> HIDE DEF start, batch
    <2> QED BY <1>4, <1>5, BatchCovers
  <1>7. /\ IsIndex(ix') /\ DOMAIN ix.files \subseteq DOMAIN ix'.files
        /\ \A f \in Range(batch) : read[f] # Gone => f \in DOMAIN ix'.files
        /\ refresh' \in [due : SUBSET Files, armed : BOOLEAN]
    BY <1>1, <1>3, <1>6 DEF IsDone, RestTyped
  <1> HIDE DEF end
  <1> DEFINE n == [scan EXCEPT !.phase = "yield", !.batch = <<>>, !.read = NoFiles]
  <1>8. Becomes(s, n) /\ UNCHANGED <<disk, notices, buffer, prepared, owed, tasks, memory, events>>
    BY DEF Upserts, Rest
  <1>9. n = [phase |-> "yield", found |-> scan.found, pending |-> scan.pending, batch |-> <<>>,
             read |-> NoFiles, cancelled |-> scan.cancelled]
    <2> HIDE DEF scan
    <2> QED BY <1>1, BatchDone
  <1> HIDE DEF n
  <1>10. IsScan(n) BY <1>1, <1>9, ScanAssumption DEF IsScan, Phases, NoFiles
  <1>11. Covered(n, ix') BY <1>1, <1>7, <1>9 DEF Covered
  <1>12. RestTyped' BY <1>1, <1>7, <1>8 DEF RestTyped
  <1>13. scans' = [r \in DOMAIN scans \cup {s} |-> IF r = s THEN n ELSE scans[r]]
    BY <1>1, <1>8, Becoming
  <1> QED BY <1>7, <1>8, <1>10, <1>11, <1>12, <1>13, ScanGoesOn

-------------------------------------------------------------------------------
(* What else happens. *)

LEMMA OpenInv == ASSUME ScanInv, NEW f \in Files, Open(f) PROVE ScanInv'
  <1>1. RestTyped /\ IsIndex(ix) BY TypeParts DEF ScanInv
  <1>2. /\ IsIndex(ix') /\ DOMAIN ix'.files = DOMAIN ix.files
    BY <1>1, InvalidateDomain DEF Open
  <1>3. [by |-> "open", file |-> f, text |-> disk[f], dependents |-> {}] \in Task
    BY <1>1 DEF Open, RestTyped, Task
  <1>4. RestTyped' BY <1>1, <1>3, EventTyped DEF Open, RestTyped
  <1> QED BY <1>2, <1>4, IndexGrows DEF Open

LEMMA CloseInv == ASSUME ScanInv, NEW f \in Files, Close(f) PROVE ScanInv'
  <1>1. RestTyped /\ IsIndex(ix) BY TypeParts DEF ScanInv
  <1>2. IsIndex(ix') /\ DOMAIN ix'.files = DOMAIN ix.files \ {f}
    BY <1>1, RemoveFileDomain DEF Close
  <1>3. RestTyped' BY <1>1, EventTyped DEF Close, RestTyped, Forgotten
  <1> QED BY <1>2, <1>3, IndexForgets DEF Close

LEMMA WatchInv == ASSUME ScanInv, NEW f \in Files, Watch(f) PROVE ScanInv'
  <1>1. RestTyped /\ IsIndex(ix) BY TypeParts DEF ScanInv
  <1>2. /\ IsIndex(RemoveFile(ix, f))
        /\ DOMAIN RemoveFile(ix, f).files = DOMAIN ix.files \ {f}
    BY <1>1, RemoveFileDomain
  <1>3. IsIndex(ix') /\ DOMAIN ix'.files = DOMAIN ix.files \ {f}
    BY <1>2, InvalidatedDomain DEF Watch
  <1>4. [by |-> "watch", file |-> f, text |-> Gone, dependents |-> GetDependents(ix, f)] \in Task
    BY DEF Task, GetDependents
  <1>5. \A task \in tasks' : task \in Task BY <1>1, <1>4 DEF Watch, RestTyped
  <1>6. RestTyped' BY <1>1, <1>5 DEF Watch, RestTyped, Forgotten
  <1> QED BY <1>3, <1>6, IndexForgets DEF Watch

LEMMA TaskEndsInv == ASSUME ScanInv, NEW task \in tasks, TaskEnds(task) PROVE ScanInv'
  <1>1. RestTyped /\ IsIndex(ix) BY TypeParts DEF ScanInv
  <1>2. task \in Task /\ task.file \in Files BY <1>1 DEF RestTyped, Task
  <1>3. CASE task.by = "open"
    <2>1. task.text \in Texts BY <1>2, <1>3 DEF Task
    <2> DEFINE j == Upserted(ix, task.file, task.text)
    <2>2. IsIndex(j) /\ DOMAIN ix.files \subseteq DOMAIN j.files
      BY <1>1, <1>2, <2>1, UpsertedDomain
    <2>3. ix' = RewireDependents(j, task.file) BY <1>3 DEF TaskEnds
    <2> HIDE DEF j
    <2>4. IsIndex(ix') /\ DOMAIN ix'.files = DOMAIN j.files BY <2>2, <2>3, RewireDomain
    <2> QED BY <1>1, <2>2, <2>4, IndexGrows DEF TaskEnds, RestTyped
  <1>4. CASE task.by # "open"
    <2> DEFINE j == IF disk[task.file] = Gone \/ GetSymbolTable(ix, task.file) # NoTable
                    THEN ix ELSE Upserted(ix, task.file, disk[task.file])
    <2>1. disk[task.file] = Gone \/ disk[task.file] \in Texts BY <1>1, <1>2 DEF RestTyped
    <2>2. IsIndex(j) /\ DOMAIN ix.files \subseteq DOMAIN j.files
      BY <1>1, <1>2, <2>1, UpsertedDomain
    <2>3. ix' = Invalidated(j, task.dependents) BY <1>4 DEF TaskEnds
    <2> HIDE DEF j
    <2>4. IsIndex(ix') /\ DOMAIN ix'.files = DOMAIN j.files BY <2>2, <2>3, InvalidatedDomain
    <2> QED BY <1>1, <2>2, <2>4, IndexGrows DEF TaskEnds, RestTyped
  <1> QED BY <1>3, <1>4

LEMMA ClearInv == ASSUME ScanInv, Clear PROVE ScanInv'
  <1>1. RestTyped /\ IsIndex(ix) BY TypeParts DEF ScanInv
  <1>2. IsIndex(ix') BY EmptyIndexTyped DEF Clear
  <1>3. RestTyped' BY <1>1, EventTyped DEF Clear, RestTyped, Forgotten
  <1>4. DOMAIN ix.files \ Files \subseteq DOMAIN ix'.files BY <1>1 DEF IsIndex
  <1> QED BY <1>2, <1>3, <1>4, IndexForgets DEF Clear

LEMMA MemoryInv == ASSUME ScanInv, UsageChanges \/ Relieve \/ Recover PROVE ScanInv'
  <1>1. RestTyped /\ IsIndex(ix) BY TypeParts DEF ScanInv
  <1>2. IsIndex(ix') /\ DOMAIN ix'.files = DOMAIN ix.files
    BY <1>1, DemoteTyped DEF UsageChanges, Relieve, Recover
  <1>3. RestTyped'
    BY <1>1, EventTyped DEF UsageChanges, Relieve, Recover, RestTyped
  <1> QED BY <1>2, <1>3, IndexGrows DEF UsageChanges, Relieve, Recover

LEMMA FlushInv == ASSUME ScanInv, Flush PROVE ScanInv'
  <1>1. RestTyped /\ IsIndex(ix) BY TypeParts DEF ScanInv
  <1>2. RestTyped' BY <1>1 DEF Flush, RestTyped
  <1> QED BY <1>1, <1>2, IndexGrows DEF Flush

LEMMA DiskChangesInv ==
  ASSUME ScanInv, NEW f \in Files, NEW t \in Texts \cup {Gone}, DiskChanges(f, t)
  PROVE  ScanInv'
  <1>1. RestTyped /\ IsIndex(ix) BY TypeParts DEF ScanInv
  <1>2. RestTyped' BY <1>1, EventTyped DEF DiskChanges, RestTyped
  <1> QED BY <1>1, <1>2, IndexGrows DEF DiskChanges

-------------------------------------------------------------------------------
(* The theorems. *)

LEMMA ScanInit == Init => ScanInv
  <1> SUFFICES ASSUME Init PROVE ScanInv OBVIOUS
  <1>1. RestTyped
    <2>1. disk \in [Files -> Texts \cup {Gone}] BY ScanAssumption DEF Init
    <2>2. buffer \in [Files -> Texts \cup {Closed}] BY DEF Init
    <2>3. memory \in [usage : {"low", "between", "high"}, degraded : BOOLEAN,
                      state : {"active", "degraded"}]
      <3>1. memory \in {[usage |-> "low", degraded |-> FALSE, state |-> "active"],
                        [usage |-> "high", degraded |-> FALSE, state |-> "degraded"]}
        BY Zenon DEF Init
      <3> DEFINE M == [usage : {"low", "between", "high"}, degraded : BOOLEAN,
                       state : {"active", "degraded"}]
      <3>2. [usage |-> "low", degraded |-> FALSE, state |-> "active"] \in M OBVIOUS
      <3>3. [usage |-> "high", degraded |-> FALSE, state |-> "degraded"] \in M OBVIOUS
      <3> HIDE DEF M
      <3>4. memory \in M BY <3>1, <3>2, <3>3, Zenon
      <3> QED BY <3>4 DEF M
    <2>4. refresh \in [due : SUBSET Files, armed : BOOLEAN] BY DEF Init
    <2>5. events \in 0..MaxEvents BY ScanAssumption DEF Init
    <2> QED BY <2>1, <2>2, <2>3, <2>4, <2>5 DEF Init, RestTyped
  <1>2. IsIndex(ix) BY EmptyIndexTyped DEF Init
  <1>3. IsScan(NewScan) /\ Covered(NewScan, ix)
    BY ScanAssumption DEF NewScan, IsScan, Phases, Covered, NoFiles
  <1>4. /\ DOMAIN scans \subseteq Slots \cup {0}
        /\ \A s \in DOMAIN scans : IsScan(scans[s]) /\ Covered(scans[s], ix)
    BY <1>3 DEF Init
  <1>5. PreparedCoversFound BY DEF Init, PreparedCoversFound
  <1> QED BY <1>1, <1>2, <1>4, <1>5, TypeParts DEF ScanInv

LEMMA ScanStep == ScanInv /\ [Next]_vars => ScanInv'
  <1> SUFFICES ASSUME ScanInv, [Next]_vars PROVE ScanInv' OBVIOUS
  <1>1. ASSUME NEW s \in Slots, QueryStarts(s) \/ QueryCancelled(s) PROVE ScanInv'
    BY <1>1, QueryStartsInv, QueryCancelledInv
  <1>2. ASSUME NEW s \in Slots \cup {0}, ScanSteps(s) PROVE ScanInv'
    BY <1>2, DiscoversInv, FiltersInv, UpsertsInv, YieldsInv, ReadsInv DEF ScanSteps
  <1>3. ASSUME NEW f \in Files, Open(f) \/ Close(f) \/ Watch(f) PROVE ScanInv'
    BY <1>3, OpenInv, CloseInv, WatchInv
  <1>4. ASSUME NEW f \in Files, NEW t \in Texts \cup {Gone}, DiskChanges(f, t) PROVE ScanInv'
    BY <1>4, DiskChangesInv
  <1>5. ASSUME NEW task \in tasks, TaskEnds(task) PROVE ScanInv'
    BY <1>5, TaskEndsInv
  <1>6. CASE Flush \/ Clear BY <1>6, FlushInv, ClearInv
  <1>7. CASE UsageChanges \/ Relieve \/ Recover BY <1>7, MemoryInv
  <1>8. CASE UNCHANGED vars
    <2>1. RestTyped /\ IsIndex(ix) BY TypeParts DEF ScanInv
    <2>2. RestTyped' BY <1>8, <2>1 DEF vars, RestTyped
    <2> QED BY <1>8, <2>1, <2>2, IndexGrows DEF vars
  <1> QED BY <1>1, <1>2, <1>3, <1>4, <1>5, <1>6, <1>7, <1>8 DEF Next

\* The variables of a scan stay in their sets, and what each scan has found is
\* accounted for.
THEOREM ScanInvariant == Spec => []ScanInv
  BY ScanInit, ScanStep, PTL DEF Spec

\* prepareGlobalQuery marks the index as prepared only when it covers what was
\* found, and it goes on doing so until the mark is taken back, whatever other
\* queries, cancellations, closes, watched changes, clears and demotions fall
\* between the steps of the scan.
THEOREM PreparedIndexCovers == Spec => [](TypeOK /\ PreparedCoversFound)
  <1>1. ScanInv => TypeOK /\ PreparedCoversFound BY DEF ScanInv
  <1> QED BY <1>1, ScanInvariant, PTL
================================================================================
