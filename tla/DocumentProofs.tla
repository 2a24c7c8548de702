----------------------------- MODULE DocumentProofs ----------------------------
(*****************************************************************************)
(* What holds of the index however documents, walks, repairs, queries and    *)
(* file watching interleave, for all files, texts, imports and bounds: its   *)
(* entries register their dependencies, and their versions are those of one  *)
(* text.  First what each method of the index leaves alone, then one step    *)
(* per handler.  Then when the repair leaves no open document without its    *)
(* table, and how many rounds that takes; last, the order of its rounds.     *)
(*****************************************************************************)
EXTENDS DocumentIndexing, WorkspaceIndexProofs

\* The entry of g is the one it was, but perhaps without its table.
Same(i, j, g) ==
  /\ g \in DOMAIN i.files
  /\ j.files[g].version = i.files[g].version /\ j.files[g].text = i.files[g].text
  /\ j.files[g].deps = i.files[g].deps
  /\ i.files[g].stale => j.files[g].stale

\* Between i and j only the entries of F are written or removed, and only they
\* and the dependents of D lose edges.
Only(i, j, F, D) ==
  /\ IsIndex(j)
  /\ \A g \in DOMAIN j.files : g \notin F => Same(i, j, g)
  /\ \A d, g \in Files : <<d, g>> \in i.dependents /\ g \notin F /\ d \notin D
                           => <<d, g>> \in j.dependents

\* The entry of f alone is written, and what it depends on knows of it.
Written(i, j, f, v, t) ==
  /\ Only(i, j, {f}, {})
  /\ f \in DOMAIN j.files /\ j.files[f].version = v /\ j.files[f].text = t
  /\ \A d \in j.files[f].deps : <<d, f>> \in j.dependents

-------------------------------------------------------------------------------
(* The methods of the index. *)

LEMMA OnlyTrans ==
  ASSUME NEW i, NEW j, NEW k, NEW F, NEW D, Only(i, j, F, D), Only(j, k, F, D)
  PROVE  Only(i, k, F, D)
  BY DEF Only, Same

\* Marking entries drops no edge.
LEMMA StaleOnly ==
  ASSUME NEW i, IsIndex(i), NEW origins, NEW reached, NEW j, j = Stale(i, origins, reached),
         NEW F, NEW D
  PROVE  /\ Only(i, j, F, D)
         /\ DOMAIN j.files = DOMAIN i.files /\ j.dependents = i.dependents
         /\ \A g \in DOMAIN j.files : Same(i, j, g) /\ (g \in reached => j.files[g].stale)
  <1> DEFINE E(g) == [i.files[g] EXCEPT !.table = IF g \in origins THEN NoTable ELSE @,
                                        !.stale = @ \/ g \in reached]
             fs == [g \in DOMAIN i.files |-> E(g)]
  <1>1. j = [i EXCEPT !.files = fs] BY DEF Stale
  <1>2. ASSUME NEW g \in DOMAIN i.files
        PROVE  /\ E(g) \in Entry
               /\ E(g).version = i.files[g].version /\ E(g).text = i.files[g].text
               /\ E(g).deps = i.files[g].deps
               /\ i.files[g].stale \/ g \in reached => E(g).stale
    BY DEF IsIndex, Entry, NoTable, Tables
  <1>3. fs = [g \in DOMAIN fs |-> fs[g]] /\ DOMAIN fs = DOMAIN i.files
    OBVIOUS
  <1>4. \A g \in DOMAIN i.files : fs[g] = E(g) OBVIOUS
  <1> HIDE DEF fs, E
  <1>5. IsIndex(j) /\ j.files = fs BY <1>1, <1>2, <1>3, <1>4, EntriesTyped
  <1>6. j.dependents = i.dependents BY <1>1 DEF IsIndex
  <1>7. \A g \in DOMAIN j.files : Same(i, j, g) /\ (g \in reached => j.files[g].stale)
    <2> SUFFICES ASSUME NEW g \in DOMAIN i.files
                 PROVE  Same(i, j, g) /\ (g \in reached => j.files[g].stale)
      BY <1>3, <1>5
    <2>1. j.files[g] = E(g) BY <1>4, <1>5
    <2> QED BY <1>2, <2>1 DEF Same
  <1> QED BY <1>3, <1>5, <1>6, <1>7 DEF Only

LEMMA InvalidateOnly ==
  ASSUME NEW i, IsIndex(i), NEW f, NEW j, j = InvalidateWithDependents(i, f), NEW F, NEW D
  PROVE  Only(i, j, F, D)
  <1> DEFINE reached == Reached(i, f)
  <1>1. j = Stale(i, {f}, reached) BY DEF InvalidateWithDependents
  <1> HIDE DEF reached
  <1> QED BY <1>1, StaleOnly

LEMMA RewireOnly ==
  ASSUME NEW i, IsIndex(i), NEW f, NEW j, j = RewireDependents(i, f), NEW F, NEW D
  PROVE  /\ Only(i, j, F, D)
         /\ DOMAIN j.files = DOMAIN i.files /\ j.dependents = i.dependents
         /\ \A g \in DOMAIN j.files : Same(i, j, g)
  <1> DEFINE origins == GetDependents(i, f) \cap DOMAIN i.files
             reached == UNION {Reached(i, g) : g \in origins}
  <1>1. j = Stale(i, origins, reached) BY DEF RewireDependents
  <1> HIDE DEF origins, reached
  <1> QED BY <1>1, StaleOnly

LEMMA RemoveDependenciesOnly ==
  ASSUME NEW i, IsIndex(i), NEW f \in Files, NEW j, j = RemoveDependencies(i, f)
  PROVE  Only(i, j, {f}, {}) /\ j.files = i.files
  <1>1. IsIndex(j) /\ j.files = i.files BY RemoveDependenciesTyped
  <1>2. \A d, g \in Files : <<d, g>> \in i.dependents /\ g # f => <<d, g>> \in j.dependents
    <2>1. CASE ~Has(i, f) BY <2>1 DEF RemoveDependencies
    <2>2. CASE Has(i, f)
      <3>1. j.dependents = i.dependents \ {<<d, f>> : d \in i.files[f].deps}
        BY <2>2 DEF RemoveDependencies, IsIndex
      <3> QED BY <3>1
    <2> QED BY <2>1, <2>2
  <1> QED BY <1>1, <1>2 DEF Only, Same

LEMMA UpsertBackgroundFileOnly ==
  ASSUME NEW i, IsIndex(i), NEW f \in Files, NEW v \in Nat, NEW t \in Texts, NEW warm,
         NEW j, j = UpsertBackgroundFile(i, f, v, t, warm)
  PROVE  Written(i, j, f, v, t)
  <1> DEFINE rid == RemoveDependencies(i, f)
             table == Wired(rid, f, t, warm)
             e == UnresolvedEntry(v, t, table)
  <1>1. Only(i, rid, {f}, {}) /\ IsIndex(rid) BY RemoveDependenciesOnly DEF Only
  <1>2. j = Put(rid, f, e) BY DEF UpsertBackgroundFile
  <1> HIDE DEF rid
  <1>3. table \in Tables BY <1>1, WiredTyped
  <1> HIDE DEF table
  <1>4. e \in Entry /\ e.version = v /\ e.text = t /\ e.deps = {}
    BY <1>3 DEF UnresolvedEntry, Entry, Kinds
  <1> HIDE DEF e
  <1>5. /\ IsIndex(j) /\ DOMAIN j.files = DOMAIN rid.files \cup {f} /\ j.files[f] = e
        /\ \A g \in DOMAIN rid.files : g # f => j.files[g] = rid.files[g]
    BY <1>1, <1>2, <1>4, PutTyped
  <1>6. j.dependents = rid.dependents BY <1>1, <1>2 DEF Put, IsIndex
  <1>7. Only(rid, j, {f}, {}) BY <1>5, <1>6 DEF Only, Same
  <1> QED BY <1>1, <1>4, <1>5, <1>7, OnlyTrans DEF Written

LEMMA InstallOnly ==
  ASSUME NEW i, IsIndex(i), NEW f \in Files, NEW v \in Nat, NEW t \in Texts,
         NEW table \in Tables, NEW j, j = InstallFull(i, f, v, t, table)
  PROVE  Written(i, j, f, v, t)
  <1> DEFINE deps == Imports[<<f, t>>]
             e == FullEntry(v, t, table, deps)
             p == Put(i, f, e)
  <1>1. deps \in SUBSET Files BY ImportsAssumption
  <1> HIDE DEF deps
  <1>2. e \in Entry /\ e.version = v /\ e.text = t /\ e.deps = deps
    BY <1>1 DEF FullEntry, Entry, Kinds
  <1> HIDE DEF e
  <1>3. /\ IsIndex(p) /\ DOMAIN p.files = DOMAIN i.files \cup {f} /\ p.files[f] = e
        /\ \A g \in DOMAIN i.files : g # f => p.files[g] = i.files[g]
    BY <1>2, PutTyped
  <1>4. j = RegisterReverseDeps(p, f, deps) BY DEF InstallFull, e, deps
  <1>5. p.dependents = i.dependents BY DEF Put, IsIndex
  <1> HIDE DEF p
  <1>6. IsIndex(j) /\ j.files = p.files BY <1>1, <1>3, <1>4, RegisterTyped
  <1>7. j.dependents = p.dependents \cup {<<d, f>> : d \in deps}
    BY <1>3, <1>4 DEF RegisterReverseDeps, IsIndex
  <1> QED BY <1>2, <1>3, <1>5, <1>6, <1>7 DEF Written, Only, Same

\* Marking what was written leaves it written.
LEMMA WrittenThenMarked ==
  ASSUME NEW i, NEW j, NEW f, NEW v, NEW t, Written(i, j, f, v, t),
         NEW k, \/ k = RewireDependents(j, f)
                \/ \E W : k = Stale(j, W, W)
                \/ k = j
  PROVE  Written(i, k, f, v, t)
  <1>1. IsIndex(j) BY DEF Written, Only
  <1>2. /\ Only(j, k, {f}, {}) /\ DOMAIN k.files = DOMAIN j.files /\ k.dependents = j.dependents
        /\ \A g \in DOMAIN k.files : Same(j, k, g)
    <2>1. CASE k = RewireDependents(j, f) BY <1>1, <2>1, RewireOnly
    <2>2. CASE \E W : k = Stale(j, W, W) BY <1>1, <2>2, StaleOnly
    <2>3. CASE k = j BY <1>1, <2>3 DEF Only, Same
    <2> QED BY <2>1, <2>2, <2>3
  <1>3. Only(i, k, {f}, {}) BY <1>2, OnlyTrans DEF Written
  <1> QED BY <1>2, <1>3 DEF Written, Same

LEMMA RemoveFileOnly ==
  ASSUME NEW i, IsIndex(i), NEW f \in Files, NEW j, j = RemoveFile(i, f)
  PROVE  Only(i, j, {f}, {f}) /\ f \notin DOMAIN j.files
  <1>1. CASE ~Has(i, f) BY <1>1 DEF RemoveFile, Only, Same, Has
  <1>2. CASE Has(i, f)
    <2> DEFINE rid == RemoveDependencies(i, f)
               fs == [g \in DOMAIN i.files \ {f} |-> i.files[g]]
               ds == {e \in rid.dependents : e[1] # f}
    <2>1. Only(i, rid, {f}, {}) /\ IsIndex(rid) BY RemoveDependenciesOnly DEF Only
    <2>2. j = [files |-> fs, dependents |-> ds] BY <1>2 DEF RemoveFile
    <2>3. \A d, g \in Files : <<d, g>> \in i.dependents /\ g # f /\ d # f => <<d, g>> \in ds
      BY <2>1 DEF Only
    <2> HIDE DEF rid
    <2>4. /\ DOMAIN fs = DOMAIN i.files \ {f}
          /\ \A g \in DOMAIN fs : g \in DOMAIN i.files /\ fs[g] = i.files[g]
      BY DEF IsIndex
    <2> HIDE DEF fs, ds
    <2>5. IsIndex(j) BY RemoveFileMoves DEF Moves
    <2>6. j.files = fs /\ j.dependents = ds BY <2>2
    <2> QED BY <2>3, <2>4, <2>5, <2>6 DEF Only, Same
  <1> QED BY <1>1, <1>2
-------------------------------------------------------------------------------
(* The state of the server. *)

\* What a walk over the dependencies goes through are files.
Walk(c) ==
  /\ c = [phase |-> c.phase, awaits |-> c.awaits, queue |-> c.queue, deps |-> c.deps,
           visited |-> c.visited, at |-> c.at, text |-> c.text]
  /\ c.deps \subseteq Files /\ (c.phase = "read" => c.at \in Files)
  /\ c.text \in Texts \cup {Gone}

DocTyped ==
  /\ IsIndex(ix)
  /\ disk \in [Files -> Texts \cup {Gone}]
  /\ buffer \in [Files -> [was : BOOLEAN, open : BOOLEAN, version : 0..MaxVersion, text : Texts]]
  /\ handlers \in [Files -> [open : BOOLEAN, content : Int]]
  /\ upserts = [s \in DOMAIN upserts |-> upserts[s]]
  /\ \A s \in DOMAIN upserts : upserts[s] \in Upsert
  /\ resolving \subseteq Resolution
  /\ closures = [f \in DOMAIN closures |-> closures[f]]
  /\ \A f \in DOMAIN closures : Walk(closures[f])
  /\ watched = [f \in DOMAIN watched |-> watched[f]] /\ DOMAIN watched \subseteq Files

\* An open document has a version.
Buffers ==
  \A f \in Files :
    /\ ~buffer[f].was => buffer[f].version = 0
    /\ IsOpen(f) => buffer[f].was /\ buffer[f].version >= 1

\* An upsert, 0 when it is of a text on disk, is of no version yet to come.
Past(f, v, t) ==
  /\ v <= buffer[f].version
  /\ v = buffer[f].version /\ v > 0 => t = buffer[f].text

PastUpserts == \A s \in DOMAIN upserts : Past(upserts[s].file, upserts[s].version, upserts[s].text)

\* Nor is an entry, except that what is read from disk may be of version 1.
PastEntries ==
  \A f \in DOMAIN ix.files : ix.files[f].version <= 1 \/ ix.files[f].version <= buffer[f].version

Versions == Buffers /\ PastUpserts /\ PastEntries /\ VersionIdentifiesText

DocInv == DocTyped /\ Versions /\ EdgesRegistered

-------------------------------------------------------------------------------
(* What a step has to show. *)

\* Why an edge from g to d may be missing though the entry of g is current.
Waits(g, d) ==
  \/ Running(g)
  \/ \E h \in DOMAIN watched : watched[h].cut /\ g \in watched[h].dependents
  \/ buffer[d].was /\ ~IsOpen(d)

LEMMA EdgesStep ==
  ASSUME DocInv, NEW F, NEW D, Only(ix, ix', F, D),
         \A g \in DOMAIN ix'.files, d \in Files :
           g \notin F /\ Waits(g, d) => Waits(g, d)' \/ ix'.files[g].stale,
         \A g \in DOMAIN ix'.files, d \in Files :
           g \notin F /\ d \in D /\ <<d, g>> \in ix.dependents
             => Waits(g, d)' \/ ix'.files[g].stale,
         \A g \in DOMAIN ix'.files : g \in F =>
           \A d \in ix'.files[g].deps :
             <<d, g>> \in ix'.dependents \/ ix'.files[g].stale \/ Waits(g, d)'
  PROVE  EdgesRegistered'
  <1> SUFFICES ASSUME NEW g \in DOMAIN ix'.files, NEW d \in ix'.files[g].deps
               PROVE  \/ <<d, g>> \in ix'.dependents \/ ix'.files[g].stale \/ Waits(g, d)'
    BY DEF EdgesRegistered, Waits
  <1>1. CASE g \in F BY <1>1
  <1>2. CASE g \notin F
    <2>1. /\ g \in DOMAIN ix.files /\ d \in ix.files[g].deps /\ g \in Files /\ d \in Files
          /\ ix.files[g].stale => ix'.files[g].stale
      BY <1>2 DEF Only, Same, DocInv, DocTyped, IsIndex, Entry
    <2>2. <<d, g>> \in ix.dependents \/ ix.files[g].stale \/ Waits(g, d)
      BY <2>1 DEF DocInv, EdgesRegistered, Waits
    <2>3. <<d, g>> \in ix.dependents /\ d \notin D => <<d, g>> \in ix'.dependents
      BY <1>2, <2>1 DEF Only
    <2> QED BY <1>2, <2>1, <2>2, <2>3
  <1> QED BY <1>1, <1>2

\* A step that leaves the documents as they are.
LEMMA VersionsStep ==
  ASSUME DocInv, NEW F, NEW D, Only(ix, ix', F, D), UNCHANGED buffer,
         \A s \in DOMAIN upserts' :
           Past(upserts'[s].file, upserts'[s].version, upserts'[s].text),
         \A g \in DOMAIN ix'.files : g \in F =>
           /\ ix'.files[g].version <= 1 \/ ix'.files[g].version <= buffer[g].version
           /\ IsOpen(g) /\ buffer[g].version > 1 /\ ix'.files[g].version = buffer[g].version
                => ix'.files[g].text = buffer[g].text
  PROVE  Versions'
  <1>1. Buffers' BY DEF DocInv, Versions, Buffers, IsOpen
  <1>2. PastUpserts' BY DEF PastUpserts, Past
  <1>3. \A g \in DOMAIN ix'.files : g \notin F =>
          /\ g \in DOMAIN ix.files /\ g \in Files
          /\ ix'.files[g].version = ix.files[g].version /\ ix'.files[g].text = ix.files[g].text
    BY DEF Only, Same, DocInv, DocTyped, IsIndex
  <1>4. PastEntries' BY <1>3 DEF DocInv, Versions, PastEntries
  <1>5. VersionIdentifiesText'
    BY <1>3 DEF DocInv, Versions, VersionIdentifiesText, IsOpen
  <1> QED BY <1>1, <1>2, <1>4, <1>5 DEF Versions

\* An upsert begins.
LEMMA StartUpsertInv ==
  ASSUME DocInv, NEW i, Only(ix, i, {}, {}), NEW f \in Files, NEW v \in 0..MaxVersion,
         NEW t \in Texts, NEW by \in Callers, Past(f, v, t), StartUpsert(i, f, v, t, by),
         UNCHANGED <<buffer, disk, resolving, closures, watched>>,
         handlers' \in [Files -> [open : BOOLEAN, content : Int]]
  PROVE  DocInv'
  <1> DEFINE u == [file |-> f, version |-> v, text |-> t, table |-> NoTable, by |-> by,
                   phase |-> "warm"]
  <1>1. PICK s : s \notin DOMAIN upserts /\ upserts' = With(upserts, s, u)
    BY DEF StartUpsert
  <1>2. ix' = RemoveDependencies(i, f) BY DEF StartUpsert
  <1>3. u \in Upsert /\ u.file = f /\ u.version = v /\ u.text = t
    BY DEF Upsert, NoTable, Tables
  <1> HIDE DEF u
  <1>4. /\ DOMAIN upserts' = DOMAIN upserts \cup {s} /\ upserts'[s] = u
        /\ \A r \in DOMAIN upserts : upserts'[r] = upserts[r]
        /\ upserts' = [r \in DOMAIN upserts' |-> upserts'[r]]
    BY <1>1 DEF With
  <1>5. Only(i, ix', {f}, {}) /\ ix'.files = i.files
    BY <1>2, RemoveDependenciesOnly DEF Only
  <1>6. Only(ix, ix', {f}, {}) /\ \A g \in DOMAIN ix'.files : Same(ix, ix', g)
    BY <1>5 DEF Only, Same
  <1>7. DocTyped' BY <1>3, <1>4, <1>6 DEF DocInv, DocTyped, Only
  <1>8. Versions'
    <2>1. \A r \in DOMAIN upserts' :
            Past(upserts'[r].file, upserts'[r].version, upserts'[r].text)
      BY <1>3, <1>4 DEF DocInv, Versions, PastUpserts
    <2>3. Buffers' BY DEF DocInv, Versions, Buffers, IsOpen
    <2>4. PastUpserts' BY <2>1 DEF PastUpserts, Past
    <2>5. DOMAIN ix'.files \subseteq Files BY <1>7 DEF DocTyped, IsIndex
    <2>6. PastEntries' BY <1>6 DEF DocInv, Versions, PastEntries, Same
    <2>7. VersionIdentifiesText'
      BY <1>6, <2>5 DEF DocInv, Versions, VersionIdentifiesText, IsOpen, Same
    <2> QED BY <2>3, <2>4, <2>6, <2>7 DEF Versions
  <1>9. EdgesRegistered'
    <2>1. \A g : Running(g) => Running(g)' BY <1>4 DEF Running
    <2>2. Running(f)' BY <1>3, <1>4 DEF Running
    <2>3. \A g, d : Waits(g, d) => Waits(g, d)' BY <2>1 DEF Waits, IsOpen
    <2>4. \A d : Waits(f, d)' BY <2>2 DEF Waits
    <2> QED BY <1>6, <2>3, <2>4, EdgesStep
  <1> QED BY <1>7, <1>8, <1>9 DEF DocInv

-------------------------------------------------------------------------------
(* The editor and the disk. *)

LEMMA OnlySelf == ASSUME NEW i, IsIndex(i), NEW F, NEW D PROVE Only(i, i, F, D)
  BY DEF Only, Same

\* The index, the documents and the upserts stay as they are.
LEMMA QuietInv ==
  ASSUME DocInv, UNCHANGED <<ix, buffer, disk, handlers, upserts, watched>>,
         resolving' \subseteq Resolution,
         closures' = [f \in DOMAIN closures' |-> closures'[f]],
         \A f \in DOMAIN closures' : Walk(closures'[f])
  PROVE  DocInv'
  <1>1. DocTyped'
    <2>1. /\ IsIndex(ix')
          /\ disk' \in [Files -> Texts \cup {Gone}]
          /\ buffer' \in [Files -> [was : BOOLEAN, open : BOOLEAN, version : 0..MaxVersion,
                                   text : Texts]]
          /\ handlers' \in [Files -> [open : BOOLEAN, content : Int]]
      BY DEF DocInv, DocTyped
    <2>2. /\ upserts' = [s \in DOMAIN upserts' |-> upserts'[s]]
          /\ \A s \in DOMAIN upserts' : upserts'[s] \in Upsert
      BY DEF DocInv, DocTyped
    <2>3. watched' = [f \in DOMAIN watched' |-> watched'[f]] /\ DOMAIN watched' \subseteq Files
      BY DEF DocInv, DocTyped
    <2> QED BY <2>1, <2>2, <2>3 DEF DocTyped
  <1>2. Versions'
    BY DEF DocInv, Versions, Buffers, PastUpserts, Past, PastEntries, VersionIdentifiesText, IsOpen
  <1>3. EdgesRegistered' BY DEF DocInv, EdgesRegistered, Running, IsOpen
  <1> QED BY <1>1, <1>2, <1>3 DEF DocInv

LEMMA OpenInv ==
  ASSUME DocInv, NEW f \in Files, NEW t \in Texts, Open(f, t)
  PROVE  DocInv'
  <1> DEFINE b == [was |-> TRUE, open |-> TRUE, version |-> 1, text |-> t]
             h == [open |-> TRUE, content |-> handlers[f].content + 1]
  <1>1. /\ ~buffer[f].was
        /\ UNCHANGED <<ix, disk, upserts, watched, resolving, closures>>
        /\ buffer' = [buffer EXCEPT ![f] = b]
        /\ handlers' = [handlers EXCEPT ![f] = h]
    BY DEF Open, DocInv, DocTyped, diskVars
  <1>2. DocTyped' BY <1>1, DocumentAssumption DEF DocInv, DocTyped
  <1>3. /\ buffer'[f] = b /\ handlers'[f] = h
        /\ \A g \in Files : g # f => buffer'[g] = buffer[g] /\ handlers'[g] = handlers[g]
    BY <1>1 DEF DocInv, DocTyped
  <1>4. b.was /\ b.open /\ b.version = 1 /\ b.text = t /\ h.open
    OBVIOUS
  <1> HIDE DEF b, h
  <1>5. buffer[f].version = 0 /\ ~IsOpen(f)
    BY <1>1 DEF DocInv, Versions, Buffers
  <1>6. Versions'
    <2>1. Buffers' BY <1>1, <1>3, <1>4 DEF DocInv, Versions, Buffers, IsOpen
    <2>2. PastUpserts'
      <3> SUFFICES ASSUME NEW s \in DOMAIN upserts
                   PROVE  Past(upserts[s].file, upserts[s].version, upserts[s].text)'
        BY <1>1 DEF PastUpserts
      <3>1. /\ upserts[s].file \in Files /\ upserts[s].version \in Nat
            /\ Past(upserts[s].file, upserts[s].version, upserts[s].text)
        BY DocumentAssumption DEF DocInv, DocTyped, Upsert, Versions, PastUpserts
      <3> QED BY <1>1, <1>3, <1>4, <1>5, <3>1 DEF Past
    <2>3. \A g \in DOMAIN ix.files : g \in Files /\ ix.files[g].version \in Nat
      BY DEF DocInv, DocTyped, IsIndex, Entry
    <2>4. PastEntries' BY <1>1, <1>3, <1>4, <1>5, <2>3 DEF DocInv, Versions, PastEntries
    <2>5. VersionIdentifiesText'
      BY <1>1, <1>3, <1>4, <2>3 DEF DocInv, Versions, VersionIdentifiesText, IsOpen
    <2> QED BY <2>1, <2>2, <2>4, <2>5 DEF Versions
  <1>7. EdgesRegistered'
    <2>1. Only(ix, ix', {}, {}) BY <1>1, OnlySelf DEF DocInv, DocTyped
    <2>2. \A g, d \in Files : Waits(g, d) => Waits(g, d)'
      BY <1>1, <1>3 DEF Waits, Running, IsOpen
    <2>3. DOMAIN ix'.files \subseteq Files BY <1>2 DEF DocTyped, IsIndex
    <2> QED BY <2>1, <2>2, <2>3, EdgesStep
  <1> QED BY <1>2, <1>6, <1>7 DEF DocInv

LEMMA EditInv ==
  ASSUME DocInv, NEW f \in Files, NEW t \in Texts, Edit(f, t)
  PROVE  DocInv'
  <1> DEFINE a == [buffer[f] EXCEPT !.version = @ + 1]
             b == [a EXCEPT !.text = t]
             h == [handlers[f] EXCEPT !.content = @ + 1]
  <1>1. /\ IsOpen(f) /\ buffer[f].version < MaxVersion
        /\ UNCHANGED <<ix, disk, upserts, watched, resolving, closures>>
        /\ buffer' = [buffer EXCEPT ![f] = b]
        /\ handlers' = [handlers EXCEPT ![f] = h]
    <2>1. /\ IsOpen(f) /\ buffer[f].version < MaxVersion
          /\ UNCHANGED <<ix, disk, upserts, watched, resolving, closures>>
      BY DEF Edit, diskVars
    <2>2. buffer' = [buffer EXCEPT ![f] = b]
      BY DEF Edit, DocInv, DocTyped
    <2>3. handlers' = [handlers EXCEPT ![f] = h]
      BY DEF Edit, DocInv, DocTyped
    <2> QED BY <2>1, <2>2, <2>3
  <1>4. /\ b \in [was : BOOLEAN, open : BOOLEAN, version : 0..MaxVersion, text : Texts]
        /\ b.was = buffer[f].was /\ b.open = buffer[f].open
        /\ b.version = buffer[f].version + 1 /\ b.text = t
        /\ h \in [open : BOOLEAN, content : Int] /\ h.open = handlers[f].open
    <2>1. /\ buffer[f] \in [was : BOOLEAN, open : BOOLEAN, version : 0..MaxVersion, text : Texts]
          /\ handlers[f] \in [open : BOOLEAN, content : Int]
      BY DEF DocInv, DocTyped
    <2>2. buffer[f].version + 1 \in 0..MaxVersion BY <1>1, <2>1, DocumentAssumption
    <2>3. /\ a = [was |-> buffer[f].was, open |-> buffer[f].open,
                  version |-> buffer[f].version + 1, text |-> buffer[f].text]
          /\ h = [open |-> handlers[f].open, content |-> handlers[f].content + 1]
      BY <2>1
    <2> HIDE DEF a, h
    <2>4. b = [was |-> buffer[f].was, open |-> buffer[f].open,
               version |-> buffer[f].version + 1, text |-> t]
      BY <2>3
    <2> HIDE DEF b
    <2> QED BY <2>1, <2>2, <2>3, <2>4
  <1> HIDE DEF a, b, h
  <1>2. DocTyped' BY <1>1, <1>4 DEF DocInv, DocTyped
  <1>3. /\ buffer'[f] = b /\ handlers'[f] = h
        /\ \A g \in Files : g # f => buffer'[g] = buffer[g] /\ handlers'[g] = handlers[g]
    BY <1>1 DEF DocInv, DocTyped
  <1>5. buffer[f].was /\ buffer[f].version \in Nat /\ buffer[f].version >= 1
    BY <1>1, DocumentAssumption DEF DocInv, Versions, Buffers, DocTyped
  <1>6. Versions'
    <2>0. b.was /\ b.version >= 1 /\ b.version # 1 BY <1>4, <1>5
    <2>1. Buffers' BY <1>1, <1>3, <2>0 DEF DocInv, Versions, Buffers, IsOpen
    <2>2. PastUpserts'
      <3> SUFFICES ASSUME NEW s \in DOMAIN upserts
                   PROVE  Past(upserts[s].file, upserts[s].version, upserts[s].text)'
        BY <1>1 DEF PastUpserts
      <3>1. /\ upserts[s].file \in Files /\ upserts[s].version \in Nat
            /\ Past(upserts[s].file, upserts[s].version, upserts[s].text)
        BY DocumentAssumption DEF DocInv, DocTyped, Upsert, Versions, PastUpserts
      <3> QED BY <1>1, <1>3, <1>4, <1>5, <3>1 DEF Past
    <2>3. \A g \in DOMAIN ix.files : g \in Files /\ ix.files[g].version \in Nat
      BY DEF DocInv, DocTyped, IsIndex, Entry
    <2>4. PastEntries' BY <1>1, <1>3, <1>4, <1>5, <2>3 DEF DocInv, Versions, PastEntries
    <2>5. VersionIdentifiesText'
      <3>1. f \in DOMAIN ix.files => ix.files[f].version < b.version
        BY <1>4, <1>5, <2>3 DEF DocInv, Versions, PastEntries
      <3> QED BY <1>1, <1>3, <1>4, <2>3, <3>1 DEF DocInv, Versions, VersionIdentifiesText, IsOpen
    <2> QED BY <2>1, <2>2, <2>4, <2>5 DEF Versions
  <1>7. EdgesRegistered'
    <2>1. Only(ix, ix', {}, {}) BY <1>1, OnlySelf DEF DocInv, DocTyped
    <2>2. \A g, d \in Files : Waits(g, d) => Waits(g, d)'
      BY <1>1, <1>3, <1>4 DEF Waits, Running, IsOpen
    <2>3. DOMAIN ix'.files \subseteq Files BY <1>2 DEF DocTyped, IsIndex
    <2> QED BY <2>1, <2>2, <2>3, EdgesStep
  <1> QED BY <1>2, <1>6, <1>7 DEF DocInv

\* Only the disk changes.
LEMMA DiskInv ==
  ASSUME DocInv, NEW f \in Files, disk' \in [Files -> Texts \cup {Gone}],
         UNCHANGED <<ix, buffer, handlers, upserts, watched, resolving, closures>>
  PROVE  DocInv'
  <1>1. DocTyped' BY DEF DocInv, DocTyped
  <1>2. Buffers' BY DEF DocInv, Versions, Buffers, IsOpen, DocTyped
  <1>3. (PastUpserts /\ PastEntries /\ VersionIdentifiesText)'
    BY DEF DocInv, Versions, PastUpserts, Past, PastEntries, VersionIdentifiesText, IsOpen
  <1>4. EdgesRegistered' BY DEF DocInv, EdgesRegistered, Running, IsOpen
  <1> QED BY <1>1, <1>2, <1>3, <1>4 DEF DocInv, Versions

LEMMA OrphanedTyped ==
  ASSUME resolving \subseteq Resolution, NEW f
  PROVE  Orphaned(f) \subseteq Resolution
  BY DEF Orphaned, Resolution

\* Closing forgets the dependents of the file.
LEMMA CloseInv ==
  ASSUME DocInv, NEW f \in Files, Close(f)
  PROVE  DocInv'
  <1> DEFINE b == [buffer[f] EXCEPT !.open = FALSE]
  <1>1. /\ IsOpen(f) /\ ix' = RemoveFile(ix, f) /\ resolving' = Orphaned(f)
        /\ UNCHANGED <<disk, handlers, upserts, watched, closures>>
        /\ buffer' = [buffer EXCEPT ![f] = b]
    BY DEF Close, DocInv, DocTyped, diskVars
  <1>2. /\ b \in [was : BOOLEAN, open : BOOLEAN, version : 0..MaxVersion, text : Texts]
        /\ b.was = buffer[f].was /\ ~b.open
        /\ b.version = buffer[f].version /\ b.text = buffer[f].text
    BY DEF DocInv, DocTyped
  <1> HIDE DEF b
  <1>3. /\ buffer'[f] = b /\ \A g \in Files : g # f => buffer'[g] = buffer[g]
    BY <1>1 DEF DocInv, DocTyped
  <1>4. Only(ix, ix', {f}, {f}) /\ f \notin DOMAIN ix'.files
    BY <1>1, RemoveFileOnly DEF DocInv, DocTyped
  <1>5. DocTyped' BY <1>1, <1>2, <1>4, OrphanedTyped DEF DocInv, DocTyped, Only
  <1>6. \A g \in DOMAIN ix'.files : /\ g # f /\ g \in Files /\ g \in DOMAIN ix.files
                                   /\ ix'.files[g].version = ix.files[g].version
                                   /\ ix'.files[g].text = ix.files[g].text
    BY <1>4, <1>5 DEF Only, Same, DocTyped, IsIndex
  <1>7. Versions'
    <2>1. Buffers' BY <1>1, <1>2, <1>3 DEF DocInv, Versions, Buffers, IsOpen
    <2>2. PastUpserts'
      <3> SUFFICES ASSUME NEW s \in DOMAIN upserts
                   PROVE  Past(upserts[s].file, upserts[s].version, upserts[s].text)'
        BY <1>1 DEF PastUpserts
      <3>1. /\ upserts[s].file \in Files
            /\ Past(upserts[s].file, upserts[s].version, upserts[s].text)
        BY DEF DocInv, DocTyped, Upsert, Versions, PastUpserts
      <3> QED BY <1>1, <1>2, <1>3, <3>1 DEF Past
    <2>3. PastEntries' BY <1>3, <1>6 DEF DocInv, Versions, PastEntries
    <2>4. VersionIdentifiesText'
      BY <1>1, <1>3, <1>6 DEF DocInv, Versions, VersionIdentifiesText, IsOpen
    <2> QED BY <2>1, <2>2, <2>3, <2>4 DEF Versions
  <1>8. EdgesRegistered'
    <2>1. \A g, d \in Files : Waits(g, d) => Waits(g, d)'
      BY <1>1, <1>2, <1>3 DEF Waits, Running, IsOpen
    <2>2. \A g : Waits(g, f)'
      BY <1>1, <1>2, <1>3 DEF Waits, IsOpen, DocInv, Versions, Buffers
    <2> QED BY <1>4, <1>6, <2>1, <2>2, EdgesStep
  <1> QED BY <1>5, <1>7, <1>8 DEF DocInv

-------------------------------------------------------------------------------
(* The handlers of documents and upserts. *)

LEMMA HandleOpenInv ==
  ASSUME DocInv, NEW f \in Files, HandleOpen(f)
  PROVE  DocInv'
  <1> DEFINE b == buffer[f]
             h == [handlers[f] EXCEPT !.open = FALSE]
             c == [phase |-> IF inFlight[f] = None THEN "resolve" ELSE "await",
                   awaits |-> inFlight[f], queue |-> <<f>>, deps |-> {}, visited |-> {f}, at |-> f,
                   text |-> Gone]
             i == InvalidateWithDependents(ix, f)
  <1>1. /\ resolving' = Orphaned(f) /\ closures' = With(closures, f, c)
        /\ handlers' = [handlers EXCEPT ![f] = h]
        /\ UNCHANGED <<disk, buffer, upserts, watched>>
    BY DEF HandleOpen, diskVars, docVars, DocInv, DocTyped
  <1> DEFINE j(warm) == UpsertBackgroundFile(i, f, b.version, b.text, warm)
  <1>2. PICK warm : ix' = RewireDependents(j(warm), f)
    BY DEF HandleOpen
  <1>3. IsIndex(ix) /\ b.version \in Nat /\ b.text \in Texts
    BY DocumentAssumption DEF DocInv, DocTyped
  <1>4. Only(ix, i, {f}, {})
    BY <1>3, InvalidateOnly
  <1> HIDE DEF i, b
  <1> DEFINE k == j(warm)
  <1>5. Written(i, k, f, b.version, b.text)
    BY <1>3, <1>4, UpsertBackgroundFileOnly DEF Only
  <1> HIDE DEF k, j
  <1>6. ix' = RewireDependents(k, f) BY <1>2 DEF k
  <1>7. Written(i, ix', f, b.version, b.text) BY <1>5, <1>6, WrittenThenMarked
  <1>8. Only(ix, ix', {f}, {}) BY <1>4, <1>7, OnlyTrans DEF Written
  <1>9. DocTyped'
    <2>1. Walk(c) BY DEF Walk
    <2> HIDE DEF c
    <2>2. /\ closures' = [g \in DOMAIN closures' |-> closures'[g]]
          /\ \A g \in DOMAIN closures' : \/ closures'[g] = c
                                         \/ g \in DOMAIN closures /\ closures'[g] = closures[g]
      BY <1>1 DEF With
    <2>3. handlers' \in [Files -> [open : BOOLEAN, content : Int]]
      BY <1>1 DEF DocInv, DocTyped
    <2> QED BY <1>1, <1>8, <2>1, <2>2, <2>3, OrphanedTyped DEF DocInv, DocTyped, Only
  <1>10. \A g \in Files : g # f => handlers'[g].open = handlers[g].open
    BY <1>1 DEF DocInv, DocTyped
  <1>11. Versions'
    <2>1. /\ ix'.files[f].version <= 1 \/ ix'.files[f].version <= buffer[f].version
          /\ ix'.files[f].text = buffer[f].text
      BY <1>3, <1>7 DEF b, Written
    <2>2. \A s \in DOMAIN upserts' :
            Past(upserts'[s].file, upserts'[s].version, upserts'[s].text)
      BY <1>1 DEF DocInv, Versions, PastUpserts
    <2> QED BY <1>1, <1>8, <1>10, <2>1, <2>2, VersionsStep
  <1>12. EdgesRegistered'
    <2>1. \A g, d : Waits(g, d) => Waits(g, d)' BY <1>1 DEF Waits, Running, IsOpen
    <2> QED BY <1>7, <1>8, <2>1, EdgesStep DEF Written
  <1> QED BY <1>9, <1>11, <1>12 DEF DocInv

LEMMA ParseAndIndexInv ==
  ASSUME DocInv, NEW f \in Files, NEW by \in Callers, ParseAndIndex(f, by),
         UNCHANGED <<buffer, disk, resolving, closures, watched>>,
         handlers' \in [Files -> [open : BOOLEAN, content : Int]]
  PROVE  DocInv'
  <1> DEFINE i == InvalidateWithDependents(ix, f)
  <1>1. StartUpsert(i, f, buffer[f].version, buffer[f].text, by) BY DEF ParseAndIndex
  <1>2. Only(ix, i, {}, {}) BY InvalidateOnly DEF DocInv, DocTyped
  <1> HIDE DEF i
  <1>4. buffer[f].version \in 0..MaxVersion /\ buffer[f].text \in Texts
    BY DEF DocInv, DocTyped
  <1>5. Past(f, buffer[f].version, buffer[f].text)
    BY <1>4, DocumentAssumption DEF Past
  <1> QED BY <1>1, <1>2, <1>4, <1>5, StartUpsertInv

LEMMA HandleContentInv ==
  ASSUME DocInv, NEW f \in Files, HandleContent(f)
  PROVE  DocInv'
  <1> DEFINE by == IF f \in justOpened THEN "open" ELSE "change"
  <1>1. /\ ParseAndIndex(f, by)
        /\ UNCHANGED <<buffer, disk, resolving, closures, watched>>
        /\ handlers' = [handlers EXCEPT ![f].content = @ - 1]
    BY DEF HandleContent, diskVars, docVars
  <1>2. by \in Callers BY DEF Callers, Recorded, Indexing
  <1> HIDE DEF by
  <1>3. /\ handlers' \in [Files -> [open : BOOLEAN, content : Int]]
        /\ \A g \in Files : handlers'[g].open = handlers[g].open
    BY <1>1 DEF DocInv, DocTyped
  <1> QED BY <1>1, <1>2, <1>3, ParseAndIndexInv

\* The other upserts begin on the index as it is.
LEMMA StartOwnInv ==
  ASSUME DocInv, NEW f \in Files, NEW by \in Callers,
         StartUpsert(ix, f, buffer[f].version, buffer[f].text, by),
         UNCHANGED <<buffer, disk, resolving, closures, watched, handlers>>
  PROVE  DocInv'
  <1>1. Only(ix, ix, {}, {}) BY OnlySelf DEF DocInv, DocTyped
  <1>2. buffer[f].version \in 0..MaxVersion /\ buffer[f].text \in Texts
    BY DEF DocInv, DocTyped
  <1>3. Past(f, buffer[f].version, buffer[f].text)
    BY <1>2, DocumentAssumption DEF Past
  <1>4. /\ handlers' \in [Files -> [open : BOOLEAN, content : Int]]
        /\ \A g \in Files : handlers'[g].open = handlers[g].open
    BY DEF DocInv, DocTyped
  <1> QED BY <1>1, <1>2, <1>3, <1>4, StartUpsertInv

LEMMA StartDiskInv ==
  ASSUME DocInv, NEW f \in Files, NEW by \in Callers, disk[f] # Gone,
         StartUpsert(ix, f, 0, disk[f], by),
         UNCHANGED <<buffer, disk, resolving, closures, watched, handlers>>
  PROVE  DocInv'
  <1>1. Only(ix, ix, {}, {}) BY OnlySelf DEF DocInv, DocTyped
  <1>2. disk[f] \in Texts /\ 0 \in 0..MaxVersion /\ buffer[f].version \in 0..MaxVersion
    BY DocumentAssumption DEF DocInv, DocTyped
  <1>3. Past(f, 0, disk[f])
    BY <1>2, DocumentAssumption DEF Past
  <1>4. /\ handlers' \in [Files -> [open : BOOLEAN, content : Int]]
        /\ \A g \in Files : handlers'[g].open = handlers[g].open
    BY DEF DocInv, DocTyped
  <1> QED BY <1>1, <1>2, <1>3, <1>4, StartUpsertInv

LEMMA UpsertBuildInv ==
  ASSUME DocInv, NEW s, UpsertBuild(s)
  PROVE  DocInv'
  <1> DEFINE u == upserts[s]
             a == [u EXCEPT !.phase = "extract"]
             table == Wired(ix, u.file, u.text, Imports[<<u.file, u.text>>])
             b == [a EXCEPT !.table = table]
  <1>1. /\ s \in DOMAIN upserts /\ u \in Upsert
        /\ UNCHANGED <<ix, disk, buffer, handlers, resolving, closures, watched>>
    BY DEF UpsertBuild, diskVars, docVars, DocInv, DocTyped
  <1>2. upserts' = [upserts EXCEPT ![s] = b]
    BY DEF UpsertBuild, DocInv, DocTyped
  <1>3. table \in Tables
    <2>1. u.file \in Files /\ u.text \in Texts BY <1>1 DEF Upsert
    <2> QED BY <2>1, WiredTyped DEF DocInv, DocTyped
  <1> HIDE DEF table, u
  <1>4. a = [file |-> u.file, version |-> u.version, text |-> u.text, table |-> u.table,
             by |-> u.by, phase |-> "extract"]
    BY <1>1 DEF Upsert
  <1> HIDE DEF a
  <1>5. b = [file |-> u.file, version |-> u.version, text |-> u.text, table |-> table,
             by |-> u.by, phase |-> "extract"]
    BY <1>4
  <1> HIDE DEF b
  <1>6. b \in Upsert /\ b.file = u.file /\ b.version = u.version /\ b.text = u.text
    BY <1>1, <1>3, <1>5 DEF Upsert
  <1>7. /\ DOMAIN upserts' = DOMAIN upserts /\ upserts' = [r \in DOMAIN upserts' |-> upserts'[r]]
        /\ \A r \in DOMAIN upserts' : /\ upserts'[r] \in Upsert
                                     /\ upserts'[r].file = upserts[r].file
                                     /\ upserts'[r].version = upserts[r].version
                                     /\ upserts'[r].text = upserts[r].text
    BY <1>1, <1>2, <1>6 DEF u, DocInv, DocTyped
  <1>8. DocTyped' BY <1>1, <1>7 DEF DocInv, DocTyped
  <1>9. Only(ix, ix', {}, {}) BY <1>1, OnlySelf DEF DocInv, DocTyped
  <1>10. Versions'
    <2>1. \A r \in DOMAIN upserts' :
            Past(upserts'[r].file, upserts'[r].version, upserts'[r].text)
      BY <1>7 DEF DocInv, Versions, PastUpserts
    <2> QED BY <1>1, <1>9, <2>1, VersionsStep
  <1>11. EdgesRegistered'
    <2>1. \A g, d : Waits(g, d) => Waits(g, d)' BY <1>1, <1>7 DEF Waits, Running, IsOpen
    <2> QED BY <1>9, <2>1, EdgesStep
  <1> QED BY <1>8, <1>10, <1>11 DEF DocInv

\* What an upsert installs is registered, and what a change of the file marks
\* needs no edge.
LEMMA UpsertInstallInv ==
  ASSUME DocInv, NEW s, UpsertInstall(s)
  PROVE  DocInv'
  <1> DEFINE u == upserts[s]
             f == u.file
             k == InstallFull(ix, f, u.version, u.text, u.table)
             W == Watching(k, f)
  <1>1. /\ s \in DOMAIN upserts /\ upserts' = Without(upserts, s)
        /\ resolving' = Orphaned(f)
        /\ watched' = IF u.by = "watch" THEN Without(watched, f) ELSE watched
        /\ UNCHANGED <<disk, buffer, handlers>>
    BY DEF UpsertInstall, diskVars, docVars
  <1>2. /\ closures' = [g \in DOMAIN closures |->
              IF closures[g].awaits = s
              THEN [closures[g] EXCEPT !.phase = "resolve", !.awaits = None] ELSE closures[g]]
    BY DEF UpsertInstall
  <1>3. /\ u.by \in Indexing => ix' = RewireDependents(k, f)
        /\ u.by = "watch" => ix' = Stale(k, W, W)
        /\ u.by \notin Indexing /\ u.by # "watch" => ix' = k
    <2>1. u.by = "watch" => u.by \notin Indexing BY DEF Indexing
    <2>2. ix' = CASE u.by \in Indexing -> RewireDependents(k, f)
                  [] u.by = "watch"   -> Propagate(k, W)
                  [] OTHER            -> k
      BY DEF UpsertInstall
    <2> HIDE DEF k, W, f, u
    <2> QED BY <2>1, <2>2 DEF Propagate
  <1>4. u \in Upsert /\ Past(f, u.version, u.text)
    BY <1>1 DEF DocInv, DocTyped, Versions, PastUpserts
  <1>5. f \in Files /\ u.version \in Nat /\ u.text \in Texts /\ u.table \in Tables
    BY <1>4, DocumentAssumption DEF Upsert
  <1> HIDE DEF W, f, u
  <1>6. Written(ix, k, f, u.version, u.text)
    <2> DEFINE v == u.version
               t == u.text
               table == u.table
    <2>1. IsIndex(ix) BY DEF DocInv, DocTyped
    <2>2. v \in Nat /\ t \in Texts /\ table \in Tables BY <1>5
    <2> HIDE DEF v, t, table
    <2>3. k = InstallFull(ix, f, v, t, table) BY DEF v, t, table
    <2> HIDE DEF k
    <2>4. Written(ix, k, f, v, t) BY <1>5, <2>1, <2>2, <2>3, InstallOnly
    <2> QED BY <2>4 DEF v, t
  <1> HIDE DEF k
  <1>7. IsIndex(k) BY <1>6 DEF Written, Only
  <1>8. u.by = "watch" => \A g \in DOMAIN ix'.files : g \in W => ix'.files[g].stale
    BY <1>3, <1>7, StaleOnly
  <1>9. Written(ix, ix', f, u.version, u.text)
    <2>1. ix' = RewireDependents(k, f) \/ ix' = Stale(k, W, W) \/ ix' = k BY <1>3
    <2> QED BY <1>6, <2>1, WrittenThenMarked
  <1>10. /\ Only(ix, ix', {f}, {})
         /\ ix'.files[f].version = u.version /\ ix'.files[f].text = u.text
         /\ \A d \in ix'.files[f].deps : <<d, f>> \in ix'.dependents
    BY <1>9 DEF Written
  <1>11. /\ DOMAIN upserts' = DOMAIN upserts \ {s}
         /\ upserts' = [r \in DOMAIN upserts' |-> upserts'[r]]
         /\ \A r \in DOMAIN upserts' : r \in DOMAIN upserts /\ upserts'[r] = upserts[r]
    BY <1>1 DEF Without
  <1>12. /\ watched' = [g \in DOMAIN watched' |-> watched'[g]]
         /\ \A g \in DOMAIN watched' : g \in DOMAIN watched /\ watched'[g] = watched[g]
         /\ \A g \in DOMAIN watched : g \in DOMAIN watched' \/ (g = f /\ u.by = "watch")
    BY <1>1 DEF Without, DocInv, DocTyped
  <1>13. DocTyped'
    <2>1. /\ closures' = [g \in DOMAIN closures' |-> closures'[g]]
          /\ \A g \in DOMAIN closures' : Walk(closures'[g])
      <3>1. \A g \in DOMAIN closures : Walk(closures[g]) BY DEF DocInv, DocTyped
      <3>2. ASSUME NEW c, Walk(c)
            PROVE  Walk([c EXCEPT !.phase = "resolve", !.awaits = None])
        <4> DEFINE a == [c EXCEPT !.phase = "resolve"]
                   b == [a EXCEPT !.awaits = None]
        <4>1. a = [phase |-> "resolve", awaits |-> c.awaits, queue |-> c.queue, deps |-> c.deps,
                   visited |-> c.visited, at |-> c.at, text |-> c.text]
          BY <3>2 DEF Walk
        <4> HIDE DEF a
        <4>2. b = [phase |-> "resolve", awaits |-> None, queue |-> c.queue, deps |-> c.deps,
                   visited |-> c.visited, at |-> c.at, text |-> c.text]
          BY <4>1
        <4> HIDE DEF b
        <4>3. Walk(b) BY <3>2, <4>2 DEF Walk
        <4> QED BY <4>3 DEF a, b
      <3> QED BY <1>2, <3>1, <3>2
    <2>2. resolving' \subseteq Resolution BY <1>1, OrphanedTyped DEF DocInv, DocTyped
    <2>3. \A r \in DOMAIN upserts' : upserts'[r] \in Upsert BY <1>11 DEF DocInv, DocTyped
    <2>4. IsIndex(ix') BY <1>10 DEF Only
    <2>5. DOMAIN watched' \subseteq Files BY <1>12 DEF DocInv, DocTyped
    <2> QED BY <1>1, <1>11, <1>12, <2>1, <2>2, <2>3, <2>4, <2>5 DEF DocInv, DocTyped
  <1>14. Versions'
    <2>1. \A r \in DOMAIN upserts' :
            Past(upserts'[r].file, upserts'[r].version, upserts'[r].text)
      BY <1>11 DEF DocInv, Versions, PastUpserts
    <2>2. /\ ix'.files[f].version <= buffer[f].version
          /\ IsOpen(f) /\ ix'.files[f].version = buffer[f].version
               => ix'.files[f].text = buffer[f].text
      BY <1>4, <1>5, <1>10 DEF Past, DocInv, Versions, Buffers
    <2> QED BY <1>1, <1>10, <2>1, <2>2, VersionsStep
  <1>15. EdgesRegistered'
    <2>1. \A g : g # f /\ Running(g) => Running(g)' BY <1>11 DEF Running, f, u
    <2>2. ASSUME NEW g \in DOMAIN ix'.files, NEW d \in Files, g # f, Waits(g, d)
          PROVE  Waits(g, d)' \/ ix'.files[g].stale
      <3>1. CASE Running(g) BY <2>1, <2>2, <3>1 DEF Waits
      <3>2. CASE buffer[d].was /\ ~IsOpen(d) BY <1>1, <3>2 DEF Waits, IsOpen
      <3>3. ASSUME NEW h \in DOMAIN watched, watched[h].cut, g \in watched[h].dependents
            PROVE  Waits(g, d)' \/ ix'.files[g].stale
        <4>1. CASE h \in DOMAIN watched' BY <1>12, <3>3, <4>1 DEF Waits
        <4>2. CASE h = f /\ u.by = "watch"
          <5>1. g \in W BY <3>3, <4>2 DEF W, Watching
          <5> QED BY <1>8, <2>2, <4>2, <5>1
        <4> QED BY <1>12, <4>1, <4>2
      <3> QED BY <2>2, <3>1, <3>2, <3>3 DEF Waits
    <2> QED BY <1>10, <2>2, EdgesStep
  <1> QED BY <1>13, <1>14, <1>15 DEF DocInv


-------------------------------------------------------------------------------
(* Walks over the dependencies and watched files. *)

LEMMA WithDependenciesWalks ==
  ASSUME NEW c, Walk(c), NEW i, IsIndex(i)
  PROVE  Walk(WithDependencies(c, i))
  <1> DEFINE deps == IF Has(i, Head(c.queue)) THEN i.files[Head(c.queue)].deps ELSE {}
             a == [c EXCEPT !.phase = "deps"]
             b == [a EXCEPT !.deps = deps]
  <1>1. deps \subseteq Files BY DEF IsIndex, Entry, Has
  <1> HIDE DEF deps
  <1>2. a = [phase |-> "deps", awaits |-> c.awaits, queue |-> c.queue, deps |-> c.deps,
             visited |-> c.visited, at |-> c.at, text |-> c.text]
    BY DEF Walk
  <1> HIDE DEF a
  <1>3. b = [phase |-> "deps", awaits |-> c.awaits, queue |-> c.queue, deps |-> deps,
             visited |-> c.visited, at |-> c.at, text |-> c.text]
    BY <1>2
  <1> HIDE DEF b
  <1>4. Walk(b) BY <1>1, <1>3 DEF Walk
  <1> QED BY <1>4 DEF WithDependencies, a, b, deps

LEMMA ResolvingTyped ==
  ASSUME IsIndex(ix), NEW owner \in Files \cup {Query}, NEW f, Has(ix, f)
  PROVE  Resolving(owner, f) \in Resolution
  BY DEF IsIndex, Has, Entry, Resolving, Resolution

LEMMA ClosureResolveInv ==
  ASSUME DocInv, NEW f \in Files, ClosureResolve(f)
  PROVE  DocInv'
  <1> DEFINE u == Head(closures[f].queue)
  <1>1. /\ f \in DOMAIN closures
        /\ UNCHANGED <<ix, buffer, disk, handlers, upserts, watched>>
        /\ \/ /\ NeedsResolving(u) /\ UNCHANGED closures
              /\ resolving' = resolving \cup {Resolving(f, u)}
           \/ /\ closures' = [closures EXCEPT ![f] = WithDependencies(@, ix)]
              /\ UNCHANGED resolving
    BY DEF ClosureResolve, diskVars, docVars
  <1> HIDE DEF u
  <1>2. resolving' \subseteq Resolution
    BY <1>1, ResolvingTyped DEF NeedsResolving, DocInv, DocTyped
  <1>3. /\ closures' = [g \in DOMAIN closures' |-> closures'[g]]
        /\ \A g \in DOMAIN closures' : Walk(closures'[g])
    <2>1. /\ closures = [g \in DOMAIN closures |-> closures[g]]
          /\ \A g \in DOMAIN closures : Walk(closures[g])
          /\ Walk(WithDependencies(closures[f], ix))
      BY <1>1, WithDependenciesWalks DEF DocInv, DocTyped
    <2> QED BY <1>1, <2>1
  <1> QED BY <1>1, <1>2, <1>3, QuietInv

\* One field of a walk changes.
LEMMA WalkFields ==
  ASSUME NEW c, Walk(c), NEW v
  PROVE  /\ v # "read" => Walk([c EXCEPT !.phase = v])
         /\ v \subseteq Files => Walk([c EXCEPT !.deps = v])
         /\ Walk([c EXCEPT !.visited = v]) /\ Walk([c EXCEPT !.queue = v])
         /\ v \in Texts \cup {Gone} => Walk([c EXCEPT !.text = v])
  BY DEF Walk

LEMMA ClosureDepsInv ==
  ASSUME DocInv, NEW f \in Files, ClosureDeps(f)
  PROVE  DocInv'
  <1> DEFINE c == closures[f]
             seen(d) == [c EXCEPT !.phase = "read", !.at = d, !.deps = @ \ {d},
                                  !.visited = @ \cup {d}]
             more == [c EXCEPT !.phase = "resolve", !.queue = Tail(c.queue), !.deps = {}]
  <1>1. /\ f \in DOMAIN closures
        /\ UNCHANGED <<ix, buffer, disk, handlers, upserts, watched, resolving>>
    BY DEF ClosureDeps, diskVars, docVars
  <1>2. \/ \E d \in c.deps : closures' = [closures EXCEPT ![f] = seen(d)]
        \/ closures' = [closures EXCEPT ![f] = more]
        \/ closures' = Without(closures, f)
    BY DEF ClosureDeps
  <1>3. Walk(c) BY <1>1 DEF DocInv, DocTyped
  <1> HIDE DEF c
  <1>4. ASSUME NEW d \in c.deps PROVE Walk(seen(d))
    <2> DEFINE a1 == [c EXCEPT !.phase = "read"]
               a2 == [a1 EXCEPT !.at = d]
               a3 == [a2 EXCEPT !.deps = @ \ {d}]
               a4 == [a3 EXCEPT !.visited = @ \cup {d}]
    <2>1. a1 = [phase |-> "read", awaits |-> c.awaits, queue |-> c.queue, deps |-> c.deps,
                visited |-> c.visited, at |-> c.at, text |-> c.text]
      BY <1>3 DEF Walk
    <2> HIDE DEF a1
    <2>2. a2 = [phase |-> "read", awaits |-> c.awaits, queue |-> c.queue, deps |-> c.deps,
                visited |-> c.visited, at |-> d, text |-> c.text]
      BY <2>1
    <2> HIDE DEF a2
    <2>3. a3 = [phase |-> "read", awaits |-> c.awaits, queue |-> c.queue,
                deps |-> c.deps \ {d}, visited |-> c.visited, at |-> d, text |-> c.text]
      BY <2>2
    <2> HIDE DEF a3
    <2>4. Walk(a3) BY <1>3, <1>4, <2>3 DEF Walk
    <2>5. Walk(a4)
      <3> DEFINE v == a3.visited \cup {d}
      <3> HIDE DEF v
      <3>1. Walk([a3 EXCEPT !.visited = v]) BY <2>4, WalkFields
      <3> QED BY <3>1 DEF v
    <2> QED BY <2>5 DEF a1, a2, a3
  <1>5. Walk(more)
    <2> DEFINE a1 == [c EXCEPT !.phase = "resolve"]
               tail == Tail(c.queue)
               a2 == [a1 EXCEPT !.queue = tail]
    <2> HIDE DEF tail
    <2>1. Walk(a1) BY <1>3, WalkFields
    <2> HIDE DEF a1
    <2>2. Walk(a2) BY <2>1, WalkFields
    <2> HIDE DEF a2
    <2>3. Walk([a2 EXCEPT !.deps = {}]) BY <2>2, WalkFields
    <2> QED BY <2>3 DEF a1, a2, tail
  <1> HIDE DEF seen, more
  <1>6. /\ closures' = [g \in DOMAIN closures' |-> closures'[g]]
        /\ \A g \in DOMAIN closures' : Walk(closures'[g])
    BY <1>1, <1>2, <1>4, <1>5 DEF DocInv, DocTyped, Without
  <1>7. resolving' \subseteq Resolution BY <1>1 DEF DocInv, DocTyped
  <1> QED BY <1>1, <1>6, <1>7, QuietInv

LEMMA ClosureReadInv ==
  ASSUME DocInv, NEW f \in Files, ClosureRead(f)
  PROVE  DocInv'
  <1> DEFINE c == closures[f]
             t == disk[c.at]
             a == [c EXCEPT !.text = t]
             b == [c EXCEPT !.phase = "deps"]
  <1>1. /\ f \in DOMAIN closures
        /\ UNCHANGED <<ix, buffer, disk, handlers, upserts, watched, resolving>>
        /\ \/ t # Gone /\ closures' = [closures EXCEPT ![f].text = t]
           \/ closures' = [closures EXCEPT ![f].phase = "deps"]
    BY DEF ClosureRead, diskVars, docVars
  <1>2. closures = [g \in DOMAIN closures |-> closures[g]] BY DEF DocInv, DocTyped
  <1>3. Walk(c) /\ c.phase = "read" BY <1>1 DEF DocInv, DocTyped, ClosureRead
  <1>4. t \in Texts \cup {Gone} BY <1>3 DEF DocInv, DocTyped, Walk
  <1>5. closures' = [closures EXCEPT ![f] = a] \/ closures' = [closures EXCEPT ![f] = b]
    BY <1>1, <1>2
  <1> HIDE DEF c, t
  <1>6. Walk(a) /\ Walk(b) BY <1>3, <1>4, WalkFields
  <1> HIDE DEF a, b
  <1>7. /\ closures' = [g \in DOMAIN closures' |-> closures'[g]]
        /\ \A g \in DOMAIN closures' : Walk(closures'[g])
    BY <1>1, <1>5, <1>6 DEF DocInv, DocTyped
  <1>8. resolving' \subseteq Resolution BY <1>1 DEF DocInv, DocTyped
  <1> QED BY <1>1, <1>7, <1>8, QuietInv

\* A file a walk has read from disk, which may be open by now, is of version 1.
LEMMA ClosureInstallInv ==
  ASSUME DocInv, NEW f \in Files, ClosureInstall(f)
  PROVE  DocInv'
  <1> DEFINE c == closures[f]
             d == c.at
             t == c.text
             a == [c EXCEPT !.phase = "deps", !.queue = Append(@, d), !.text = Gone]
             k(warm) == UpsertBackgroundFile(ix, d, 1, t, warm)
  <1>1. /\ f \in DOMAIN closures /\ c.phase = "read" /\ t # Gone
        /\ UNCHANGED <<buffer, disk, handlers, upserts, watched>>
        /\ \E warm : ix' = RewireDependents(k(warm), d)
        /\ resolving' = Orphaned(d) /\ closures' = [closures EXCEPT ![f] = a]
    BY DEF ClosureInstall, diskVars, docVars
  <1>3. Walk(c) /\ d \in Files /\ t \in Texts BY <1>1 DEF DocInv, DocTyped, Walk
  <1> HIDE DEF c, d, t
  <1>4. Walk(a)
    <2> DEFINE a1 == [c EXCEPT !.phase = "deps"]
               q == Append(a1.queue, d)
               a2 == [a1 EXCEPT !.queue = q]
    <2>1. Walk(a1) BY <1>3, WalkFields
    <2> HIDE DEF a1, q
    <2>2. Walk(a2) BY <2>1, WalkFields
    <2> HIDE DEF a2
    <2>3. Walk([a2 EXCEPT !.text = Gone]) BY <2>2, WalkFields
    <2> QED BY <2>3 DEF a1, a2, q
  <1> HIDE DEF a
  <1>6. /\ closures' = [g \in DOMAIN closures' |-> closures'[g]]
        /\ \A g \in DOMAIN closures' : Walk(closures'[g])
    BY <1>1, <1>4 DEF DocInv, DocTyped
  <1>7. resolving' \subseteq Resolution BY <1>1, OrphanedTyped DEF DocInv, DocTyped
  <1>8. PICK warm : ix' = RewireDependents(k(warm), d) BY <1>1
  <1> DEFINE j == k(warm)
  <1>9. IsIndex(ix) /\ 1 \in Nat BY DEF DocInv, DocTyped
  <1>10. ix' = RewireDependents(j, d) BY <1>8
  <1>11. j = UpsertBackgroundFile(ix, d, 1, t, warm) OBVIOUS
  <1> HIDE DEF j, k
  <1>12. Written(ix, j, d, 1, t) BY <1>3, <1>9, <1>11, UpsertBackgroundFileOnly
  <1>13. Written(ix, ix', d, 1, t) BY <1>10, <1>12, WrittenThenMarked
  <1>14. Only(ix, ix', {d}, {}) BY <1>13 DEF Written
  <1>15. DocTyped' BY <1>1, <1>6, <1>7, <1>14 DEF DocInv, DocTyped, Only
  <1>16. Versions'
    <2>1. \A s \in DOMAIN upserts' :
            Past(upserts'[s].file, upserts'[s].version, upserts'[s].text)
      BY <1>1 DEF DocInv, Versions, PastUpserts
    <2> QED BY <1>1, <1>13, <1>14, <2>1, VersionsStep DEF Written
  <1>17. EdgesRegistered'
    <2>1. \A g, e : Waits(g, e) => Waits(g, e)' BY <1>1 DEF Waits, Running, IsOpen
    <2> QED BY <1>13, <1>14, <2>1, EdgesStep DEF Written
  <1> QED BY <1>15, <1>16, <1>17 DEF DocInv

\* One entry is replaced, if there is one.
Replaced(i, j, f, e) ==
  /\ IsIndex(j) /\ DOMAIN j.files = DOMAIN i.files /\ j.dependents = i.dependents
  /\ f \in DOMAIN i.files => j.files[f] = e
  /\ \A g \in DOMAIN i.files : g # f => j.files[g] = i.files[g]

LEMMA EntryReplaced ==
  ASSUME NEW i, IsIndex(i), NEW f, NEW e, f \in DOMAIN i.files => e \in Entry,
         NEW j, j = [i EXCEPT !.files[f] = e]
  PROVE  Replaced(i, j, f, e)
  <1> DEFINE fs == [i.files EXCEPT ![f] = e]
  <1>1. i = [files |-> i.files, dependents |-> i.dependents] BY DEF IsIndex
  <1>2. j = [i EXCEPT !.files = fs] BY <1>1
  <1>3. i.files = [g \in DOMAIN i.files |-> i.files[g]] BY DEF IsIndex
  <1>4. /\ fs = [g \in DOMAIN fs |-> fs[g]] /\ DOMAIN fs = DOMAIN i.files
        /\ \A g \in DOMAIN i.files : fs[g] = IF g = f THEN e ELSE i.files[g]
    BY <1>3
  <1> HIDE DEF fs
  <1>5. \A g \in DOMAIN i.files : fs[g] \in Entry BY <1>4 DEF IsIndex
  <1>6. IsIndex(j) /\ j.files = fs BY <1>2, <1>4, <1>5, EntriesTyped
  <1>7. j.dependents = i.dependents BY <1>1, <1>2
  <1> QED BY <1>4, <1>6, <1>7 DEF Replaced

\* A resolution that ends keeps every edge and registers what it found.
LEMMA ResolvedKeeps ==
  ASSUME IsIndex(ix), NEW r \in Resolution, NEW j, j = Resolved(r)
  PROVE  /\ Only(ix, j, {r.file}, {}) /\ ix.dependents \subseteq j.dependents
         /\ DOMAIN j.files = DOMAIN ix.files
         /\ r.file \in DOMAIN ix.files =>
              /\ j.files[r.file].version = ix.files[r.file].version
              /\ j.files[r.file].text = ix.files[r.file].text
              /\ j.files[r.file].stale = ix.files[r.file].stale
              /\ \/ j.files[r.file].deps = ix.files[r.file].deps
                 \/ \A d \in j.files[r.file].deps : <<d, r.file>> \in j.dependents
         /\ \A g \in DOMAIN ix.files : /\ j.files[g].stale = ix.files[g].stale
                                       /\ j.files[g].table = ix.files[g].table
  <1> DEFINE f == r.file
             deps == Imports[<<f, r.text>>]
             e1 == [ix.files[f] EXCEPT !.resolved = TRUE]
             a == [ix EXCEPT !.files[f] = e1]
             e2 == [a.files[f] EXCEPT !.deps = IF deps = {} THEN a.files[f].deps ELSE deps]
             b == [a EXCEPT !.files[f] = e2]
             i == IF r.live THEN b ELSE ix
  <1>1. f \in Files /\ deps \in SUBSET Files /\ r.live \in BOOLEAN
    BY ImportsAssumption DEF Resolution
  <1>2. j = RegisterReverseDeps(i, f, deps) BY DEF Resolved
  <1> HIDE DEF f, deps
  <1>3. f \in DOMAIN ix.files =>
          /\ e1 \in Entry /\ e1.version = ix.files[f].version /\ e1.text = ix.files[f].text
          /\ e1.stale = ix.files[f].stale /\ e1.deps = ix.files[f].deps
          /\ e1.table = ix.files[f].table
    BY DEF IsIndex, Entry
  <1> HIDE DEF e1
  <1>4. /\ IsIndex(a) /\ DOMAIN a.files = DOMAIN ix.files /\ a.dependents = ix.dependents
        /\ f \in DOMAIN ix.files => a.files[f] = e1
        /\ \A g \in DOMAIN ix.files : g # f => a.files[g] = ix.files[g]
    <2>1. Replaced(ix, a, f, e1) BY <1>3, EntryReplaced
    <2> QED BY <2>1 DEF Replaced
  <1> HIDE DEF a
  <1>5. f \in DOMAIN ix.files =>
          /\ e2 \in Entry /\ e2.version = ix.files[f].version /\ e2.text = ix.files[f].text
          /\ e2.stale = ix.files[f].stale /\ (e2.deps = ix.files[f].deps \/ e2.deps = deps)
          /\ e2.table = ix.files[f].table
    BY <1>1, <1>3, <1>4 DEF IsIndex, Entry
  <1> HIDE DEF e2
  <1>6. /\ IsIndex(b) /\ DOMAIN b.files = DOMAIN a.files /\ b.dependents = a.dependents
        /\ f \in DOMAIN a.files => b.files[f] = e2
        /\ \A g \in DOMAIN a.files : g # f => b.files[g] = a.files[g]
    <2>1. Replaced(a, b, f, e2) BY <1>4, <1>5, EntryReplaced
    <2> QED BY <2>1 DEF Replaced
  <1> HIDE DEF b
  <1>7. /\ IsIndex(i) /\ DOMAIN i.files = DOMAIN ix.files /\ i.dependents = ix.dependents
        /\ f \in DOMAIN ix.files =>
             /\ i.files[f].version = ix.files[f].version /\ i.files[f].text = ix.files[f].text
             /\ i.files[f].stale = ix.files[f].stale /\ i.files[f].table = ix.files[f].table
             /\ i.files[f].deps = ix.files[f].deps \/ i.files[f].deps = deps
        /\ \A g \in DOMAIN ix.files : g # f => i.files[g] = ix.files[g]
    BY <1>4, <1>5, <1>6
  <1> HIDE DEF i
  <1>8. IsIndex(j) /\ j.files = i.files BY <1>1, <1>2, <1>7, RegisterTyped
  <1>9. j.dependents = i.dependents \cup {<<d, f>> : d \in deps}
    BY <1>2, <1>7 DEF RegisterReverseDeps, IsIndex
  <1>10. \A g \in DOMAIN j.files : g # f => Same(ix, j, g)
    BY <1>7, <1>8 DEF Same
  <1>11. Only(ix, j, {f}, {}) BY <1>7, <1>8, <1>9, <1>10 DEF Only
  <1>12. f \in DOMAIN ix.files =>
           \/ j.files[f].deps = ix.files[f].deps
           \/ \A d \in j.files[f].deps : <<d, f>> \in j.dependents
    BY <1>7, <1>8, <1>9
  <1> QED BY <1>7, <1>8, <1>9, <1>11, <1>12 DEF f

LEMMA ResolveEndsInv ==
  ASSUME DocInv, NEW r \in resolving, ResolveEnds(r)
  PROVE  DocInv'
  <1> DEFINE f == r.file
  <1>1. /\ ix' = Resolved(r) /\ resolving' = resolving \ {r}
        /\ UNCHANGED <<buffer, disk, handlers, upserts, watched>>
        /\ closures' = IF r.owner \in DOMAIN closures
                       THEN [closures EXCEPT ![r.owner] = WithDependencies(@, ix')] ELSE closures
    BY DEF ResolveEnds, diskVars, docVars
  <1>2. IsIndex(ix) /\ r \in Resolution /\ f \in Files
    BY DEF DocInv, DocTyped, Resolution
  <1>3. /\ Only(ix, ix', {f}, {}) /\ ix.dependents \subseteq ix'.dependents
        /\ DOMAIN ix'.files = DOMAIN ix.files
        /\ f \in DOMAIN ix.files =>
              /\ ix'.files[f].version = ix.files[f].version
              /\ ix'.files[f].text = ix.files[f].text
              /\ ix'.files[f].stale = ix.files[f].stale
              /\ \/ ix'.files[f].deps = ix.files[f].deps
                 \/ \A d \in ix'.files[f].deps : <<d, f>> \in ix'.dependents
    BY <1>1, <1>2, ResolvedKeeps
  <1> HIDE DEF f
  <1>4. DocTyped'
    <2>1. IsIndex(ix') BY <1>3 DEF Only
    <2>2. /\ closures' = [g \in DOMAIN closures' |-> closures'[g]]
          /\ \A g \in DOMAIN closures' : Walk(closures'[g])
      <3>1. /\ closures = [g \in DOMAIN closures |-> closures[g]]
            /\ \A g \in DOMAIN closures :
                 Walk(closures[g]) /\ Walk(WithDependencies(closures[g], ix'))
        BY <2>1, WithDependenciesWalks DEF DocInv, DocTyped
      <3> QED BY <1>1, <3>1
    <2> QED BY <1>1, <2>1, <2>2 DEF DocInv, DocTyped
  <1>5. Versions'
    <2>1. f \in DOMAIN ix'.files =>
            /\ ix'.files[f].version <= 1 \/ ix'.files[f].version <= buffer[f].version
            /\ IsOpen(f) /\ buffer[f].version > 1 /\ ix'.files[f].version = buffer[f].version
                 => ix'.files[f].text = buffer[f].text
      BY <1>3 DEF DocInv, Versions, PastEntries, VersionIdentifiesText
    <2>2. Buffers' BY <1>1 DEF DocInv, Versions, Buffers, IsOpen
    <2>3. PastUpserts' BY <1>1 DEF DocInv, Versions, PastUpserts, Past
    <2>4. \A g \in DOMAIN ix'.files : g # f =>
            /\ g \in DOMAIN ix.files
            /\ ix'.files[g].version = ix.files[g].version /\ ix'.files[g].text = ix.files[g].text
      BY <1>3 DEF Only, Same
    <2>5. PastEntries' BY <1>1, <2>1, <2>4 DEF DocInv, Versions, PastEntries
    <2>6. VersionIdentifiesText'
      BY <1>1, <2>1, <2>4 DEF DocInv, Versions, VersionIdentifiesText, IsOpen
    <2> QED BY <2>2, <2>3, <2>5, <2>6 DEF Versions
  <1>6. EdgesRegistered'
    <2>1. \A g, d : Waits(g, d) => Waits(g, d)' BY <1>1 DEF Waits, Running, IsOpen
    <2>2. ASSUME f \in DOMAIN ix'.files, NEW d \in ix'.files[f].deps
          PROVE  <<d, f>> \in ix'.dependents \/ ix'.files[f].stale \/ Waits(f, d)'
      <3>1. CASE d \in ix.files[f].deps
        <4>1. <<d, f>> \in ix.dependents \/ ix.files[f].stale \/ Waits(f, d)
          BY <1>3, <2>2, <3>1 DEF DocInv, EdgesRegistered, Waits
        <4> QED BY <1>3, <2>1, <2>2, <4>1
      <3> QED BY <1>3, <2>2, <3>1
    <2> QED BY <1>3, <2>1, <2>2, EdgesStep
  <1> QED BY <1>4, <1>5, <1>6 DEF DocInv

\* The file is forgotten; who depended on it is kept until it is read again.
LEMMA FileChangedInv ==
  ASSUME DocInv, NEW f \in Files, FileChanged(f)
  PROVE  DocInv'
  <1> DEFINE G == GetDependents(ix, f)
             e == [cut |-> Has(ix, f), dependents |-> G]
  <1>1. /\ f \notin DOMAIN watched
        /\ ix' = RemoveFile(ix, f) /\ resolving' = Orphaned(f)
        /\ watched' = IF G = {} THEN watched ELSE With(watched, f, e)
        /\ UNCHANGED <<buffer, disk, handlers, upserts, closures>>
    BY DEF FileChanged, docVars
  <1>2. IsIndex(ix) BY DEF DocInv, DocTyped
  <1>3. Only(ix, ix', {f}, {f}) /\ f \notin DOMAIN ix'.files BY <1>1, <1>2, RemoveFileOnly
  <1>4. e.cut = Has(ix, f) /\ e.dependents = G OBVIOUS
  <1> HIDE DEF e
  <1>5. /\ watched' = [g \in DOMAIN watched' |-> watched'[g]] /\ DOMAIN watched' \subseteq Files
        /\ \A g \in DOMAIN watched : g \in DOMAIN watched' /\ watched'[g] = watched[g]
        /\ G # {} => f \in DOMAIN watched' /\ watched'[f] = e
    BY <1>1 DEF DocInv, DocTyped, With
  <1>6. DocTyped' BY <1>1, <1>3, <1>5, OrphanedTyped DEF DocInv, DocTyped, Only
  <1>7. Versions'
    <2>1. \A s \in DOMAIN upserts' :
            Past(upserts'[s].file, upserts'[s].version, upserts'[s].text)
      BY <1>1 DEF DocInv, Versions, PastUpserts
    <2> QED BY <1>1, <1>3, <2>1, VersionsStep
  <1>8. EdgesRegistered'
    <2>1. \A g, d : Waits(g, d) => Waits(g, d)' BY <1>1, <1>5 DEF Waits, Running, IsOpen
    <2>2. CASE ~Has(ix, f)
      <3>1. ix' = ix BY <1>1, <2>2 DEF RemoveFile
      <3>2. Only(ix, ix', {}, {}) BY <1>2, <3>1, OnlySelf
      <3> QED BY <2>1, <3>2, EdgesStep
    <2>3. CASE Has(ix, f)
      <3>1. ASSUME NEW g \in Files, <<f, g>> \in ix.dependents PROVE Waits(g, f)'
        <4>1. g \in G BY <3>1 DEF GetDependents
        <4>2. f \in DOMAIN watched' /\ watched'[f].cut /\ g \in watched'[f].dependents
          BY <1>4, <1>5, <2>3, <4>1
        <4> QED BY <4>2 DEF Waits
      <3>2. DOMAIN ix'.files \subseteq Files BY <1>6 DEF DocTyped, IsIndex
      <3> QED BY <1>3, <2>1, <3>1, <3>2, EdgesStep
    <2> QED BY <2>2, <2>3
  <1> QED BY <1>6, <1>7, <1>8 DEF DocInv

LEMMA WatchReadInv ==
  ASSUME DocInv, NEW f \in Files, WatchRead(f)
  PROVE  DocInv'
  <1>1. /\ f \in DOMAIN watched
        /\ UNCHANGED <<buffer, disk, handlers, resolving, closures>>
    BY DEF WatchRead, docVars, diskVars
  <1>2. CASE disk[f] # Gone /\ StartUpsert(ix, f, 0, disk[f], "watch") /\ UNCHANGED watched
    BY <1>1, <1>2, StartDiskInv DEF Callers
  <1>3. CASE /\ ix' = Propagate(ix, Watching(ix, f)) /\ watched' = Without(watched, f)
             /\ UNCHANGED upserts
    <2> DEFINE W == Watching(ix, f)
    <2>1. IsIndex(ix) BY DEF DocInv, DocTyped
    <2>2. ix' = Stale(ix, W, W) BY <1>3 DEF Propagate
    <2>3. watched[f].cut => W = watched[f].dependents BY DEF Watching
    <2> HIDE DEF W
    <2>4. /\ Only(ix, ix', {}, {}) /\ \A g \in DOMAIN ix'.files : g \in W => ix'.files[g].stale
      BY <2>1, <2>2, StaleOnly
    <2>5. /\ watched' = [g \in DOMAIN watched' |-> watched'[g]] /\ DOMAIN watched' \subseteq Files
          /\ \A g \in DOMAIN watched : g # f => g \in DOMAIN watched' /\ watched'[g] = watched[g]
      BY <1>3 DEF DocInv, DocTyped, Without
    <2>6. DocTyped' BY <1>1, <1>3, <2>4, <2>5 DEF DocInv, DocTyped, Only
    <2>7. Versions'
      <3>1. \A s \in DOMAIN upserts' :
              Past(upserts'[s].file, upserts'[s].version, upserts'[s].text)
        BY <1>3 DEF DocInv, Versions, PastUpserts
      <3> QED BY <1>1, <2>4, <3>1, VersionsStep
    <2>8. EdgesRegistered'
      <3>1. ASSUME NEW g \in DOMAIN ix'.files, NEW d, Waits(g, d)
            PROVE  Waits(g, d)' \/ ix'.files[g].stale
        <4>1. CASE Running(g) BY <1>3, <4>1 DEF Waits, Running
        <4>2. CASE buffer[d].was /\ ~IsOpen(d) BY <1>1, <4>2 DEF Waits, IsOpen
        <4>3. ASSUME NEW h \in DOMAIN watched, watched[h].cut, g \in watched[h].dependents
              PROVE  Waits(g, d)' \/ ix'.files[g].stale
          <5>1. CASE h = f BY <2>3, <2>4, <3>1, <4>3, <5>1
          <5>2. CASE h # f BY <2>5, <4>3, <5>2 DEF Waits
          <5> QED BY <5>1, <5>2
        <4> QED BY <3>1, <4>1, <4>2, <4>3 DEF Waits
      <3> QED BY <2>4, <3>1, EdgesStep
    <2> QED BY <2>6, <2>7, <2>8 DEF DocInv
  <1> QED BY <1>2, <1>3 DEF WatchRead

LEMMA FileDeletedInv ==
  ASSUME DocInv, NEW f \in Files, FileDeleted(f)
  PROVE  DocInv'
  <1> DEFINE G == GetDependents(ix, f)
             k == RemoveFile(ix, f)
  <1>1. /\ ix' = Stale(k, G, G) /\ resolving' = Orphaned(f)
        /\ UNCHANGED <<buffer, disk, handlers, upserts, closures, watched>>
    BY DEF FileDeleted, Propagate, docVars
  <1>2. IsIndex(ix) BY DEF DocInv, DocTyped
  <1>3. Only(ix, k, {f}, {f}) /\ IsIndex(k) /\ f \notin DOMAIN k.files
    BY <1>2, RemoveFileOnly DEF Only
  <1> HIDE DEF k, G
  <1>4. /\ Only(k, ix', {f}, {f}) /\ DOMAIN ix'.files = DOMAIN k.files
        /\ \A g \in DOMAIN ix'.files : g \in G => ix'.files[g].stale
    BY <1>1, <1>3, StaleOnly
  <1>5. Only(ix, ix', {f}, {f}) /\ f \notin DOMAIN ix'.files BY <1>3, <1>4, OnlyTrans
  <1>6. DocTyped' BY <1>1, <1>5, OrphanedTyped DEF DocInv, DocTyped, Only
  <1>7. Versions'
    <2>1. \A s \in DOMAIN upserts' :
            Past(upserts'[s].file, upserts'[s].version, upserts'[s].text)
      BY <1>1 DEF DocInv, Versions, PastUpserts
    <2> QED BY <1>1, <1>5, <2>1, VersionsStep
  <1>8. EdgesRegistered'
    <2>1. \A g, d : Waits(g, d) => Waits(g, d)' BY <1>1 DEF Waits, Running, IsOpen
    <2>2. DOMAIN ix'.files \subseteq Files BY <1>6 DEF DocTyped, IsIndex
    <2>3. \A g \in DOMAIN ix'.files : <<f, g>> \in ix.dependents => ix'.files[g].stale
      BY <1>4, <2>2 DEF G, GetDependents
    <2> QED BY <1>5, <2>1, <2>3, EdgesStep
  <1> QED BY <1>6, <1>7, <1>8 DEF DocInv

-------------------------------------------------------------------------------
(* Queries, repairs and the events of the editor. *)

\* The index, the documents, the walks and the watched files stay as they are.
LEMMA RestInv ==
  ASSUME DocInv, UNCHANGED <<ix, buffer, disk, handlers, upserts, watched, closures>>,
         resolving' \subseteq Resolution
  PROVE  DocInv'
  <1>1. /\ closures' = [f \in DOMAIN closures' |-> closures'[f]]
        /\ \A f \in DOMAIN closures' : Walk(closures'[f])
    BY DEF DocInv, DocTyped
  <1> QED BY <1>1, QuietInv

LEMMA QueryInv ==
  ASSUME DocInv, NEW f \in Files, Ask(f) \/ AskAgain(f) \/ OnDemandIndex(f) \/ Resolve(f)
  PROVE  DocInv'
  <1>1. UNCHANGED <<buffer, disk, handlers, watched, closures>>
    BY DEF Ask, AskAgain, OnDemandIndex, Resolve, docVars, diskVars
  <1>2. resolving \subseteq Resolution BY DEF DocInv, DocTyped
  <1>3. CASE Ask(f)
    <2>1. UNCHANGED resolving BY <1>3 DEF Ask
    <2>2. CASE UNCHANGED <<ix, upserts>> BY <1>1, <1>2, <2>1, <2>2, RestInv
    <2>3. CASE StartUpsert(ix, f, buffer[f].version, buffer[f].text, "query")
      BY <1>1, <2>1, <2>3, StartOwnInv DEF Callers, Recorded
    <2> QED BY <1>3, <2>2, <2>3 DEF Ask
  <1>4. CASE AskAgain(f)
    <2>1. UNCHANGED resolving BY <1>4 DEF AskAgain
    <2>2. CASE UNCHANGED <<ix, upserts>> BY <1>1, <1>2, <2>1, <2>2, RestInv
    <2>3. CASE StartUpsert(ix, f, buffer[f].version, buffer[f].text, "query")
      BY <1>1, <2>1, <2>3, StartOwnInv DEF Callers, Recorded
    <2> QED BY <1>4, <2>2, <2>3 DEF AskAgain
  <1>5. CASE OnDemandIndex(f)
    <2>1. /\ UNCHANGED resolving /\ disk[f] # Gone
          /\ StartUpsert(ix, f, 0, disk[f], "demand")
      BY <1>5 DEF OnDemandIndex
    <2> QED BY <1>1, <2>1, StartDiskInv DEF Callers
  <1>6. CASE Resolve(f)
    <2>1. /\ UNCHANGED <<ix, upserts>> /\ Has(ix, f)
          /\ resolving' = resolving \cup {Resolving(Query, f)}
      BY <1>6 DEF Resolve, NeedsResolving
    <2>2. resolving' \subseteq Resolution
      <3>1. Query \in Files \cup {Query} /\ IsIndex(ix) BY DEF DocInv, DocTyped
      <3>2. Resolving(Query, f) \in Resolution BY <2>1, <3>1, ResolvingTyped
      <3> QED BY <1>2, <2>1, <3>2
    <2> QED BY <1>1, <2>1, <2>2, RestInv
  <1> QED BY <1>3, <1>4, <1>5, <1>6

LEMMA RepairInv ==
  ASSUME DocInv, RepairSteps
  PROVE  DocInv'
  <1>1. UNCHANGED <<buffer, disk, handlers, watched, closures, resolving>>
    BY DEF RepairSteps, RepairStarts, RepairReindex, RepairInstalls, RepairInstall,
           RepairRoundEnds, docVars, diskVars
  <1>2. CASE UNCHANGED <<ix, upserts>>
    <2>1. resolving' \subseteq Resolution BY <1>1 DEF DocInv, DocTyped
    <2> QED BY <1>1, <1>2, <2>1, RestInv
  <1>3. CASE RepairReindex
    <2>1. PICK n \in 1..Len(repair.todo) :
            NeedsRepair(repair.todo[n]) /\ ParseAndIndex(repair.todo[n], "repair")
      BY <1>3 DEF RepairReindex
    <2> DEFINE f == repair.todo[n]
    <2>2. f \in Files BY <2>1 DEF NeedsRepair, Has, DocInv, DocTyped, IsIndex
    <2>3. ParseAndIndex(f, "repair") BY <2>1
    <2> HIDE DEF f
    <2>4. /\ handlers' \in [Files -> [open : BOOLEAN, content : Int]]
          /\ \A g \in Files : handlers'[g].open = handlers[g].open
      BY <1>1 DEF DocInv, DocTyped
    <2>5. "repair" \in Callers BY DEF Callers, Recorded, Indexing
    <2> QED BY <1>1, <2>2, <2>3, <2>4, <2>5, ParseAndIndexInv
  <1>4. CASE RepairInstall
    <2>1. PICK f \in Files : StartUpsert(ix, f, buffer[f].version, buffer[f].text, "install")
      BY <1>4 DEF RepairInstall
    <2> QED BY <1>1, <2>1, StartOwnInv DEF Callers
  <1> QED BY <1>2, <1>3, <1>4 DEF RepairSteps, RepairStarts, RepairInstalls, RepairRoundEnds

LEMMA SaveInv ==
  ASSUME DocInv, NEW f \in Files, Save(f) \/ \E t \in Texts \cup {Gone} : WriteDisk(f, t)
  PROVE  DocInv'
  <1>1. UNCHANGED <<ix, buffer, handlers, upserts, watched, resolving, closures>>
    BY DEF Save, WriteDisk, docVars
  <1>2. PICK t \in Texts \cup {Gone} : disk' = [disk EXCEPT ![f] = t]
    BY DEF Save, WriteDisk, DocInv, DocTyped
  <1>3. disk' \in [Files -> Texts \cup {Gone}] BY <1>2 DEF DocInv, DocTyped
  <1> QED BY <1>1, <1>2, <1>3, DiskInv

LEMMA DocInit == Init => DocInv
  <1> SUFFICES ASSUME Init PROVE DocInv OBVIOUS
  <1>1. ix = EmptyIndex /\ IsIndex(ix) /\ DOMAIN ix.files = {}
    BY EmptyIndexTyped DEF Init
  <1>2. DocTyped
    BY <1>1, DocumentAssumption DEF Init, DocTyped
  <1>3. Versions
    BY <1>1 DEF Init, Versions, Buffers, PastUpserts, PastEntries, VersionIdentifiesText, IsOpen
  <1>4. EdgesRegistered BY <1>1 DEF EdgesRegistered
  <1> QED BY <1>2, <1>3, <1>4 DEF DocInv

LEMMA DocNext == DocInv /\ [Next]_vars => DocInv'
  <1> SUFFICES ASSUME DocInv, [Next]_vars PROVE DocInv' OBVIOUS
  <1>1. CASE UNCHANGED vars
    <2>1. UNCHANGED <<ix, buffer, disk, handlers, upserts, watched, closures, resolving>>
      BY <1>1 DEF vars
    <2>2. resolving' \subseteq Resolution BY <2>1 DEF DocInv, DocTyped
    <2> QED BY <2>1, <2>2, RestInv
  <1>2. ASSUME NEW f \in Files,
               Save(f) \/ Close(f) \/ Ask(f) \/ OnDemandIndex(f) \/ Resolve(f)
        PROVE  DocInv'
    BY <1>2, SaveInv, CloseInv, QueryInv
  <1>3. ASSUME NEW f \in Files, NEW t \in Texts, Open(f, t) \/ Edit(f, t) PROVE DocInv'
    BY <1>3, OpenInv, EditInv
  <1>4. ASSUME NEW f \in Files, NEW t \in Texts \cup {Gone}, WriteDisk(f, t) PROVE DocInv'
    BY <1>4, SaveInv
  <1>5. ASSUME NEW f \in Files, HandlerSteps(f) PROVE DocInv'
    BY <1>5, HandleOpenInv, HandleContentInv, QueryInv DEF HandlerSteps
  <1>6. ASSUME NEW f \in Files, ClosureSteps(f) PROVE DocInv'
    BY <1>6, ClosureResolveInv, ClosureDepsInv, ClosureReadInv, ClosureInstallInv DEF ClosureSteps
  <1>7. ASSUME NEW f \in Files, WatchSteps(f) PROVE DocInv'
    BY <1>7, FileChangedInv, WatchReadInv, FileDeletedInv DEF WatchSteps
  <1>8. ASSUME NEW s \in Slots, UpsertSteps(s) PROVE DocInv'
    BY <1>8, UpsertBuildInv, UpsertInstallInv DEF UpsertSteps
  <1>9. ASSUME NEW r \in resolving, ResolveEnds(r) PROVE DocInv'
    BY <1>9, ResolveEndsInv
  <1>10. CASE RepairSteps BY <1>10, RepairInv
  <1> QED BY <1>1, <1>2, <1>3, <1>4, <1>5, <1>6, <1>7, <1>8, <1>9, <1>10 DEF Next, Continue

\* However the handlers interleave, the index stays an index, no upsert and no
\* entry is of a version of its document that is yet to come, and the two
\* properties below hold together.
THEOREM DocumentInvariant == Spec => []DocInv
  BY DocInit, DocNext, PTL DEF Spec

\* An invalidation of a dependency reaches every entry that is current and lists
\* it, whatever documents are opened, edited and closed, files change on disk
\* and upserts overtake one another.
THEOREM EdgesStayRegistered == Spec => []EdgesRegistered
  <1>1. DocInv => EdgesRegistered BY DEF DocInv
  <1> QED BY <1>1, DocumentInvariant, PTL

\* An entry of the version of a document that has been edited holds its text, so
\* that what getSymbolTable serves as current is - whatever walks, upserts and
\* queries were under way when it was edited.
THEOREM VersionsIdentifyTexts == Spec => []VersionIdentifiesText
  <1>1. DocInv => VersionIdentifiesText BY DEF DocInv, Versions
  <1> QED BY <1>1, DocumentInvariant, PTL

-------------------------------------------------------------------------------
(* Open documents get their tables back while nothing but opening, querying  *)
(* and reading files goes on and no request for a repair finds all its       *)
(* rounds used up - which the next section shows of few enough documents.    *)

\* Nothing is edited, saved or written to disk.
Unedited == Faults \cap {"edit", "save", "disk"} = {}

NoneClosed == \A f \in Files : buffer[f].was => IsOpen(f)

\* A request during a pass is served by another round.
RoundsSuffice ==
  repair.phase \in {"reindex", "install"} /\ repair.rerun => repair.round + 1 < MaxRepairRounds

\* Only a stale entry has no table: nobody demotes entries here.
Tabled(i) == \A f \in DOMAIN i.files : i.files[f].stale \/ i.files[f].table # NoTable

RepairTyped ==
  /\ opened \in Seq(Files) /\ justOpened \subseteq Files
  /\ inFlight \in [Files -> Slots \cup {None}]
  /\ repair = [phase |-> repair.phase, rerun |-> repair.rerun, round |-> repair.round,
               todo |-> repair.todo, busy |-> repair.busy]
  /\ repair.phase \in {"idle", "delay", "reindex", "install"}
  /\ repair.rerun \in BOOLEAN /\ repair.busy \in BOOLEAN /\ repair.round \in Nat
  /\ repair.phase = "install" => repair.todo \in Seq(Files)
  /\ notices = {} /\ DOMAIN watched = {}

\* What upsertInFlight records is running and of that file.
InFlightRuns ==
  \A f \in Files : inFlight[f] # None =>
    inFlight[f] \in DOMAIN upserts /\ upserts[inFlight[f]].file = f

\* A document is opened once: its handlers are called once, in any order.
OpenedOnce ==
  \A f \in Files :
    /\ handlers[f].content \in {0, 1}
    /\ handlers[f].content = 1 => f \in justOpened
    /\ ~buffer[f].was => /\ ~handlers[f].open /\ handlers[f].content = 0
                         /\ f \notin DOMAIN closures /\ f \notin justOpened
    /\ buffer[f].was => f \in Documents
    /\ f \in DOMAIN closures => ~handlers[f].open
    /\ IsOpen(f) => \E n \in 1..Len(opened) : opened[n] = f

\* One upsert at most is on behalf of the opening of a document, and one on
\* behalf of the repair, which waits for it in the pass it belongs to.
UpsertsPlaced ==
  \A s \in DOMAIN upserts :
    /\ upserts[s].by \notin {"change", "watch"}
    /\ upserts[s].phase = "extract" => upserts[s].table # NoTable
    /\ upserts[s].by = "open" =>
         /\ upserts[s].file \notin justOpened /\ buffer[upserts[s].file].was
         /\ \A r \in DOMAIN upserts :
              upserts[r].by = "open" /\ upserts[r].file = upserts[s].file => r = s
    /\ upserts[s].by = "repair" => repair.phase = "reindex"
    /\ upserts[s].by = "install" => repair.phase = "install"
    /\ upserts[s].by \in {"repair", "install"} =>
         /\ repair.busy
         /\ \A r \in DOMAIN upserts : upserts[r].by \in {"repair", "install"} => r = s

\* Sooner or later a pass looks at every open document: a handler, an upsert or
\* a walk that ends in a request is under way, or a pass is to come.
Due ==
  \/ \E f \in Files : handlers[f].open \/ handlers[f].content > 0
  \/ Doing("open") \/ DOMAIN closures # {}
  \/ repair.phase \in {"delay", "reindex"}
  \/ repair.phase # "idle" /\ repair.rerun

Listed(f) == repair.phase = "install" /\ \E n \in 1..Len(repair.todo) : repair.todo[n] = f

Entered(f) == Has(ix, f) \/ Running(f) \/ handlers[f].content > 0
Served(f) == (Has(ix, f) /\ ~ix.files[f].stale) \/ Running(f) \/ Due \/ Listed(f)

MendInv ==
  /\ RepairTyped /\ Tabled(ix) /\ InFlightRuns /\ OpenedOnce /\ UpsertsPlaced
  /\ \A f \in Files : IsOpen(f) => Entered(f) /\ Served(f)

\* All of this, until a document is closed.
MendedUnlessClosed == NoneClosed => MendInv

(* The methods of the index. *)

LEMMA StaleTabled ==
  ASSUME NEW i, IsIndex(i), Tabled(i), NEW origins, NEW reached,
         origins \cap DOMAIN i.files \subseteq reached,
         NEW j, j = Stale(i, origins, reached)
  PROVE  Tabled(j) /\ DOMAIN j.files = DOMAIN i.files
  <1> DEFINE E(g) == [i.files[g] EXCEPT !.table = IF g \in origins THEN NoTable ELSE @,
                                        !.stale = @ \/ g \in reached]
             fs == [g \in DOMAIN i.files |-> E(g)]
  <1>1. j = [i EXCEPT !.files = fs] BY DEF Stale
  <1>2. j.files = fs /\ DOMAIN fs = DOMAIN i.files BY <1>1 DEF IsIndex
  <1>3. ASSUME NEW g \in DOMAIN i.files PROVE fs[g].stale \/ fs[g].table # NoTable
    <2>1. fs[g] = E(g) /\ i.files[g] \in Entry BY DEF IsIndex
    <2>2. E(g).stale = (i.files[g].stale \/ g \in reached)
      BY <2>1 DEF Entry
    <2>3. g \notin origins => E(g).table = i.files[g].table BY <2>1 DEF Entry
    <2> HIDE DEF E, fs
    <2> QED BY <2>1, <2>2, <2>3 DEF Tabled
  <1> HIDE DEF fs
  <1> QED BY <1>2, <1>3 DEF Tabled

LEMMA InvalidateTabled ==
  ASSUME NEW i, IsIndex(i), Tabled(i), NEW f, NEW j, j = InvalidateWithDependents(i, f)
  PROVE  IsIndex(j) /\ Tabled(j) /\ DOMAIN j.files = DOMAIN i.files
  <1> DEFINE reached == Reached(i, f)
  <1>1. {f} \cap DOMAIN i.files \subseteq reached BY ReachedSelf, DocumentAssumption
  <1>2. j = Stale(i, {f}, reached) BY DEF InvalidateWithDependents
  <1>3. IsIndex(j) BY InvalidateWithDependentsMoves DEF Moves
  <1> HIDE DEF reached
  <1> QED BY <1>1, <1>2, <1>3, StaleTabled

LEMMA RewireTabled ==
  ASSUME NEW i, IsIndex(i), Tabled(i), NEW f, NEW j, j = RewireDependents(i, f)
  PROVE  Tabled(j) /\ DOMAIN j.files = DOMAIN i.files
  <1> DEFINE origins == GetDependents(i, f) \cap DOMAIN i.files
             reached == UNION {Reached(i, g) : g \in origins}
  <1>1. \A g \in origins : g \in Reached(i, g) BY ReachedSelf, DocumentAssumption
  <1>2. j = Stale(i, origins, reached) BY DEF RewireDependents
  <1>3. origins \cap DOMAIN i.files \subseteq reached BY <1>1
  <1> HIDE DEF origins, reached
  <1> QED BY <1>2, <1>3, StaleTabled

LEMMA BackgroundTabled ==
  ASSUME NEW i, IsIndex(i), Tabled(i), NEW f \in Files, NEW v \in Nat, NEW t \in Texts, NEW warm,
         NEW j, j = UpsertBackgroundFile(i, f, v, t, warm)
  PROVE  IsIndex(j) /\ Tabled(j) /\ DOMAIN i.files \subseteq DOMAIN j.files
  <1> DEFINE rid == RemoveDependencies(i, f)
             table == Wired(rid, f, t, warm)
             e == UnresolvedEntry(v, t, table)
  <1>1. IsIndex(rid) /\ rid.files = i.files BY RemoveDependenciesOnly DEF Only
  <1>2. j = Put(rid, f, e) BY DEF UpsertBackgroundFile
  <1> HIDE DEF rid
  <1>3. table \in Tables /\ table # NoTable BY <1>1, WiredTyped DEF NoTable
  <1> HIDE DEF table
  <1>4. e \in Entry /\ e.table = table BY <1>3, UnresolvedEntryTyped
  <1> HIDE DEF e
  <1>5. /\ IsIndex(j) /\ DOMAIN j.files = DOMAIN rid.files \cup {f} /\ j.files[f] = e
        /\ \A g \in DOMAIN rid.files : g # f => j.files[g] = rid.files[g]
    BY <1>1, <1>2, <1>4, PutTyped
  <1>6. ASSUME NEW g \in DOMAIN j.files PROVE j.files[g].stale \/ j.files[g].table # NoTable
    BY <1>1, <1>3, <1>4, <1>5 DEF Tabled
  <1> QED BY <1>1, <1>5, <1>6 DEF Tabled

LEMMA InstallTabled ==
  ASSUME NEW i, IsIndex(i), Tabled(i), NEW f \in Files, NEW v \in Nat, NEW t \in Texts,
         NEW table \in Tables, table # NoTable, NEW j, j = InstallFull(i, f, v, t, table)
  PROVE  /\ IsIndex(j) /\ Tabled(j) /\ DOMAIN j.files = DOMAIN i.files \cup {f}
         /\ ~j.files[f].stale /\ \A g \in DOMAIN i.files : g # f => j.files[g] = i.files[g]
  <1> DEFINE deps == Imports[<<f, t>>]
             e == FullEntry(v, t, table, deps)
             p == Put(i, f, e)
  <1>1. deps \in SUBSET Files BY ImportsAssumption
  <1>2. j = RegisterReverseDeps(p, f, deps) BY DEF InstallFull
  <1> HIDE DEF deps
  <1>3. e \in Entry /\ e.table = table /\ ~e.stale
    BY <1>1 DEF FullEntry, Entry, Kinds
  <1> HIDE DEF e
  <1>4. /\ IsIndex(p) /\ DOMAIN p.files = DOMAIN i.files \cup {f} /\ p.files[f] = e
        /\ \A g \in DOMAIN i.files : g # f => p.files[g] = i.files[g]
    BY <1>3, PutTyped
  <1> HIDE DEF p
  <1>5. IsIndex(j) /\ j.files = p.files BY <1>1, <1>2, <1>4, RegisterTyped
  <1>6. ASSUME NEW g \in DOMAIN j.files PROVE j.files[g].stale \/ j.files[g].table # NoTable
    BY <1>3, <1>4, <1>5 DEF Tabled
  <1> QED BY <1>3, <1>4, <1>5, <1>6 DEF Tabled

LEMMA ResolvedTabled ==
  ASSUME IsIndex(ix), Tabled(ix), NEW r \in Resolution, NEW j, j = Resolved(r)
  PROVE  /\ Tabled(j) /\ DOMAIN j.files = DOMAIN ix.files
         /\ \A g \in DOMAIN ix.files : j.files[g].stale = ix.files[g].stale
  <1>1. /\ DOMAIN j.files = DOMAIN ix.files
        /\ \A g \in DOMAIN ix.files : /\ j.files[g].stale = ix.files[g].stale
                                      /\ j.files[g].table = ix.files[g].table
    BY ResolvedKeeps
  <1> QED BY <1>1 DEF Tabled

\* The open documents in need of a repair are in the list, once each.
LEMMA StaleOpenFinds ==
  ASSUME opened \in Seq(Files)
  PROVE  /\ StaleOpen \in Seq(Files)
         /\ \A n \in 1..Len(opened) : NeedsRepair(opened[n])
              => \E k \in 1..Len(StaleOpen) : StaleOpen[k] = opened[n]
         /\ (\A j, k \in 1..Len(opened) : opened[j] = opened[k] => j = k)
              => \A j, k \in 1..Len(StaleOpen) : StaleOpen[j] = StaleOpen[k] => j = k
  <1> DEFINE m == Len(opened)
             kept(list, f) == IF NeedsRepair(f) THEN Append(list, f) ELSE list
             step == [p \in Nat \X Seq(Files) |-> kept(p[2], opened[p[1]])]
             among == CHOOSE g : g = [n \in 0..m |-> IF n = 0 THEN <<>>
                                                    ELSE kept(g[n - 1], opened[n])]
  <1>1. m \in Nat /\ \A n \in 1..m : opened[n] \in Files OBVIOUS
  <1>2. ASSUME NEW list \in Seq(Files), NEW f \in Files
        PROVE  /\ kept(list, f) \in Seq(Files) /\ Len(list) <= Len(kept(list, f))
               /\ \A k \in 1..Len(list) : kept(list, f)[k] = list[k]
               /\ NeedsRepair(f) => kept(list, f)[Len(kept(list, f))] = f
                                    /\ Len(kept(list, f)) \in Nat \ {0}
               /\ \A k \in 1..Len(kept(list, f)) :
                    k \in 1..Len(list) \/ (k = Len(list) + 1 /\ kept(list, f)[k] = f)
    OBVIOUS
  <1> HIDE DEF m
  <1>3. PICK g : Iterates(g, step, <<>>, m)
    <2> HIDE DEF step
    <2> QED BY <1>1, IterationExists
  <1>4. 0..m \subseteq {n \in 0..m : g[n] \in Seq(Files)}
    <2> DEFINE T == {n \in 0..m : g[n] \in Seq(Files)}
    <2>1. 0 \in T BY <1>1, <1>3 DEF Iterates
    <2>2. ASSUME NEW n \in 1..m, n - 1 \in T PROVE n \in T
      <3>1. n \in 0..m /\ n # 0 /\ n \in Nat BY <1>1
      <3>2. g[n] = step[<<n, g[n - 1]>>] BY <1>3, <3>1 DEF Iterates
      <3>3. g[n - 1] \in Seq(Files) BY <2>2
      <3>4. step[<<n, g[n - 1]>>] = kept(g[n - 1], opened[n])
        <4> HIDE DEF kept
        <4> QED BY <3>1, <3>3
      <3> HIDE DEF kept, step
      <3> QED BY <1>1, <1>2, <3>1, <3>2, <3>3, <3>4
    <2> HIDE DEF T
    <2>3. 0..m \subseteq T BY <1>1, <2>1, <2>2, Reaches0To
    <2> QED BY <2>3 DEF T
  <1>5. g = [n \in 0..m |-> IF n = 0 THEN <<>> ELSE kept(g[n - 1], opened[n])]
    <2>1. ASSUME NEW n \in 0..m, n # 0
          PROVE  step[<<n, g[n - 1]>>] = kept(g[n - 1], opened[n])
      <3>1. n - 1 \in 0..m /\ n \in Nat BY <1>1, <2>1
      <3>2. g[n - 1] \in Seq(Files) BY <1>4, <3>1
      <3> HIDE DEF kept
      <3> QED BY <3>1, <3>2
    <2> HIDE DEF step, kept
    <2>2. g = [n \in 0..m |-> IF n = 0 THEN <<>> ELSE step[<<n, g[n - 1]>>]]
      BY <1>3 DEF Iterates
    <2> QED BY <2>1, <2>2
  <1>6. among = [n \in 0..m |-> IF n = 0 THEN <<>> ELSE kept(among[n - 1], opened[n])]
    <2> HIDE DEF kept
    <2> QED BY <1>5
  <1>7. StaleOpen = among[m] BY DEF StaleOpen, m
  <1> HIDE DEF among, step
  <1> DEFINE once == \A j, k \in 1..m : opened[j] = opened[k] => j = k
             Holds(n) ==
               /\ among[n] \in Seq(Files)
               /\ \A l \in 1..n : NeedsRepair(opened[l])
                    => \E k \in 1..Len(among[n]) : among[n][k] = opened[l]
               /\ \A k \in 1..Len(among[n]) : \E l \in 1..n : among[n][k] = opened[l]
               /\ once => \A j, k \in 1..Len(among[n]) : among[n][j] = among[n][k] => j = k
             T == {n \in 0..m : Holds(n)}
  <1>8. 0 \in T
    <2>1. 0 \in 0..m BY <1>1
    <2>2. among[0] = <<>>
      <3> HIDE DEF kept
      <3> QED BY <1>6, <2>1
    <2>3. Holds(0) BY <2>2
    <2> QED BY <2>1, <2>3
  <1>9. ASSUME NEW n \in 1..m, n - 1 \in T PROVE n \in T
    <2>1. n \in 0..m /\ n # 0 /\ n \in Nat /\ opened[n] \in Files BY <1>1
    <2>2. among[n] = kept(among[n - 1], opened[n])
      <3> HIDE DEF kept
      <3> QED BY <1>6, <2>1
    <2>3. Holds(n - 1) BY <1>9
    <2>9. among[n - 1] \in Seq(Files) BY <2>3
    <2> HIDE DEF kept, Holds
    <2>4. /\ among[n] \in Seq(Files) /\ Len(among[n - 1]) <= Len(among[n])
          /\ \A k \in 1..Len(among[n - 1]) : among[n][k] = among[n - 1][k]
          /\ NeedsRepair(opened[n]) => among[n][Len(among[n])] = opened[n]
                                       /\ Len(among[n]) \in Nat \ {0}
          /\ \A k \in 1..Len(among[n]) :
               k \in 1..Len(among[n - 1]) \/ (k = Len(among[n - 1]) + 1 /\ among[n][k] = opened[n])
      <3> DEFINE list == among[n - 1]  f == opened[n]  new == kept(list, f)
      <3>1. list \in Seq(Files) /\ f \in Files BY <2>1, <2>9
      <3> HIDE DEF list, f
      <3>2. /\ new \in Seq(Files) /\ Len(list) <= Len(new)
            /\ \A k \in 1..Len(list) : new[k] = list[k]
            /\ NeedsRepair(f) => new[Len(new)] = f /\ Len(new) \in Nat \ {0}
            /\ \A k \in 1..Len(new) : k \in 1..Len(list) \/ (k = Len(list) + 1 /\ new[k] = f)
        BY <1>2, <3>1
      <3> HIDE DEF new
      <3>3. among[n] = new BY <2>2 DEF new, list, f
      <3> QED BY <3>2, <3>3 DEF list, f
    <2>5. ASSUME NEW l \in 1..n, NeedsRepair(opened[l])
          PROVE  \E k \in 1..Len(among[n]) : among[n][k] = opened[l]
      <3>1. CASE l = n
        <4>1. Len(among[n]) \in 1..Len(among[n]) BY <2>4, <2>5, <3>1
        <4> QED BY <2>4, <2>5, <3>1, <4>1
      <3>2. CASE l # n
        <4>1. l \in 1..(n - 1) BY <2>1, <3>2
        <4>2. PICK k \in 1..Len(among[n - 1]) : among[n - 1][k] = opened[l]
          BY <2>3, <2>5, <4>1 DEF Holds
        <4>3. k \in 1..Len(among[n]) BY <2>4, <2>9
        <4> QED BY <2>4, <4>2, <4>3
      <3> QED BY <3>1, <3>2
    <2>6. ASSUME NEW k \in 1..Len(among[n]) PROVE \E l \in 1..n : among[n][k] = opened[l]
      <3>1. CASE k \in 1..Len(among[n - 1])
        <4>1. PICK l \in 1..(n - 1) : among[n - 1][k] = opened[l] BY <2>3, <3>1 DEF Holds
        <4>2. l \in 1..n BY <2>1
        <4> QED BY <2>4, <3>1, <4>1, <4>2
      <3>2. CASE k = Len(among[n - 1]) + 1 /\ among[n][k] = opened[n]
        <4>1. n \in 1..n BY <2>1
        <4> QED BY <3>2, <4>1
      <3> QED BY <2>4, <3>1, <3>2
    <2>7. ASSUME once, NEW j \in 1..Len(among[n]), NEW k \in 1..Len(among[n]), among[n][j] = among[n][k]
          PROVE  j = k
      <3>1. \A l \in 1..(n - 1) : opened[l] # opened[n]
        <4>1. \A l \in 1..(n - 1) : l \in 1..m /\ n \in 1..m /\ l # n BY <1>1
        <4> QED BY <2>7, <4>1
      <3>2. \A l \in 1..Len(among[n - 1]) : among[n - 1][l] # opened[n] BY <2>3, <3>1 DEF Holds
      <3>3. \A h, l \in 1..Len(among[n - 1]) : among[n - 1][h] = among[n - 1][l] => h = l
        BY <2>3, <2>7 DEF Holds
      <3> HIDE DEF once
      <3> QED BY <2>4, <2>7, <3>2, <3>3
    <2> HIDE DEF once
    <2> QED BY <2>1, <2>4, <2>5, <2>6, <2>7 DEF Holds
  <1>10. Holds(m)
    <2> HIDE DEF T
    <2>1. 0..m \subseteq T BY <1>1, <1>8, <1>9, Reaches0To
    <2> QED BY <1>1, <2>1 DEF T
  <1> QED BY <1>7, <1>10 DEF m

(* What a step has to show. *)

\* Whatever was indexed or under way still is.
StillEntered ==
  /\ UNCHANGED buffer /\ DOMAIN ix.files \subseteq DOMAIN ix'.files
  /\ \A f \in Files : Running(f) => Running(f)' \/ f \in DOMAIN ix'.files
  /\ \A f \in Files : handlers[f].content > 0 => handlers'[f].content > 0 \/ Running(f)'

LEMMA EnteredStep ==
  ASSUME MendInv, StillEntered, NEW f \in Files, IsOpen(f)'
  PROVE  Entered(f)'
  <1>1. Entered(f) BY DEF StillEntered, MendInv, IsOpen
  <1> QED BY <1>1 DEF StillEntered, Entered, Has

\* After the step a pass is due.
LEMMA DueStep ==
  ASSUME MendInv, StillEntered, Due', RepairTyped', Tabled(ix'), InFlightRuns', OpenedOnce',
         UpsertsPlaced'
  PROVE  MendInv'
  <1>1. Tabled(ix)' OBVIOUS
  <1>2. \A f \in Files : IsOpen(f)' => Entered(f)' BY EnteredStep
  <1>3. \A f \in Files : Served(f)' BY DEF Served
  <1> QED BY <1>1, <1>2, <1>3 DEF MendInv

\* The step takes nothing away that an open document waits for.
LEMMA ServedStep ==
  ASSUME MendInv, StillEntered, RepairTyped', Tabled(ix'), InFlightRuns', OpenedOnce',
         UpsertsPlaced',
         Due => Due',
         \A f \in Files : Listed(f) => Listed(f)' \/ Running(f)',
         \A f \in Files : Running(f) => Running(f)' \/ (f \in DOMAIN ix'.files /\ ~ix'.files[f].stale),
         \A f \in DOMAIN ix.files : ~ix.files[f].stale => ~ix'.files[f].stale
  PROVE  MendInv'
  <1>1. Tabled(ix)' OBVIOUS
  <1>2. \A f \in Files : IsOpen(f)' => Entered(f)' BY EnteredStep
  <1>3. ASSUME NEW f \in Files, IsOpen(f)' PROVE Served(f)'
    <2>1. Served(f) BY <1>3 DEF StillEntered, MendInv, IsOpen
    <2> QED BY <2>1 DEF Served, Has, StillEntered
  <1> QED BY <1>1, <1>2, <1>3 DEF MendInv

\* An upsert has begun, in the slot s.
Added(s, f, by) ==
  /\ s \in Slots /\ s \notin DOMAIN upserts
  /\ DOMAIN upserts' = DOMAIN upserts \cup {s}
  /\ upserts'[s].file = f /\ upserts'[s].by = by /\ upserts'[s].phase = "warm"
  /\ \A r \in DOMAIN upserts : upserts'[r] = upserts[r]

LEMMA Started ==
  ASSUME MendInv, NEW i, IsIndex(i), NEW f \in Files, NEW v, NEW t, NEW by,
         StartUpsert(i, f, v, t, by)
  PROVE  /\ \E s : Added(s, f, by)
         /\ InFlightRuns' /\ inFlight' \in [Files -> Slots \cup {None}]
         /\ ix'.files = i.files
         /\ Running(f)' /\ \A g \in Files : Running(g) => Running(g)'
  <1> DEFINE u == [file |-> f, version |-> v, text |-> t, table |-> NoTable, by |-> by,
                   phase |-> "warm"]
  <1>1. PICK s \in Slots \ DOMAIN upserts :
          /\ upserts' = With(upserts, s, u)
          /\ inFlight' = IF by \in Recorded THEN [inFlight EXCEPT ![f] = s] ELSE inFlight
          /\ ix' = RemoveDependencies(i, f)
    BY DEF StartUpsert
  <1>2. u.file = f /\ u.by = by /\ u.phase = "warm" OBVIOUS
  <1> HIDE DEF u
  <1>3. /\ DOMAIN upserts' = DOMAIN upserts \cup {s} /\ upserts'[s] = u
        /\ \A r \in DOMAIN upserts : upserts'[r] = upserts[r]
    BY <1>1 DEF With
  <1>4. Added(s, f, by) BY <1>1, <1>2, <1>3 DEF Added
  <1>5. /\ inFlight \in [Files -> Slots \cup {None}]
        /\ \A g \in Files : inFlight[g] # None =>
             inFlight[g] \in DOMAIN upserts /\ upserts[inFlight[g]].file = g
    BY DEF MendInv, RepairTyped, InFlightRuns
  <1>6. inFlight' \in [Files -> Slots \cup {None}] BY <1>1, <1>5
  <1>7. \A g \in Files : inFlight'[g] = inFlight[g] \/ (g = f /\ inFlight'[g] = s)
    BY <1>1, <1>5
  <1>8. InFlightRuns' BY <1>2, <1>3, <1>5, <1>7 DEF InFlightRuns
  <1>9. ix'.files = i.files BY <1>1, RemoveDependenciesOnly
  <1>10. Running(f)' /\ \A g \in Files : Running(g) => Running(g)'
    BY <1>2, <1>3 DEF Running
  <1> QED BY <1>4, <1>6, <1>8, <1>9, <1>10

LEMMA StartPlaced ==
  ASSUME UpsertsPlaced, NEW s, NEW f, NEW by, Added(s, f, by), by \notin {"change", "watch"},
         justOpened' \subseteq justOpened, UNCHANGED buffer,
         by = "open" => f \in justOpened /\ f \notin justOpened' /\ buffer[f].was,
         by = "repair" => repair'.phase = "reindex",
         by = "install" => repair'.phase = "install",
         by \in {"repair", "install"} => ~repair.busy /\ repair'.busy,
         by \notin {"repair", "install"} => UNCHANGED repair
  PROVE  UpsertsPlaced'
  <1> SUFFICES ASSUME NEW q \in DOMAIN upserts'
               PROVE  /\ upserts'[q].by \notin {"change", "watch"}
                      /\ upserts'[q].phase = "extract" => upserts'[q].table # NoTable
                      /\ upserts'[q].by = "open" =>
                           /\ upserts'[q].file \notin justOpened'
                           /\ buffer'[upserts'[q].file].was
                           /\ \A r \in DOMAIN upserts' :
                                upserts'[r].by = "open" /\ upserts'[r].file = upserts'[q].file
                                  => r = q
                      /\ upserts'[q].by = "repair" => repair'.phase = "reindex"
                      /\ upserts'[q].by = "install" => repair'.phase = "install"
                      /\ upserts'[q].by \in {"repair", "install"} =>
                           /\ repair'.busy
                           /\ \A r \in DOMAIN upserts' :
                                upserts'[r].by \in {"repair", "install"} => r = q
    BY DEF UpsertsPlaced
  <1>1. CASE q = s BY <1>1 DEF Added, UpsertsPlaced
  <1>2. CASE q # s BY <1>2 DEF Added, UpsertsPlaced
  <1> QED BY <1>1, <1>2

-------------------------------------------------------------------------------
(* The handlers. *)

\* What a step can leave as it is.
Settled == UNCHANGED <<buffer, opened, justOpened, inFlight, repair, notices, watched>>

LEMMA SettledTyped ==
  ASSUME MendInv, UNCHANGED <<opened, justOpened, inFlight, repair, notices, watched>>
  PROVE  RepairTyped'
  BY DEF MendInv, RepairTyped

\* The upserts are as they were.
LEMMA UpsertsKept ==
  ASSUME MendInv, UNCHANGED <<upserts, inFlight, buffer>>, justOpened' \subseteq justOpened,
         UNCHANGED repair
  PROVE  /\ InFlightRuns' /\ UpsertsPlaced'
         /\ \A f \in Files : Running(f) => Running(f)'
  BY DEF MendInv, InFlightRuns, UpsertsPlaced, Running

\* The events of the editor, the queries and the walk's look at the index change
\* nothing of this, as long as nothing is closed.
LEMMA MendOpen ==
  ASSUME DocInv, MendInv, NEW f \in Files, NEW t \in Texts, Open(f, t)
  PROVE  MendInv'
  <1>1. /\ f \in Documents /\ ~buffer[f].was
        /\ buffer' = [buffer EXCEPT ![f] = [was |-> TRUE, open |-> TRUE, version |-> 1,
                                           text |-> t]]
        /\ opened' = Append(opened, f) /\ justOpened' = justOpened \cup {f}
        /\ handlers' = [handlers EXCEPT ![f] = [open |-> TRUE, content |-> @.content + 1]]
        /\ UNCHANGED <<ix, notices, upserts, inFlight, closures, watched, repair>>
    BY DEF Open, diskVars
  <1>2. /\ handlers \in [Files -> [open : BOOLEAN, content : Int]]
        /\ buffer \in [Files -> [was : BOOLEAN, open : BOOLEAN, version : 0..MaxVersion, text : Texts]]
    BY DEF DocInv, DocTyped
  <1>3. /\ handlers[f].content = 0 /\ f \notin DOMAIN closures /\ opened \in Seq(Files)
    BY <1>1 DEF MendInv, OpenedOnce, RepairTyped
  <1>4. /\ buffer'[f].was /\ buffer'[f].open /\ handlers'[f].open /\ handlers'[f].content = 1
        /\ \A g \in Files : g # f => buffer'[g] = buffer[g] /\ handlers'[g] = handlers[g]
    BY <1>1, <1>2, <1>3
  <1>5. RepairTyped' BY <1>1 DEF MendInv, RepairTyped
  <1>6. InFlightRuns' BY <1>1 DEF MendInv, InFlightRuns
  <1>7. OpenedOnce'
    <2>1. /\ Len(opened') = Len(opened) + 1 /\ opened'[Len(opened) + 1] = f
          /\ \A n \in 1..Len(opened) : opened'[n] = opened[n] /\ n \in 1..Len(opened')
      BY <1>1, <1>3
    <2>2. Len(opened) + 1 \in 1..Len(opened') BY <1>3, <2>1
    <2> QED BY <1>1, <1>3, <1>4, <2>1, <2>2 DEF MendInv, OpenedOnce, IsOpen
  <1>8. UpsertsPlaced'
    <2>1. \A s \in DOMAIN upserts : upserts[s].file \in Files
      BY DEF DocInv, DocTyped, Upsert
    <2>2. \A s \in DOMAIN upserts : upserts[s].by = "open" => upserts[s].file # f
      BY <1>1 DEF MendInv, UpsertsPlaced
    <2>3. UpsertsPlaced BY DEF MendInv
    <2> QED BY <1>1, <1>4, <2>1, <2>2, <2>3 DEF UpsertsPlaced
  <1>9. Due' BY <1>4 DEF Due
  <1>10. ASSUME NEW g \in Files, IsOpen(g)' PROVE Entered(g)'
    <2>1. CASE g = f BY <1>4, <2>1 DEF Entered
    <2>2. CASE g # f
      <3>1. Entered(g) BY <1>4, <1>10, <2>2 DEF MendInv, IsOpen
      <3> QED BY <1>1, <1>4, <2>2, <3>1 DEF Entered, Running
    <2> QED BY <2>1, <2>2
  <1>11. Tabled(ix)' BY <1>1 DEF MendInv
  <1> QED BY <1>5, <1>6, <1>7, <1>8, <1>9, <1>10, <1>11 DEF MendInv, Served

\* Neither the index nor any call has moved on.
LEMMA MendQuiet ==
  ASSUME MendInv, UNCHANGED <<ix, upserts, handlers>>, Settled, DOMAIN closures' = DOMAIN closures
  PROVE  MendInv'
  <1>1. RepairTyped' BY SettledTyped DEF Settled
  <1>2. InFlightRuns' /\ UpsertsPlaced' /\ \A f \in Files : Running(f) => Running(f)'
    BY UpsertsKept DEF Settled
  <1>3. OpenedOnce' BY DEF MendInv, OpenedOnce, Settled, IsOpen
  <1>4. Due => Due' BY DEF Due, Doing, Settled
  <1>5. StillEntered BY <1>2 DEF StillEntered, Settled
  <1>6. Tabled(ix') BY DEF MendInv
  <1>7. \A f \in Files : Listed(f) => Listed(f)' BY DEF Listed, Settled
  <1> QED BY <1>1, <1>2, <1>3, <1>4, <1>5, <1>6, <1>7, ServedStep

\* A query or a sweep has a file indexed.
LEMMA MendStart ==
  ASSUME DocInv, MendInv, NEW f \in Files, NEW v, NEW t, NEW by \in {"query", "demand"},
         StartUpsert(ix, f, v, t, by),
         UNCHANGED <<handlers, buffer, opened, justOpened, repair, notices, watched, closures>>
  PROVE  MendInv'
  <1>1. IsIndex(ix) BY DEF DocInv, DocTyped
  <1>2. PICK s : Added(s, f, by) BY <1>1, Started
  <1>3. /\ InFlightRuns' /\ inFlight' \in [Files -> Slots \cup {None}] /\ ix'.files = ix.files
        /\ \A g \in Files : Running(g) => Running(g)'
    BY <1>1, Started
  <1>4. UpsertsPlaced' BY <1>2, StartPlaced DEF MendInv
  <1>5. RepairTyped' BY <1>3 DEF MendInv, RepairTyped
  <1>6. OpenedOnce' BY DEF MendInv, OpenedOnce, IsOpen
  <1>7. Tabled(ix') BY <1>3 DEF MendInv, Tabled
  <1>8. Due => Due' BY <1>2 DEF Due, Doing, Added
  <1>9. StillEntered BY <1>3 DEF StillEntered
  <1>10. \A g \in Files : Listed(g) => Listed(g)' BY DEF Listed
  <1> QED BY <1>3, <1>4, <1>5, <1>6, <1>7, <1>8, <1>9, <1>10, ServedStep

LEMMA MendQuery ==
  ASSUME DocInv, MendInv, NEW f \in Files, Ask(f) \/ AskAgain(f) \/ OnDemandIndex(f) \/ Resolve(f)
  PROVE  MendInv'
  <1>1. UNCHANGED <<handlers, buffer, opened, justOpened, repair, notices, watched, closures>>
    BY DEF Ask, AskAgain, OnDemandIndex, Resolve, docVars, diskVars
  <1>2. \/ UNCHANGED <<ix, upserts, inFlight>>
        \/ \E v, t : \E by \in {"query", "demand"} : StartUpsert(ix, f, v, t, by)
    BY DEF Ask, AskAgain, OnDemandIndex, Resolve
  <1>3. CASE UNCHANGED <<ix, upserts, inFlight>> BY <1>1, <1>3, MendQuiet DEF Settled
  <1> QED BY <1>1, <1>2, <1>3, MendStart

LEMMA MendHandleOpen ==
  ASSUME DocInv, MendInv, NEW f \in Files, HandleOpen(f)
  PROVE  MendInv'
  <1>1. /\ handlers[f].open /\ handlers' = [handlers EXCEPT ![f].open = FALSE]
        /\ DOMAIN closures' = DOMAIN closures \cup {f}
        /\ UNCHANGED <<upserts>> /\ Settled
    BY DEF HandleOpen, With, Settled, docVars, diskVars
  <1>2. PICK warm :
          ix' = RewireDependents(
                  UpsertBackgroundFile(InvalidateWithDependents(ix, f), f, buffer[f].version,
                                       buffer[f].text, warm), f)
    BY DEF HandleOpen
  <1> DEFINE i == InvalidateWithDependents(ix, f)
             j == UpsertBackgroundFile(i, f, buffer[f].version, buffer[f].text, warm)
  <1>3. IsIndex(i) /\ Tabled(i) /\ DOMAIN i.files = DOMAIN ix.files
    BY InvalidateTabled DEF DocInv, DocTyped, MendInv
  <1> HIDE DEF i
  <1>4. buffer[f].version \in Nat /\ buffer[f].text \in Texts
    BY DocumentAssumption DEF DocInv, DocTyped
  <1>5. IsIndex(j) /\ Tabled(j) /\ DOMAIN i.files \subseteq DOMAIN j.files
    BY <1>3, <1>4, BackgroundTabled
  <1>6. ix' = RewireDependents(j, f) BY <1>2 DEF i
  <1> HIDE DEF j
  <1>7. Tabled(ix') /\ DOMAIN ix.files \subseteq DOMAIN ix'.files
    BY <1>3, <1>5, <1>6, RewireTabled
  <1>8. RepairTyped' BY <1>1, SettledTyped DEF Settled
  <1>9. InFlightRuns' /\ UpsertsPlaced' /\ \A g \in Files : Running(g) => Running(g)'
    BY <1>1, UpsertsKept DEF Settled
  <1>10. /\ ~handlers'[f].open /\ handlers'[f].content = handlers[f].content
         /\ \A g \in Files : g # f => handlers'[g] = handlers[g]
    BY <1>1 DEF DocInv, DocTyped
  <1>11. OpenedOnce' BY <1>1, <1>10 DEF MendInv, OpenedOnce, Settled, IsOpen
  <1>12. Due' BY <1>1 DEF Due
  <1>13. StillEntered BY <1>1, <1>7, <1>9, <1>10 DEF StillEntered, Settled
  <1> QED BY <1>7, <1>8, <1>9, <1>11, <1>12, <1>13, DueStep

LEMMA MendHandleContent ==
  ASSUME DocInv, MendInv, NEW f \in Files, HandleContent(f)
  PROVE  MendInv'
  <1>1. /\ handlers[f].content > 0 /\ handlers' = [handlers EXCEPT ![f].content = @ - 1]
        /\ justOpened' = justOpened \ {f}
        /\ ParseAndIndex(f, IF f \in justOpened THEN "open" ELSE "change")
        /\ UNCHANGED <<buffer, opened, repair, notices, watched, closures>>
    BY DEF HandleContent, docVars, diskVars
  <1>2. f \in justOpened /\ handlers[f].content = 1 /\ buffer[f].was
    BY <1>1 DEF MendInv, OpenedOnce
  <1> DEFINE i == InvalidateWithDependents(ix, f)
  <1>3. IsIndex(i) /\ Tabled(i) /\ DOMAIN i.files = DOMAIN ix.files
    BY InvalidateTabled DEF DocInv, DocTyped, MendInv
  <1>4. StartUpsert(i, f, buffer[f].version, buffer[f].text, "open")
    BY <1>1, <1>2 DEF ParseAndIndex
  <1> HIDE DEF i
  <1>5. PICK s : Added(s, f, "open") BY <1>3, <1>4, Started
  <1>6. /\ InFlightRuns' /\ inFlight' \in [Files -> Slots \cup {None}] /\ ix'.files = i.files
        /\ Running(f)' /\ \A g \in Files : Running(g) => Running(g)'
    BY <1>3, <1>4, Started
  <1>7. UpsertsPlaced' BY <1>1, <1>2, <1>5, StartPlaced DEF MendInv
  <1>8. RepairTyped' BY <1>1, <1>6 DEF MendInv, RepairTyped
  <1>9. /\ handlers'[f].content = 0 /\ handlers'[f].open = handlers[f].open
        /\ \A g \in Files : g # f => handlers'[g] = handlers[g]
    BY <1>1, <1>2 DEF DocInv, DocTyped
  <1>10. OpenedOnce' BY <1>1, <1>2, <1>9 DEF MendInv, OpenedOnce, IsOpen
  <1>11. Due' BY <1>5 DEF Due, Doing, Added
  <1>12. Tabled(ix') /\ DOMAIN ix.files \subseteq DOMAIN ix'.files BY <1>3, <1>6 DEF Tabled
  <1>13. StillEntered BY <1>1, <1>6, <1>9, <1>12 DEF StillEntered
  <1> QED BY <1>6, <1>7, <1>8, <1>10, <1>11, <1>12, <1>13, DueStep

LEMMA MendBuild ==
  ASSUME DocInv, MendInv, NEW s, UpsertBuild(s)
  PROVE  MendInv'
  <1> DEFINE u == upserts[s]
             table == Wired(ix, u.file, u.text, Imports[<<u.file, u.text>>])
  <1>1. /\ s \in DOMAIN upserts
        /\ upserts' = [upserts EXCEPT ![s].phase = "extract", ![s].table = table]
        /\ UNCHANGED <<ix, handlers, closures>> /\ Settled
    BY DEF UpsertBuild, Settled, docVars, diskVars
  <1>2. u \in Upsert /\ upserts = [r \in DOMAIN upserts |-> upserts[r]] /\ IsIndex(ix)
    BY <1>1 DEF DocInv, DocTyped
  <1>3. table # NoTable BY <1>2, WiredTyped DEF Upsert, NoTable
  <1> HIDE DEF table
  <1>4. /\ DOMAIN upserts' = DOMAIN upserts
        /\ upserts'[s].file = u.file /\ upserts'[s].by = u.by /\ upserts'[s].table = table
        /\ \A r \in DOMAIN upserts : r # s => upserts'[r] = upserts[r]
    BY <1>1, <1>2 DEF Upsert
  <1> HIDE DEF u
  <1>5. \A r \in DOMAIN upserts : upserts'[r].file = upserts[r].file /\ upserts'[r].by = upserts[r].by
    BY <1>4 DEF u
  <1>6. InFlightRuns' BY <1>1, <1>4, <1>5 DEF MendInv, InFlightRuns, Settled
  <1>7. UpsertsPlaced'
    <2>1. \A r \in DOMAIN upserts : upserts'[r].phase = "extract" => upserts'[r].table # NoTable
      BY <1>3, <1>4 DEF MendInv, UpsertsPlaced
    <2>2. UpsertsPlaced BY DEF MendInv
    <2> QED BY <1>1, <1>4, <1>5, <2>1, <2>2 DEF UpsertsPlaced, Settled
  <1>8. RepairTyped' BY <1>1, SettledTyped DEF Settled
  <1>9. OpenedOnce' BY <1>1 DEF MendInv, OpenedOnce, Settled, IsOpen
  <1>10. \A g \in Files : Running(g) => Running(g)' BY <1>4, <1>5 DEF Running
  <1>11. Due => Due' BY <1>1, <1>4, <1>5 DEF Due, Doing, Settled
  <1>12. StillEntered BY <1>1, <1>10 DEF StillEntered, Settled
  <1>13. Tabled(ix') BY <1>1 DEF MendInv
  <1>14. \A g \in Files : Listed(g) => Listed(g)' BY <1>1 DEF Listed, Settled
  <1> QED BY <1>1, <1>6, <1>7, <1>8, <1>9, <1>10, <1>11, <1>12, <1>13, <1>14, ServedStep

\* A request leaves a pass due.
LEMMA RequestTyped ==
  ASSUME RepairTyped, NEW q, q = Requested
  PROVE  /\ q = [phase |-> q.phase, rerun |-> q.rerun, round |-> q.round, todo |-> q.todo,
                 busy |-> q.busy]
         /\ q.phase = "delay" \/ (q.phase # "idle" /\ q.rerun)
         /\ repair.phase # "idle" => q.phase = repair.phase /\ q.busy = repair.busy
                                     /\ q.todo = repair.todo
         /\ q.phase \in {"delay", "reindex", "install"} /\ q.rerun \in BOOLEAN
         /\ q.busy \in BOOLEAN /\ q.round \in Nat
         /\ q.phase = "install" => q.todo \in Seq(Files)
  <1>1. CASE repair.phase = "idle"
    <2>1. q = [NoRepair EXCEPT !.phase = "delay"] BY <1>1 DEF Requested
    <2>2. q = [phase |-> "delay", rerun |-> FALSE, round |-> 0, todo |-> <<>>, busy |-> FALSE]
      BY <2>1 DEF NoRepair
    <2> QED BY <1>1, <2>2
  <1>2. CASE repair.phase # "idle"
    <2>1. q = [repair EXCEPT !.rerun = TRUE] BY <1>2 DEF Requested
    <2>2. q = [phase |-> repair.phase, rerun |-> TRUE, round |-> repair.round,
               todo |-> repair.todo, busy |-> repair.busy]
      BY <2>1 DEF RepairTyped
    <2> QED BY <1>2, <2>2 DEF RepairTyped
  <1> QED BY <1>1, <1>2

\* An upsert ends.  That of an opening ends in a request; that of a repair ends
\* while the pass goes on; all others only give a file its table.
LEMMA MendInstall ==
  ASSUME DocInv, MendInv, NEW s, UpsertInstall(s)
  PROVE  MendInv'
  <1> DEFINE u == upserts[s]
             f == u.file
             installed == InstallFull(ix, f, u.version, u.text, u.table)
  <1>1. /\ s \in DOMAIN upserts /\ u.phase = "extract" /\ upserts' = Without(upserts, s)
        /\ DOMAIN closures' = DOMAIN closures
        /\ UNCHANGED <<handlers, buffer, opened, justOpened, notices>>
        /\ inFlight' = IF inFlight[f] = s THEN [inFlight EXCEPT ![f] = None] ELSE inFlight
    BY DEF UpsertInstall, docVars, diskVars
  <1>2. /\ u \in Upsert /\ u.table # NoTable /\ u.by \notin {"change", "watch"}
    BY <1>1 DEF DocInv, DocTyped, MendInv, UpsertsPlaced
  <1>3. /\ ix' = IF u.by \in Indexing THEN RewireDependents(installed, f) ELSE installed
        /\ repair' = CASE u.by = "open"                  -> Requested
                       [] u.by \in {"repair", "install"} -> [repair EXCEPT !.busy = FALSE]
                       [] OTHER                          -> repair
        /\ UNCHANGED watched
    BY <1>2 DEF UpsertInstall
  <1>4. f \in Files /\ u.version \in Nat /\ u.text \in Texts /\ u.table \in Tables /\ IsIndex(ix)
    BY <1>2, DocumentAssumption DEF Upsert, DocInv, DocTyped
  <1>5. /\ DOMAIN upserts' = DOMAIN upserts \ {s}
        /\ \A r \in DOMAIN upserts' : upserts'[r] = upserts[r]
    BY <1>1 DEF Without
  <1>6. /\ IsIndex(installed) /\ Tabled(installed)
        /\ DOMAIN installed.files = DOMAIN ix.files \cup {f} /\ ~installed.files[f].stale
        /\ \A g \in DOMAIN ix.files : g # f => installed.files[g] = ix.files[g]
    BY <1>2, <1>4, InstallTabled DEF MendInv
  <1> HIDE DEF installed
  <1>7. Tabled(ix') /\ DOMAIN ix'.files = DOMAIN ix.files \cup {f}
    BY <1>3, <1>6, RewireTabled
  <1>8. \A g \in Files : Running(g) => Running(g)' \/ g = f BY <1>5 DEF Running
  <1>9. StillEntered BY <1>1, <1>7, <1>8 DEF StillEntered
  <1>10. /\ inFlight \in [Files -> Slots \cup {None}]
         /\ \A g \in Files : inFlight[g] # None =>
              inFlight[g] \in DOMAIN upserts /\ upserts[inFlight[g]].file = g
    BY DEF MendInv, RepairTyped, InFlightRuns
  <1>11. inFlight' \in [Files -> Slots \cup {None}] BY <1>1, <1>10
  <1>12. \A g \in Files : inFlight'[g] # None => inFlight'[g] = inFlight[g] /\ inFlight[g] # s
    <2>1. \A g \in Files : inFlight[g] = s /\ inFlight[g] # None => g = f BY <1>10
    <2> HIDE DEF f
    <2> QED BY <1>1, <1>4, <1>10, <2>1
  <1>13. InFlightRuns' BY <1>5, <1>10, <1>12 DEF InFlightRuns
  <1>14. OpenedOnce' BY <1>1 DEF MendInv, OpenedOnce, IsOpen
  <1>15. RepairTyped /\ UpsertsPlaced BY DEF MendInv
  <1> HIDE DEF u
  <1>16. CASE u.by = "open"
    <2>1. repair' = Requested BY <1>3, <1>16
    <2> DEFINE q == Requested
    <2>2. /\ q = [phase |-> q.phase, rerun |-> q.rerun, round |-> q.round, todo |-> q.todo,
                  busy |-> q.busy]
          /\ q.phase = "delay" \/ (q.phase # "idle" /\ q.rerun)
          /\ repair.phase # "idle" => q.phase = repair.phase /\ q.busy = repair.busy
                                      /\ q.todo = repair.todo
          /\ q.phase \in {"delay", "reindex", "install"} /\ q.rerun \in BOOLEAN
          /\ q.busy \in BOOLEAN /\ q.round \in Nat
          /\ q.phase = "install" => q.todo \in Seq(Files)
      BY <1>15, RequestTyped
    <2>3. repair' = q BY <2>1
    <2> HIDE DEF q
    <2>4. RepairTyped' BY <1>1, <1>3, <1>11, <1>15, <2>2, <2>3 DEF RepairTyped
    <2>5. Due' BY <2>2, <2>3 DEF Due
    <2>6. UpsertsPlaced'
      <3>1. \A r \in DOMAIN upserts : upserts[r].by \in {"repair", "install"} =>
              repair'.phase = repair.phase /\ repair'.busy = repair.busy
        BY <1>15, <2>2, <2>3 DEF UpsertsPlaced
      <3> QED BY <1>1, <1>5, <1>15, <3>1 DEF UpsertsPlaced
    <2> QED BY <1>7, <1>9, <1>13, <1>14, <2>4, <2>5, <2>6, DueStep
  <1>17. CASE u.by \in {"repair", "install"}
    <2>1. repair' = [repair EXCEPT !.busy = FALSE] BY <1>3, <1>17
    <2>2. repair' = [phase |-> repair.phase, rerun |-> repair.rerun, round |-> repair.round,
                     todo |-> repair.todo, busy |-> FALSE]
      BY <1>15, <2>1 DEF RepairTyped
    <2>2a. /\ repair'.phase = repair.phase /\ repair'.rerun = repair.rerun /\ repair'.busy = FALSE
           /\ repair'.round = repair.round /\ repair'.todo = repair.todo
      BY <2>2
    <2>3. RepairTyped' BY <1>1, <1>3, <1>11, <1>15, <2>2, <2>2a DEF RepairTyped
    <2>4. \A r \in DOMAIN upserts' : upserts[r].by \notin {"repair", "install"}
      BY <1>1, <1>5, <1>15, <1>17 DEF UpsertsPlaced, u
    <2>5. UpsertsPlaced' BY <1>1, <1>5, <1>15, <2>4 DEF UpsertsPlaced
    <2>6. CASE u.by = "repair"
      <3>1. repair.phase = "reindex" BY <1>1, <1>15, <2>6 DEF UpsertsPlaced, u
      <3>2. Due' BY <2>2, <3>1 DEF Due
      <3> QED BY <1>7, <1>9, <1>13, <1>14, <2>3, <2>5, <3>2, DueStep
    <2>7. CASE u.by = "install"
      <3>1. ix' = installed BY <1>3, <2>7 DEF Indexing
      <3>2. Due => Due'
        <4>1. Doing("open") => Doing("open")' BY <1>5, <2>7 DEF Doing, u
        <4> QED BY <1>1, <2>2, <4>1 DEF Due
      <3>3. \A g \in Files : Listed(g) => Listed(g)' BY <2>2 DEF Listed
      <3>4. \A g \in DOMAIN ix.files : ~ix.files[g].stale => ~ix'.files[g].stale
        BY <1>6, <3>1
      <3>5. \A g \in Files : Running(g) =>
              Running(g)' \/ (g \in DOMAIN ix'.files /\ ~ix'.files[g].stale)
        BY <1>6, <1>8, <3>1
      <3> QED BY <1>7, <1>9, <1>13, <1>14, <2>3, <2>5, <3>2, <3>3, <3>4, <3>5, ServedStep
    <2> QED BY <1>17, <2>6, <2>7
  <1>18. CASE u.by \notin {"open", "repair", "install"}
    <2>1. ix' = installed /\ UNCHANGED repair BY <1>2, <1>3, <1>18 DEF Indexing
    <2>2. RepairTyped' BY <1>1, <1>3, <1>11, <1>15, <2>1 DEF RepairTyped
    <2>3. UpsertsPlaced' BY <1>1, <1>5, <1>15, <2>1 DEF UpsertsPlaced
    <2>4. Due => Due'
      <3>1. Doing("open") => Doing("open")' BY <1>5, <1>18 DEF Doing, u
      <3> QED BY <1>1, <2>1, <3>1 DEF Due
    <2>5. \A g \in Files : Listed(g) => Listed(g)' BY <2>1 DEF Listed
    <2>6. \A g \in DOMAIN ix.files : ~ix.files[g].stale => ~ix'.files[g].stale
      BY <1>6, <2>1
    <2>7. \A g \in Files : Running(g) =>
            Running(g)' \/ (g \in DOMAIN ix'.files /\ ~ix'.files[g].stale)
      BY <1>6, <1>8, <2>1
    <2> QED BY <1>7, <1>9, <1>13, <1>14, <2>2, <2>3, <2>4, <2>5, <2>6, <2>7, ServedStep
  <1> QED BY <1>16, <1>17, <1>18


\* While a walk is under way, the request at its end is due.
LEMMA MendWalk ==
  ASSUME DocInv, MendInv, NEW f \in Files, ClosureSteps(f)
  PROVE  MendInv'
  <1>1. f \in DOMAIN closures /\ Due
    BY DEF ClosureSteps, ClosureResolve, ClosureDeps, ClosureRead, ClosureInstall, Due
  <1>2. CASE ClosureResolve(f) \/ ClosureRead(f)
    <2>1. /\ UNCHANGED <<ix, upserts, handlers>> /\ Settled /\ DOMAIN closures' = DOMAIN closures
      BY <1>2 DEF ClosureResolve, ClosureRead, Settled, docVars, diskVars
    <2> QED BY <2>1, MendQuiet
  <1>3. CASE ClosureInstall(f)
    <2>1. UNCHANGED <<upserts, handlers>> /\ Settled /\ DOMAIN closures' = DOMAIN closures
      BY <1>3 DEF ClosureInstall, Settled, docVars, diskVars
    <2>2. Tabled(ix') /\ DOMAIN ix.files \subseteq DOMAIN ix'.files
      <3> DEFINE d == closures[f].at  t == closures[f].text
      <3>1. PICK warm \in SUBSET Imports[<<d, t>>] :
              ix' = RewireDependents(UpsertBackgroundFile(ix, d, 1, t, warm), d)
        BY <1>3 DEF ClosureInstall
      <3>2. closures[f].phase = "read" /\ t # Gone BY <1>3 DEF ClosureInstall
      <3>3. d \in Files /\ IsIndex(ix) /\ Tabled(ix) /\ t \in Texts
        BY <1>1, <3>2 DEF DocInv, DocTyped, Walk, MendInv
      <3> HIDE DEF d, t
      <3> DEFINE j == UpsertBackgroundFile(ix, d, 1, t, warm)
      <3>4. IsIndex(j) /\ Tabled(j) /\ DOMAIN ix.files \subseteq DOMAIN j.files
        BY <3>3, BackgroundTabled
      <3>5. ix' = RewireDependents(j, d) BY <3>1
      <3> HIDE DEF j
      <3> QED BY <3>4, <3>5, RewireTabled
    <2>3. InFlightRuns' /\ UpsertsPlaced' /\ \A g \in Files : Running(g) => Running(g)'
      BY <2>1, UpsertsKept DEF Settled
    <2>4. RepairTyped' BY <2>1, SettledTyped DEF Settled
    <2>5. OpenedOnce' BY <2>1 DEF MendInv, OpenedOnce, Settled, IsOpen
    <2>6. Due' BY <1>1, <2>1 DEF Due
    <2>7. StillEntered BY <2>1, <2>2, <2>3 DEF StillEntered, Settled
    <2> QED BY <2>2, <2>3, <2>4, <2>5, <2>6, <2>7, DueStep
  <1>4. CASE ClosureDeps(f)
    <2>1. /\ UNCHANGED <<ix, upserts, handlers, buffer, opened, justOpened, inFlight, notices, watched>>
          /\ \/ DOMAIN closures' = DOMAIN closures /\ UNCHANGED repair
             \/ DOMAIN closures' \subseteq DOMAIN closures /\ repair' = Requested
      BY <1>4 DEF ClosureDeps, Without, docVars, diskVars
    <2>2. CASE DOMAIN closures' = DOMAIN closures /\ UNCHANGED repair
      BY <2>1, <2>2, MendQuiet DEF Settled
    <2>3. CASE DOMAIN closures' \subseteq DOMAIN closures /\ repair' = Requested
      <3> DEFINE q == Requested
      <3>1. /\ q = [phase |-> q.phase, rerun |-> q.rerun, round |-> q.round, todo |-> q.todo,
                    busy |-> q.busy]
            /\ q.phase = "delay" \/ (q.phase # "idle" /\ q.rerun)
            /\ repair.phase # "idle" => q.phase = repair.phase /\ q.busy = repair.busy
                                        /\ q.todo = repair.todo
            /\ q.phase \in {"delay", "reindex", "install"} /\ q.rerun \in BOOLEAN
            /\ q.busy \in BOOLEAN /\ q.round \in Nat
            /\ q.phase = "install" => q.todo \in Seq(Files)
        BY RequestTyped DEF MendInv
      <3>2. repair' = q BY <2>3
      <3> HIDE DEF q
      <3>3. RepairTyped' BY <2>1, <3>1, <3>2 DEF MendInv, RepairTyped
      <3>4. Due' BY <3>1, <3>2 DEF Due
      <3>5. UpsertsPlaced'
        <4>1. UpsertsPlaced BY DEF MendInv
        <4>2. \A r \in DOMAIN upserts : upserts[r].by \in {"repair", "install"} =>
                repair'.phase = repair.phase /\ repair'.busy = repair.busy
          BY <3>1, <3>2, <4>1 DEF UpsertsPlaced
        <4> QED BY <2>1, <4>1, <4>2 DEF UpsertsPlaced
      <3>6. InFlightRuns' BY <2>1 DEF MendInv, InFlightRuns
      <3>7. OpenedOnce' BY <2>1, <2>3 DEF MendInv, OpenedOnce, IsOpen
      <3>8. StillEntered BY <2>1 DEF StillEntered, Running
      <3>9. Tabled(ix') BY <2>1 DEF MendInv
      <3> QED BY <3>3, <3>4, <3>5, <3>6, <3>7, <3>8, <3>9, DueStep
    <2> QED BY <2>1, <2>2, <2>3
  <1> QED BY <1>2, <1>3, <1>4 DEF ClosureSteps

LEMMA MendResolveEnds ==
  ASSUME DocInv, MendInv, NEW r \in resolving, ResolveEnds(r)
  PROVE  MendInv'
  <1>1. /\ ix' = Resolved(r) /\ DOMAIN closures' = DOMAIN closures
        /\ UNCHANGED <<upserts, handlers>> /\ Settled
    BY DEF ResolveEnds, Settled, docVars, diskVars
  <1>2. /\ Tabled(ix') /\ DOMAIN ix'.files = DOMAIN ix.files
        /\ \A g \in DOMAIN ix.files : ix'.files[g].stale = ix.files[g].stale
    BY <1>1, ResolvedTabled DEF DocInv, DocTyped, MendInv
  <1>3. InFlightRuns' /\ UpsertsPlaced' /\ \A g \in Files : Running(g) => Running(g)'
    BY <1>1, UpsertsKept DEF Settled
  <1>4. RepairTyped' BY <1>1, SettledTyped DEF Settled
  <1>5. OpenedOnce' BY <1>1 DEF MendInv, OpenedOnce, Settled, IsOpen
  <1>6. Due => Due' BY <1>1 DEF Due, Doing, Settled
  <1>7. StillEntered BY <1>1, <1>2, <1>3 DEF StillEntered, Settled
  <1>8. \A g \in Files : Listed(g) => Listed(g)' BY <1>1 DEF Listed, Settled
  <1> QED BY <1>2, <1>3, <1>4, <1>5, <1>6, <1>7, <1>8, ServedStep

-------------------------------------------------------------------------------
(* The repair. *)

\* A pass begins.
LEMMA MendRound ==
  ASSUME MendInv, NEW n \in Nat, StartRound(n), ~\E s \in DOMAIN upserts :
                                                upserts[s].by \in {"repair", "install"},
         UNCHANGED <<ix, buffer, opened, justOpened, inFlight, notices, watched, upserts, handlers,
                     closures>>
  PROVE  MendInv'
  <1>1. repair' = [phase |-> "reindex", rerun |-> FALSE, round |-> n,
                   todo |-> OrderByDependenciesFirst(StaleOpen), busy |-> FALSE]
    BY DEF StartRound
  <1> DEFINE todo == OrderByDependenciesFirst(StaleOpen)
  <1> HIDE DEF todo
  <1>2. repair' = [phase |-> "reindex", rerun |-> FALSE, round |-> n, todo |-> todo, busy |-> FALSE]
    BY <1>1 DEF todo
  <1>3. RepairTyped' BY <1>2 DEF MendInv, RepairTyped
  <1>4. InFlightRuns' BY DEF MendInv, InFlightRuns
  <1>5. UpsertsPlaced' BY DEF MendInv, UpsertsPlaced
  <1>6. OpenedOnce' BY DEF MendInv, OpenedOnce, IsOpen
  <1>7. Due' BY <1>2 DEF Due
  <1>8. StillEntered BY DEF StillEntered, Running
  <1>9. Tabled(ix') BY DEF MendInv
  <1> QED BY <1>3, <1>4, <1>5, <1>6, <1>7, <1>8, <1>9, DueStep

LEMMA MendReindex ==
  ASSUME DocInv, MendInv, RepairReindex
  PROVE  MendInv'
  <1>1. PICK n \in 1..Len(repair.todo) :
          /\ NeedsRepair(repair.todo[n]) /\ ParseAndIndex(repair.todo[n], "repair")
          /\ repair' = [repair EXCEPT !.todo = SubSeq(@, n + 1, Len(@)), !.busy = TRUE]
    BY DEF RepairReindex
  <1>2. /\ repair.phase = "reindex" /\ ~repair.busy
        /\ UNCHANGED <<handlers, buffer, opened, justOpened, notices, watched, closures>>
    BY DEF RepairReindex, docVars, diskVars
  <1> DEFINE f == repair.todo[n]
             i == InvalidateWithDependents(ix, f)
             rest == SubSeq(repair.todo, n + 1, Len(repair.todo))
  <1>3. f \in Files BY <1>1 DEF NeedsRepair, Has, DocInv, DocTyped, IsIndex
  <1>4. StartUpsert(i, f, buffer[f].version, buffer[f].text, "repair") BY <1>1 DEF ParseAndIndex
  <1> HIDE DEF rest
  <1>5. repair' = [phase |-> "reindex", rerun |-> repair.rerun, round |-> repair.round,
                   todo |-> rest, busy |-> TRUE]
    BY <1>1, <1>2 DEF MendInv, RepairTyped, rest
  <1> HIDE DEF f
  <1>6. IsIndex(i) /\ Tabled(i) /\ DOMAIN i.files = DOMAIN ix.files
    BY InvalidateTabled DEF DocInv, DocTyped, MendInv
  <1> HIDE DEF i
  <1>7. PICK s : Added(s, f, "repair") BY <1>3, <1>4, <1>6, Started
  <1>8. /\ InFlightRuns' /\ inFlight' \in [Files -> Slots \cup {None}] /\ ix'.files = i.files
        /\ \A g \in Files : Running(g) => Running(g)'
    BY <1>3, <1>4, <1>6, Started
  <1>9. UpsertsPlaced'
    <2>1. repair'.phase = "reindex" /\ repair'.busy BY <1>5
    <2> QED BY <1>2, <1>7, <2>1, StartPlaced DEF MendInv
  <1>10. RepairTyped' BY <1>2, <1>5, <1>8 DEF MendInv, RepairTyped
  <1>11. OpenedOnce' BY <1>2 DEF MendInv, OpenedOnce, IsOpen
  <1>12. Due' BY <1>5 DEF Due
  <1>13. Tabled(ix') /\ DOMAIN ix.files \subseteq DOMAIN ix'.files BY <1>6, <1>8 DEF Tabled
  <1>14. StillEntered BY <1>2, <1>8, <1>13 DEF StillEntered
  <1> QED BY <1>8, <1>9, <1>10, <1>11, <1>12, <1>13, <1>14, DueStep

\* The second half of a pass takes over every open document that nothing else
\* serves: it is indexed, stale and not in flight.
LEMMA MendInstalls ==
  ASSUME DocInv, MendInv, RepairInstalls
  PROVE  MendInv'
  <1>1. /\ repair.phase = "reindex" /\ ~repair.busy
        /\ repair' = [repair EXCEPT !.phase = "install", !.todo = StaleOpen]
        /\ UNCHANGED <<ix, buffer, opened, justOpened, inFlight, notices, watched, upserts, handlers,
                       closures>>
    BY DEF RepairInstalls, docVars, diskVars
  <1>2. /\ StaleOpen \in Seq(Files)
        /\ \A n \in 1..Len(opened) : NeedsRepair(opened[n])
             => \E k \in 1..Len(StaleOpen) : StaleOpen[k] = opened[n]
    BY StaleOpenFinds DEF MendInv, RepairTyped
  <1> DEFINE todo == StaleOpen
  <1>3. repair' = [phase |-> "install", rerun |-> repair.rerun, round |-> repair.round,
                   todo |-> todo, busy |-> FALSE]
    BY <1>1 DEF MendInv, RepairTyped
  <1> HIDE DEF todo
  <1>4. RepairTyped' BY <1>1, <1>2, <1>3 DEF MendInv, RepairTyped, todo
  <1>5. InFlightRuns' BY <1>1 DEF MendInv, InFlightRuns
  <1>6. UpsertsPlaced' BY <1>1 DEF MendInv, UpsertsPlaced
  <1>7. OpenedOnce' BY <1>1 DEF MendInv, OpenedOnce, IsOpen
  <1>8. StillEntered BY <1>1 DEF StillEntered, Running
  <1>9. Tabled(ix)' BY <1>1 DEF MendInv
  <1>10. ASSUME NEW f \in Files, IsOpen(f)' PROVE Entered(f)' /\ Served(f)'
    <2>1. Entered(f)' BY <1>8, <1>10, EnteredStep
    <2>2. CASE handlers[f].content > 0
      <3>1. Due' BY <1>1, <2>2 DEF Due
      <3> QED BY <2>1, <3>1 DEF Served
    <2>3. CASE Running(f)
      <3>1. Running(f)' BY <1>1, <2>3 DEF Running
      <3> QED BY <2>1, <3>1 DEF Served
    <2>4. CASE ~Running(f) /\ ~(handlers[f].content > 0)
      <3>1. Has(ix, f) BY <1>1, <2>1, <2>4 DEF Entered, Running
      <3>2. inFlight[f] = None BY <2>4 DEF MendInv, InFlightRuns, Running
      <3>3. CASE ix.files[f].stale
        <4>1. NeedsRepair(f) BY <3>1, <3>2, <3>3 DEF NeedsRepair
        <4>2. PICK n \in 1..Len(opened) : opened[n] = f
          BY <1>1, <1>10 DEF MendInv, OpenedOnce, IsOpen
        <4>3. PICK k \in 1..Len(todo) : todo[k] = f BY <1>2, <4>1, <4>2 DEF todo
        <4>4. Listed(f)' BY <1>3, <4>3 DEF Listed
        <4> QED BY <2>1, <4>4 DEF Served
      <3>4. CASE ~ix.files[f].stale BY <1>1, <2>1, <3>1, <3>4 DEF Served, Has
      <3> QED BY <3>3, <3>4
    <2> QED BY <2>2, <2>3, <2>4
  <1> QED BY <1>4, <1>5, <1>6, <1>7, <1>9, <1>10 DEF MendInv

LEMMA MendRepairInstall ==
  ASSUME DocInv, MendInv, RepairInstall
  PROVE  MendInv'
  <1>1. PICK f \in Files : /\ f = Head(repair.todo)
                           /\ StartUpsert(ix, f, buffer[f].version, buffer[f].text, "install")
    BY DEF RepairInstall
  <1>2. /\ repair.phase = "install" /\ ~repair.busy /\ repair.todo # <<>>
        /\ repair' = [repair EXCEPT !.todo = Tail(@), !.busy = TRUE]
        /\ UNCHANGED <<handlers, buffer, opened, justOpened, notices, watched, closures>>
    BY DEF RepairInstall, docVars, diskVars
  <1> DEFINE todo == repair.todo  rest == Tail(todo)
  <1>3. todo \in Seq(Files) /\ todo # <<>> BY <1>2 DEF MendInv, RepairTyped
  <1>4. repair' = [phase |-> "install", rerun |-> repair.rerun, round |-> repair.round,
                   todo |-> rest, busy |-> TRUE]
    BY <1>2 DEF MendInv, RepairTyped
  <1> HIDE DEF todo
  <1>5. /\ rest \in Seq(Files) /\ Len(todo) = Len(rest) + 1 /\ Len(rest) \in Nat
        /\ \A n \in 1..Len(rest) : rest[n] = todo[n + 1]
    BY <1>3
  <1> HIDE DEF rest
  <1>6. IsIndex(ix) BY DEF DocInv, DocTyped
  <1>7. PICK s : Added(s, f, "install") BY <1>1, <1>6, Started
  <1>8. /\ InFlightRuns' /\ inFlight' \in [Files -> Slots \cup {None}] /\ ix'.files = ix.files
        /\ Running(f)' /\ \A g \in Files : Running(g) => Running(g)'
    BY <1>1, <1>6, Started
  <1>9. UpsertsPlaced'
    <2>1. repair'.phase = "install" /\ repair'.busy BY <1>4
    <2> QED BY <1>2, <1>7, <2>1, StartPlaced DEF MendInv
  <1>10. RepairTyped'
    <2>1. /\ repair'.phase = "install" /\ repair'.rerun = repair.rerun /\ repair'.busy = TRUE
          /\ repair'.round = repair.round /\ repair'.todo = rest
      BY <1>4
    <2> QED BY <1>2, <1>4, <1>5, <1>8, <2>1 DEF MendInv, RepairTyped
  <1>11. OpenedOnce' BY <1>2 DEF MendInv, OpenedOnce, IsOpen
  <1>12. Due => Due' BY <1>2, <1>4, <1>7 DEF Due, Doing, Added
  <1>13. Tabled(ix') BY <1>8 DEF MendInv, Tabled
  <1>14. StillEntered BY <1>2, <1>8 DEF StillEntered
  <1>15. ASSUME NEW g \in Files, Listed(g) PROVE Listed(g)' \/ Running(g)'
    <2>1. PICK n \in 1..Len(todo) : todo[n] = g BY <1>15 DEF Listed, todo
    <2>2. CASE n = 1
      <3>1. g = f BY <1>1, <1>3, <2>1, <2>2 DEF todo
      <3> QED BY <1>8, <3>1
    <2>3. CASE n # 1
      <3>1. n - 1 \in 1..Len(rest) /\ rest[n - 1] = g
        <4>1. n - 1 \in 1..Len(rest) BY <1>5, <2>3
        <4>2. rest[n - 1] = todo[(n - 1) + 1] BY <1>5, <4>1
        <4>3. (n - 1) + 1 = n BY <1>5
        <4> QED BY <2>1, <4>1, <4>2, <4>3
      <3> QED BY <1>4, <3>1 DEF Listed
    <2> QED BY <2>2, <2>3
  <1> QED BY <1>8, <1>9, <1>10, <1>11, <1>12, <1>13, <1>14, <1>15, ServedStep

\* The pass is over: with a request, and a round left for it, another begins;
\* without one nobody is left in need.
LEMMA MendRoundEnds ==
  ASSUME DocInv, MendInv, RoundsSuffice, RepairRoundEnds
  PROVE  MendInv'
  <1>1. /\ repair.phase = "install" /\ ~repair.busy /\ repair.todo = <<>>
        /\ UNCHANGED <<ix, buffer, opened, justOpened, inFlight, notices, watched, upserts, handlers,
                       closures>>
    BY DEF RepairRoundEnds, docVars, diskVars
  <1>2. ~\E s \in DOMAIN upserts : upserts[s].by \in {"repair", "install"}
    BY <1>1 DEF MendInv, UpsertsPlaced
  <1>3. CASE repair.rerun
    <2>1. StartRound(repair.round + 1) BY <1>1, <1>3 DEF RepairRoundEnds, RoundsSuffice
    <2>2. repair.round + 1 \in Nat BY DEF MendInv, RepairTyped
    <2> QED BY <1>1, <1>2, <2>1, <2>2, MendRound
  <1>4. CASE ~repair.rerun
    <2>1. repair' = [phase |-> "idle", rerun |-> FALSE, round |-> 0, todo |-> <<>>, busy |-> FALSE]
      BY <1>4 DEF RepairRoundEnds, NoRepair
    <2>2. RepairTyped' BY <1>1, <2>1 DEF MendInv, RepairTyped
    <2>3. InFlightRuns' BY <1>1 DEF MendInv, InFlightRuns
    <2>4. UpsertsPlaced' BY <1>1, <1>2 DEF MendInv, UpsertsPlaced
    <2>5. OpenedOnce' BY <1>1 DEF MendInv, OpenedOnce, IsOpen
    <2>6. Due => Due' BY <1>1, <1>4 DEF Due, Doing
    <2>7. StillEntered BY <1>1 DEF StillEntered, Running
    <2>8. Tabled(ix') BY <1>1 DEF MendInv
    <2>9. \A g \in Files : ~Listed(g) BY <1>1 DEF Listed
    <2>10. \A g \in Files : Running(g) => Running(g)' BY <1>1 DEF Running
    <2> QED BY <1>1, <2>2, <2>3, <2>4, <2>5, <2>6, <2>7, <2>8, <2>9, <2>10, ServedStep
  <1> QED BY <1>3, <1>4

LEMMA MendRepair ==
  ASSUME DocInv, MendInv, RoundsSuffice, RepairSteps
  PROVE  MendInv'
  <1>1. CASE RepairStarts
    <2>1. /\ repair.phase = "delay" /\ StartRound(0)
          /\ UNCHANGED <<ix, buffer, opened, justOpened, inFlight, notices, watched, upserts,
                         handlers, closures>>
      BY <1>1 DEF RepairStarts, docVars, diskVars
    <2>2. ~\E s \in DOMAIN upserts : upserts[s].by \in {"repair", "install"}
      BY <2>1 DEF MendInv, UpsertsPlaced
    <2> QED BY <2>1, <2>2, MendRound
  <1> QED BY <1>1, MendReindex, MendInstalls, MendRepairInstall, MendRoundEnds DEF RepairSteps

-------------------------------------------------------------------------------
(* Every step, and rest. *)

\* A document that was closed is not opened again.
LEMMA StaysClosed ==
  ASSUME DocInv, [Next]_vars, NoneClosed'
  PROVE  NoneClosed /\ \A f \in Files : ~Close(f)
  <1>1. buffer \in [Files -> [was : BOOLEAN, open : BOOLEAN, version : 0..MaxVersion, text : Texts]]
    BY DEF DocInv, DocTyped
  <1>2. \/ UNCHANGED buffer
        \/ \E f \in Files : Close(f) \/ \E t \in Texts : Open(f, t) \/ Edit(f, t)
    BY DEF Next, Continue, HandlerSteps, ClosureSteps, WatchSteps, UpsertSteps, RepairSteps, vars,
           Save, Ask, OnDemandIndex, Resolve, WriteDisk, HandleOpen, HandleContent, AskAgain,
           ClosureResolve, ClosureDeps, ClosureRead, ClosureInstall, FileChanged, WatchRead, FileDeleted,
           UpsertBuild, UpsertInstall, ResolveEnds, RepairStarts, RepairReindex, RepairInstalls,
           RepairInstall, RepairRoundEnds, docVars
  <1>3. CASE UNCHANGED buffer
    <2>1. NoneClosed BY <1>3 DEF NoneClosed, IsOpen
    <2>2. ASSUME NEW f \in Files, Close(f) PROVE FALSE
      BY <1>1, <1>3, <2>2 DEF Close, IsOpen
    <2> QED BY <2>1, <2>2
  <1>4. ASSUME NEW f \in Files, NEW t \in Texts, Open(f, t) PROVE NoneClosed /\ \A g \in Files : ~Close(g)
    <2>1. /\ ~buffer[f].was /\ buffer' = [buffer EXCEPT ![f] = [was |-> TRUE, open |-> TRUE,
                                            version |-> 1, text |-> t]]
      BY <1>4 DEF Open
    <2>2. \A g \in Files : g # f => buffer'[g] = buffer[g] BY <1>1, <2>1
    <2>3. NoneClosed BY <2>1, <2>2 DEF NoneClosed, IsOpen
    <2>4. ASSUME NEW g \in Files, Close(g) PROVE FALSE
      <3>1. ~buffer'[g].open BY <1>1, <2>4 DEF Close
      <3>2. buffer[g].open BY <2>4 DEF Close, IsOpen
      <3> QED BY <1>1, <2>1, <2>2, <3>1, <3>2
    <2> QED BY <2>3, <2>4
  <1>5. ASSUME NEW f \in Files, Close(f) PROVE FALSE
    <2>1. /\ buffer' = [buffer EXCEPT ![f].open = FALSE] /\ buffer[f].open
      BY <1>5 DEF Close, IsOpen
    <2>2. buffer'[f].was = buffer[f].was /\ ~buffer'[f].open BY <1>1, <2>1
    <2>3. buffer[f].was BY <2>1 DEF DocInv, Versions, Buffers, IsOpen
    <2> QED BY <2>2, <2>3 DEF NoneClosed, IsOpen
  <1>6. ASSUME NEW f \in Files, NEW t \in Texts, Edit(f, t) PROVE NoneClosed
    <2>1. buffer' = [buffer EXCEPT ![f].version = @ + 1, ![f].text = t] BY <1>6 DEF Edit
    <2>2. \A g \in Files : buffer'[g].was = buffer[g].was /\ buffer'[g].open = buffer[g].open
      BY <1>1, <2>1
    <2> QED BY <2>2 DEF NoneClosed, IsOpen
  <1> QED BY <1>2, <1>3, <1>4, <1>5, <1>6

LEMMA MendInit == Init => MendInv
  <1> SUFFICES ASSUME Init PROVE MendInv OBVIOUS
  <1>1. ix = EmptyIndex /\ DOMAIN ix.files = {} BY EmptyIndexTyped DEF Init
  <1>2. RepairTyped
    <2>1. repair = [phase |-> "idle", rerun |-> FALSE, round |-> 0, todo |-> <<>>, busy |-> FALSE]
      BY DEF Init, NoRepair
    <2> QED BY <2>1 DEF Init, RepairTyped
  <1>3. Tabled(ix) BY <1>1 DEF Tabled
  <1>4. InFlightRuns /\ UpsertsPlaced BY DEF Init, InFlightRuns, UpsertsPlaced
  <1>5. OpenedOnce BY DEF Init, OpenedOnce, IsOpen
  <1>6. \A f \in Files : ~IsOpen(f) BY DEF Init, IsOpen
  <1> QED BY <1>2, <1>3, <1>4, <1>5, <1>6 DEF MendInv

LEMMA MendNext ==
  ASSUME Unedited
  PROVE  DocInv /\ MendedUnlessClosed /\ RoundsSuffice /\ [Next]_vars => MendedUnlessClosed'
  <1> SUFFICES ASSUME DocInv, MendedUnlessClosed, RoundsSuffice, [Next]_vars, NoneClosed'
               PROVE  MendInv'
    BY DEF MendedUnlessClosed
  <1>1. NoneClosed /\ \A f \in Files : ~Close(f) BY StaysClosed
  <1>2. MendInv BY <1>1 DEF MendedUnlessClosed
  <1>3. CASE UNCHANGED vars
    <2>1. /\ UNCHANGED <<ix, upserts, handlers, closures>> /\ Settled
      BY <1>3 DEF vars, Settled
    <2> QED BY <1>2, <2>1, MendQuiet
  <1>4. ASSUME NEW f \in Files, Ask(f) \/ OnDemandIndex(f) \/ Resolve(f) PROVE MendInv'
    BY <1>2, <1>4, MendQuery
  <1>12. ASSUME NEW f \in Files, NEW t \in Texts, Open(f, t) PROVE MendInv'
    BY <1>2, <1>12, MendOpen
  <1>5. ASSUME NEW f \in Files PROVE ~Save(f) /\ \A t : ~Edit(f, t) /\ ~WriteDisk(f, t)
    BY DEF Save, Edit, WriteDisk, Event, Unedited
  <1>6. ASSUME NEW f \in Files PROVE ~WatchSteps(f)
    BY <1>2 DEF MendInv, RepairTyped, WatchSteps, FileChanged, WatchRead, FileDeleted
  <1>7. ASSUME NEW f \in Files, HandlerSteps(f) PROVE MendInv'
    BY <1>2, <1>7, MendHandleOpen, MendHandleContent, MendQuery DEF HandlerSteps
  <1>8. ASSUME NEW f \in Files, ClosureSteps(f) PROVE MendInv'
    BY <1>2, <1>8, MendWalk
  <1>9. ASSUME NEW s \in Slots, UpsertSteps(s) PROVE MendInv'
    BY <1>2, <1>9, MendBuild, MendInstall DEF UpsertSteps
  <1>10. ASSUME NEW r \in resolving, ResolveEnds(r) PROVE MendInv'
    BY <1>2, <1>10, MendResolveEnds
  <1>11. CASE RepairSteps BY <1>2, <1>11, MendRepair
  <1> QED BY <1>1, <1>3, <1>4, <1>5, <1>6, <1>7, <1>8, <1>9, <1>10, <1>11, <1>12 DEF Next, Continue

LEMMA MendedAtRest == MendedUnlessClosed => RestIsRepaired
  <1> SUFFICES ASSUME MendedUnlessClosed, AtRest, \A f \in Files : buffer[f].was => IsOpen(f),
                      NEW f \in Files, IsOpen(f)
               PROVE  GetSymbolTable(ix, f) # NoTable
    BY DEF RestIsRepaired
  <1>1. MendInv BY DEF MendedUnlessClosed, NoneClosed
  <1>2. ~Due BY DEF AtRest, Due, Doing
  <1>3. ~Running(f) /\ ~Listed(f) BY DEF AtRest, Running, Listed
  <1>4. Has(ix, f) /\ ~ix.files[f].stale BY <1>1, <1>2, <1>3 DEF MendInv, Served
  <1>5. ix.files[f].table # NoTable BY <1>1, <1>4 DEF MendInv, Tabled, Has
  <1> QED BY <1>4, <1>5 DEF GetSymbolTable

-------------------------------------------------------------------------------
(* How many rounds are enough.  Opening a document asks for a repair twice,  *)
(* when it is indexed and when its dependencies are.                         *)

\* The documents whose walk, or whose first upsert, has yet to ask.
Walks == {f \in Documents : ~buffer[f].was \/ handlers[f].open \/ f \in DOMAIN closures}

FirstUpserts ==
  {f \in Documents : \/ ~buffer[f].was \/ handlers[f].content > 0
                     \/ \E s \in DOMAIN upserts : upserts[s].by = "open" /\ upserts[s].file = f}

\* The requests that the repair under way has used up.
Used == repair.round + (IF repair.phase = "idle" THEN 0 ELSE 1) + (IF repair.rerun THEN 1 ELSE 0)

Counted == Cardinality(Walks) + Cardinality(FirstUpserts) + Used <= 2 * Cardinality(Documents)

LEMMA CountsTyped ==
  ASSUME RepairTyped
  PROVE  /\ IsFiniteSet(Walks) /\ IsFiniteSet(FirstUpserts)
         /\ Cardinality(Walks) \in Nat /\ Cardinality(FirstUpserts) \in Nat
         /\ Cardinality(Documents) \in Nat /\ Used \in Nat
  <1>1. IsFiniteSet(Documents) BY DocumentAssumption, FS_Subset
  <1>2. Walks \subseteq Documents /\ FirstUpserts \subseteq Documents
    BY DEF Walks, FirstUpserts
  <1>3. IsFiniteSet(Walks) /\ IsFiniteSet(FirstUpserts) BY <1>1, <1>2, FS_Subset
  <1>4. Used \in Nat BY DEF Used, RepairTyped
  <1> QED BY <1>1, <1>3, <1>4, FS_CardinalityType

\* A step that leaves nobody more to ask and asks for nothing ...
LEMMA CountStep ==
  ASSUME RepairTyped, RepairTyped', Counted, Walks' \subseteq Walks,
         FirstUpserts' \subseteq FirstUpserts, Used' <= Used
  PROVE  Counted'
  <1> DEFINE w == Cardinality(Walks)  v == Cardinality(Walks')
             x == Cardinality(FirstUpserts)  y == Cardinality(FirstUpserts')
  <1>1. /\ IsFiniteSet(Walks) /\ IsFiniteSet(FirstUpserts) /\ Cardinality(Documents) \in Nat
        /\ w \in Nat /\ x \in Nat /\ Used \in Nat
    BY CountsTyped
  <1>2. v \in Nat /\ v <= w /\ y \in Nat /\ y <= x
    BY <1>1, FS_Subset, FS_CardinalityType
  <1>3. Used' \in Nat BY DEF Used, RepairTyped
  <1>4. w + x + Used <= 2 * Cardinality(Documents) BY DEF Counted
  <1> HIDE DEF w, v, x, y
  <1>5. v + y + Used' <= 2 * Cardinality(Documents) BY <1>1, <1>2, <1>3, <1>4
  <1> QED BY <1>5 DEF Counted, v, y

\* ... and one of somebody who asks for the last time.
LEMMA CountRequest ==
  ASSUME RepairTyped, RepairTyped', Counted, NEW f,
         Walks' \subseteq Walks, FirstUpserts' \subseteq FirstUpserts,
         \/ f \in Walks /\ f \notin Walks'
         \/ f \in FirstUpserts /\ f \notin FirstUpserts',
         repair' = Requested
  PROVE  Counted'
  <1> DEFINE w == Cardinality(Walks)  v == Cardinality(Walks')
             x == Cardinality(FirstUpserts)  y == Cardinality(FirstUpserts')
  <1>1. /\ IsFiniteSet(Walks) /\ IsFiniteSet(FirstUpserts) /\ Cardinality(Documents) \in Nat
        /\ w \in Nat /\ x \in Nat /\ Used \in Nat
    BY CountsTyped
  <1>2. v \in Nat /\ v <= w /\ y \in Nat /\ y <= x
    BY <1>1, FS_Subset, FS_CardinalityType
  <1>3. v + y + 1 <= w + x
    <2>1. CASE f \in Walks /\ f \notin Walks'
      <3>1. IsFiniteSet(Walks \ {f}) /\ Cardinality(Walks \ {f}) = w - 1
        BY <1>1, <2>1, FS_RemoveElement
      <3>2. v <= w - 1 BY <2>1, <3>1, FS_Subset
      <3> HIDE DEF w, v, x, y
      <3> QED BY <1>1, <1>2, <3>2
    <2>2. CASE f \in FirstUpserts /\ f \notin FirstUpserts'
      <3>1. IsFiniteSet(FirstUpserts \ {f}) /\ Cardinality(FirstUpserts \ {f}) = x - 1
        BY <1>1, <2>2, FS_RemoveElement
      <3>2. y <= x - 1 BY <2>2, <3>1, FS_Subset
      <3> HIDE DEF w, v, x, y
      <3> QED BY <1>1, <1>2, <3>2
    <2> QED BY <2>1, <2>2
  <1>4. Used' \in Nat /\ Used' <= Used + 1
    <2>1. CASE repair.phase = "idle"
      <3>1. repair' = [NoRepair EXCEPT !.phase = "delay"] BY <2>1 DEF Requested
      <3>2. repair'.round = 0 /\ repair'.phase = "delay" /\ repair'.rerun = FALSE
        BY <3>1 DEF NoRepair
      <3> QED BY <1>1, <3>2 DEF Used
    <2>2. CASE repair.phase # "idle"
      <3>1. repair' = [repair EXCEPT !.rerun = TRUE] BY <2>2 DEF Requested
      <3>2. repair'.round = repair.round /\ repair'.phase = repair.phase /\ repair'.rerun = TRUE
        BY <3>1 DEF RepairTyped
      <3> QED BY <2>2, <3>2 DEF Used, RepairTyped
    <2> QED BY <2>1, <2>2
  <1>5. w + x + Used <= 2 * Cardinality(Documents) BY DEF Counted
  <1> HIDE DEF w, v, x, y
  <1>6. v + y + Used' <= 2 * Cardinality(Documents) BY <1>1, <1>2, <1>3, <1>4, <1>5
  <1> QED BY <1>6 DEF Counted, v, y

\* Nobody else's opening is under way after the step.
LEMMA NoMoreToAsk ==
  ASSUME DocInv, MendInv, MendInv',
         \A f \in Files : handlers'[f] = handlers[f] /\ (buffer[f].was => buffer'[f].was),
         DOMAIN closures' \subseteq DOMAIN closures,
         \A s \in DOMAIN upserts' : upserts'[s].by = "open" =>
           s \in DOMAIN upserts /\ upserts[s].by = "open" /\ upserts'[s].file = upserts[s].file
  PROVE  Walks' \subseteq Walks /\ FirstUpserts' \subseteq FirstUpserts
  <1>1. Documents \subseteq Files BY DocumentAssumption
  <1> QED BY <1>1 DEF Walks, FirstUpserts

LEMMA CountNext ==
  ASSUME Unedited, DocInv, MendInv, Counted, [Next]_vars, NoneClosed', MendInv'
  PROVE  Counted'
  <1>1. NoneClosed /\ (\A f \in Files : ~Close(f)) /\ RepairTyped /\ RepairTyped'
        /\ Documents \subseteq Files
    BY StaysClosed, DocumentAssumption DEF MendInv
  <1>2. ASSUME UNCHANGED <<buffer, handlers, closures, upserts>>, Used' <= Used
        PROVE  Counted'
    BY <1>1, <1>2, NoMoreToAsk, CountStep
  <1>3. UNCHANGED repair => Used' <= Used BY <1>1, CountsTyped DEF Used
  <1>4. CASE UNCHANGED vars BY <1>2, <1>3, <1>4 DEF vars
  <1>5. ASSUME NEW f \in Files, NEW t \in Texts, Open(f, t) PROVE Counted'
    <2>1. /\ ~buffer[f].was /\ \A g \in Files : g # f => buffer'[g] = buffer[g] /\ handlers'[g] = handlers[g]
          /\ UNCHANGED <<closures, upserts, repair>>
      BY <1>5 DEF Open, DocInv, DocTyped
    <2>2. Walks' \subseteq Walks /\ FirstUpserts' \subseteq FirstUpserts
      BY <1>1, <2>1 DEF Walks, FirstUpserts
    <2> QED BY <1>1, <1>3, <2>1, <2>2, CountStep
  <1>6. ASSUME NEW f \in Files, NEW i, NEW v, NEW t, NEW by, by # "open", StartUpsert(i, f, v, t, by),
               UNCHANGED <<buffer, handlers>>, DOMAIN closures' = DOMAIN closures, Used' <= Used
        PROVE  Counted'
    <2> DEFINE u == [file |-> f, version |-> v, text |-> t, table |-> NoTable, by |-> by,
                     phase |-> "warm"]
    <2>1. PICK s : s \notin DOMAIN upserts /\ upserts' = With(upserts, s, u)
      BY <1>6 DEF StartUpsert
    <2>2. u.by = by OBVIOUS
    <2> HIDE DEF u
    <2>3. /\ DOMAIN upserts' = DOMAIN upserts \cup {s} /\ upserts'[s] = u
          /\ \A r \in DOMAIN upserts : upserts'[r] = upserts[r]
      BY <2>1 DEF With
    <2>4. Walks' \subseteq Walks /\ FirstUpserts' \subseteq FirstUpserts
      BY <1>6, <2>2, <2>3, NoMoreToAsk
    <2> QED BY <1>1, <1>6, <2>4, CountStep
  <1>7. ASSUME NEW f \in Files, Ask(f) \/ AskAgain(f) \/ OnDemandIndex(f) \/ Resolve(f)
        PROVE  Counted'
    <2>1. UNCHANGED <<handlers, buffer, repair, closures>>
      BY <1>7 DEF Ask, AskAgain, OnDemandIndex, Resolve, docVars, diskVars
    <2>2. \/ UNCHANGED upserts
          \/ \E v, t : \E by \in {"query", "demand"} : StartUpsert(ix, f, v, t, by)
      BY <1>7 DEF Ask, AskAgain, OnDemandIndex, Resolve
    <2> QED BY <1>2, <1>3, <1>6, <2>1, <2>2
  <1>8. ASSUME NEW f \in Files, HandleOpen(f) PROVE Counted'
    <2>1. /\ handlers[f].open /\ handlers'[f].content = handlers[f].content /\ f \notin DOMAIN closures
          /\ \A g \in Files : g # f => handlers'[g] = handlers[g]
          /\ DOMAIN closures' = DOMAIN closures \cup {f}
          /\ UNCHANGED <<buffer, upserts, repair>>
      BY <1>8 DEF HandleOpen, With, docVars, DocInv, DocTyped, MendInv, OpenedOnce
    <2>2. Walks' \subseteq Walks /\ FirstUpserts' \subseteq FirstUpserts
      BY <1>1, <2>1 DEF Walks, FirstUpserts
    <2> QED BY <1>1, <1>3, <2>1, <2>2, CountStep
  <1>9. ASSUME NEW f \in Files, HandleContent(f) PROVE Counted'
    <2>1. /\ handlers[f].content > 0 /\ handlers'[f].open = handlers[f].open
          /\ \A g \in Files : g # f => handlers'[g] = handlers[g]
          /\ UNCHANGED <<buffer, closures, repair>>
          /\ \E i, v, t, by : StartUpsert(i, f, v, t, by)
      BY <1>9 DEF HandleContent, ParseAndIndex, docVars, DocInv, DocTyped
    <2>2. PICK s, u : u.file = f /\ upserts' = With(upserts, s, u)
      BY <2>1 DEF StartUpsert
    <2>3. /\ DOMAIN upserts' = DOMAIN upserts \cup {s} /\ upserts'[s] = u
          /\ \A r \in DOMAIN upserts' : r # s => upserts'[r] = upserts[r]
      BY <2>2 DEF With
    <2>4. \A g \in FirstUpserts' : g = f \/ g \in FirstUpserts
      BY <1>1, <2>1, <2>2, <2>3 DEF FirstUpserts
    <2>5. f \in Documents => f \in FirstUpserts BY <2>1 DEF FirstUpserts
    <2>6. Walks' \subseteq Walks /\ FirstUpserts' \subseteq FirstUpserts
      <3>1. Walks' \subseteq Walks BY <1>1, <2>1 DEF Walks
      <3>2. FirstUpserts' \subseteq Documents BY DEF FirstUpserts
      <3> QED BY <2>4, <2>5, <3>1, <3>2
    <2> QED BY <1>1, <1>3, <2>1, <2>6, CountStep
  <1>10. ASSUME NEW f \in Files, ClosureResolve(f) \/ ClosureRead(f) \/ ClosureInstall(f) PROVE Counted'
    <2>1. DOMAIN closures' = DOMAIN closures /\ UNCHANGED <<buffer, handlers, upserts, repair>>
      BY <1>10 DEF ClosureResolve, ClosureRead, ClosureInstall, docVars
    <2>2. Walks' \subseteq Walks /\ FirstUpserts' \subseteq FirstUpserts BY <2>1, NoMoreToAsk
    <2> QED BY <1>1, <1>3, <2>1, <2>2, CountStep
  <1>11. ASSUME NEW f \in Files, ClosureDeps(f) PROVE Counted'
    <2>1. /\ UNCHANGED <<buffer, handlers, upserts>> /\ f \in DOMAIN closures
          /\ \/ DOMAIN closures' = DOMAIN closures /\ UNCHANGED repair
             \/ DOMAIN closures' = DOMAIN closures \ {f} /\ repair' = Requested
      BY <1>11 DEF ClosureDeps, Without, docVars
    <2>2. Walks' \subseteq Walks /\ FirstUpserts' \subseteq FirstUpserts BY <2>1, NoMoreToAsk
    <2>3. CASE UNCHANGED repair BY <1>1, <1>3, <2>2, <2>3, CountStep
    <2>4. CASE DOMAIN closures' = DOMAIN closures \ {f} /\ repair' = Requested
      <3>1. buffer[f].was /\ ~handlers[f].open /\ f \in Documents
        BY <2>1 DEF MendInv, OpenedOnce
      <3>2. f \in Walks /\ f \notin Walks' BY <2>1, <2>4, <3>1 DEF Walks
      <3> QED BY <1>1, <2>2, <2>4, <3>2, CountRequest
    <2> QED BY <2>1, <2>3, <2>4
  <1>12. ASSUME NEW r \in resolving, ResolveEnds(r) PROVE Counted'
    <2>1. DOMAIN closures' = DOMAIN closures /\ UNCHANGED <<buffer, handlers, upserts, repair>>
      BY <1>12 DEF ResolveEnds, docVars
    <2>2. Walks' \subseteq Walks /\ FirstUpserts' \subseteq FirstUpserts BY <2>1, NoMoreToAsk
    <2> QED BY <1>1, <1>3, <2>1, <2>2, CountStep
  <1>13. ASSUME NEW s \in Slots, UpsertBuild(s) PROVE Counted'
    <2>1. /\ UNCHANGED <<buffer, handlers, closures, repair>> /\ DOMAIN upserts' = DOMAIN upserts
          /\ \A r \in DOMAIN upserts : upserts'[r].file = upserts[r].file /\ upserts'[r].by = upserts[r].by
      <3>1. /\ s \in DOMAIN upserts
            /\ \E table : upserts' = [upserts EXCEPT ![s].phase = "extract", ![s].table = table]
            /\ UNCHANGED <<buffer, handlers, closures, repair>>
        BY <1>13 DEF UpsertBuild, docVars
      <3>2. upserts[s] \in Upsert /\ upserts = [r \in DOMAIN upserts |-> upserts[r]]
        BY <3>1 DEF DocInv, DocTyped
      <3> QED BY <3>1, <3>2 DEF Upsert
    <2>2. Walks' \subseteq Walks /\ FirstUpserts' \subseteq FirstUpserts BY <2>1, NoMoreToAsk
    <2> QED BY <1>1, <1>3, <2>1, <2>2, CountStep
  <1>14. ASSUME NEW s \in Slots, UpsertInstall(s) PROVE Counted'
    <2>1. /\ s \in DOMAIN upserts /\ upserts' = Without(upserts, s)
          /\ UNCHANGED <<buffer, handlers>> /\ DOMAIN closures' = DOMAIN closures
          /\ repair' = CASE upserts[s].by = "open"                  -> Requested
                         [] upserts[s].by \in {"repair", "install"} -> [repair EXCEPT !.busy = FALSE]
                         [] OTHER                                   -> repair
      BY <1>14 DEF UpsertInstall, docVars
    <2>2. /\ DOMAIN upserts' = DOMAIN upserts \ {s}
          /\ \A r \in DOMAIN upserts' : upserts'[r] = upserts[r]
      BY <2>1 DEF Without
    <2>3. Walks' \subseteq Walks /\ FirstUpserts' \subseteq FirstUpserts
      BY <2>1, <2>2, NoMoreToAsk
    <2>4. CASE upserts[s].by = "open"
      <3> DEFINE f == upserts[s].file
      <3>1. /\ f \in Files /\ buffer[f].was /\ f \notin justOpened
            /\ \A r \in DOMAIN upserts : upserts[r].by = "open" /\ upserts[r].file = f => r = s
        BY <2>1, <2>4 DEF MendInv, UpsertsPlaced, DocInv, DocTyped, Upsert
      <3>2. f \in Documents /\ handlers[f].content = 0 BY <3>1 DEF MendInv, OpenedOnce
      <3>3. f \in FirstUpserts BY <2>1, <2>4, <3>2 DEF FirstUpserts
      <3> HIDE DEF f
      <3>4. f \notin FirstUpserts' BY <2>1, <2>2, <3>1, <3>2 DEF FirstUpserts
      <3>5. repair' = Requested BY <2>1, <2>4
      <3> QED BY <1>1, <2>3, <3>3, <3>4, <3>5, CountRequest
    <2>5. CASE upserts[s].by \in {"repair", "install"}
      <3>1. repair' = [repair EXCEPT !.busy = FALSE] BY <2>1, <2>5
      <3>2. repair'.round = repair.round /\ repair'.phase = repair.phase /\ repair'.rerun = repair.rerun
        BY <1>1, <3>1 DEF RepairTyped
      <3>3. Used' <= Used BY <1>1, <3>2, CountsTyped DEF Used
      <3> QED BY <1>1, <2>3, <3>3, CountStep
    <2>6. CASE upserts[s].by \notin {"open", "repair", "install"}
      <3>1. UNCHANGED repair BY <2>1, <2>6
      <3> QED BY <1>1, <1>3, <2>3, <3>1, CountStep
    <2> QED BY <2>4, <2>5, <2>6
  <1>15. CASE RepairSteps
    <2>1. UNCHANGED <<buffer, handlers, closures>>
      BY <1>15 DEF RepairSteps, RepairStarts, RepairReindex, RepairInstalls, RepairInstall,
             RepairRoundEnds, docVars
    <2>2. CASE RepairStarts
      <3>1. repair'.round = 0 /\ repair'.phase = "reindex" /\ repair'.rerun = FALSE
            /\ repair.phase = "delay" /\ UNCHANGED upserts
        BY <2>2 DEF RepairStarts, StartRound
      <3>2. Used' <= Used BY <1>1, <3>1 DEF Used, RepairTyped
      <3> QED BY <1>2, <2>1, <3>1, <3>2
    <2>3. CASE RepairReindex
      <3>1. PICK n \in 1..Len(repair.todo) :
              /\ NeedsRepair(repair.todo[n]) /\ ParseAndIndex(repair.todo[n], "repair")
              /\ repair' = [repair EXCEPT !.todo = SubSeq(@, n + 1, Len(@)), !.busy = TRUE]
        BY <2>3 DEF RepairReindex
      <3>2. repair'.round = repair.round /\ repair'.phase = repair.phase /\ repair'.rerun = repair.rerun
        BY <1>1, <3>1 DEF RepairTyped
      <3>3. Used' <= Used BY <1>1, <3>2, CountsTyped DEF Used
      <3>4. repair.todo[n] \in Files BY <3>1 DEF NeedsRepair, Has, DocInv, DocTyped, IsIndex
      <3> QED BY <1>6, <2>1, <3>1, <3>3, <3>4 DEF ParseAndIndex
    <2>4. CASE RepairInstalls
      <3>1. repair' = [repair EXCEPT !.phase = "install", !.todo = StaleOpen] /\ UNCHANGED upserts
            /\ repair.phase = "reindex"
        BY <2>4 DEF RepairInstalls
      <3> DEFINE todo == StaleOpen
      <3>2. repair' = [repair EXCEPT !.phase = "install", !.todo = todo] BY <3>1
      <3> HIDE DEF todo
      <3>3. repair'.round = repair.round /\ repair'.phase = "install" /\ repair'.rerun = repair.rerun
        BY <1>1, <3>2 DEF RepairTyped
      <3>4. Used' <= Used BY <1>1, <3>1, <3>3, CountsTyped DEF Used
      <3> QED BY <1>2, <2>1, <3>1, <3>4
    <2>5. CASE RepairInstall
      <3>1. PICK f \in Files : StartUpsert(ix, f, buffer[f].version, buffer[f].text, "install")
        BY <2>5 DEF RepairInstall
      <3>2. repair' = [repair EXCEPT !.todo = Tail(@), !.busy = TRUE] BY <2>5 DEF RepairInstall
      <3>3. repair'.round = repair.round /\ repair'.phase = repair.phase /\ repair'.rerun = repair.rerun
        BY <1>1, <3>2 DEF RepairTyped
      <3>4. Used' <= Used BY <1>1, <3>3, CountsTyped DEF Used
      <3> QED BY <1>6, <2>1, <3>1, <3>4
    <2>6. CASE RepairRoundEnds
      <3>1. UNCHANGED upserts /\ repair.phase = "install" BY <2>6 DEF RepairRoundEnds
      <3>2. CASE repair.rerun /\ StartRound(repair.round + 1)
        <4>1. repair'.round = repair.round + 1 /\ repair'.phase = "reindex" /\ repair'.rerun = FALSE
          BY <3>2 DEF StartRound
        <4>2. Used' <= Used BY <1>1, <3>1, <3>2, <4>1 DEF Used, RepairTyped
        <4> QED BY <1>2, <2>1, <3>1, <4>2
      <3>3. CASE repair' = NoRepair
        <4>1. Used' <= Used BY <1>1, <3>1, <3>3, CountsTyped DEF Used, NoRepair
        <4> QED BY <1>2, <2>1, <3>1, <4>1
      <3> QED BY <2>6, <3>2, <3>3 DEF RepairRoundEnds
    <2> QED BY <1>15, <2>2, <2>3, <2>4, <2>5, <2>6 DEF RepairSteps
  <1>16. ASSUME NEW f \in Files PROVE ~Save(f) /\ \A t : ~Edit(f, t) /\ ~WriteDisk(f, t)
    BY DEF Save, Edit, WriteDisk, Event, Unedited
  <1>17. ASSUME NEW f \in Files PROVE ~WatchSteps(f)
    BY <1>1 DEF RepairTyped, WatchSteps, FileChanged, WatchRead, FileDeleted
  <1>18. ASSUME NEW f \in Files, HandlerSteps(f) \/ ClosureSteps(f) PROVE Counted'
    BY <1>7, <1>8, <1>9, <1>10, <1>11, <1>18 DEF HandlerSteps, ClosureSteps
  <1> QED BY <1>1, <1>4, <1>5, <1>7, <1>12, <1>13, <1>14, <1>15, <1>16, <1>17, <1>18
          DEF Next, Continue, UpsertSteps

LEMMA CountInit == Init => Counted
  <1> SUFFICES ASSUME Init PROVE Counted OBVIOUS
  <1>1. Walks = Documents /\ FirstUpserts = Documents
    BY DocumentAssumption DEF Init, Walks, FirstUpserts
  <1>2. Used = 0 BY DEF Init, NoRepair, Used
  <1>3. Cardinality(Documents) \in Nat BY DocumentAssumption, FS_Subset, FS_CardinalityType
  <1> QED BY <1>1, <1>2, <1>3 DEF Counted

\* Two rounds for each document that is ever opened are enough, so that with the
\* four rounds of the code two documents always get their tables.
THEOREM RoundsForEveryDocument ==
  ASSUME Unedited, 2 * Cardinality(Documents) <= MaxRepairRounds
  PROVE  Spec => []RestIsRepaired
  <1> DEFINE Both == MendedUnlessClosed /\ (NoneClosed => Counted)
  <1>1. Init => Both BY MendInit, CountInit DEF MendedUnlessClosed
  <1>2. ASSUME DocInv, Both, [Next]_vars, NoneClosed' PROVE MendInv' /\ Counted'
    <2>1. NoneClosed BY <1>2, StaysClosed
    <2>2. MendInv /\ Counted BY <1>2, <2>1 DEF MendedUnlessClosed
    <2>3. RoundsSuffice
      <3> SUFFICES ASSUME repair.phase \in {"reindex", "install"}, repair.rerun
                   PROVE  repair.round + 1 < MaxRepairRounds
        BY DEF RoundsSuffice
      <3>1. /\ RepairTyped /\ Cardinality(Walks) \in Nat /\ Cardinality(FirstUpserts) \in Nat
            /\ Cardinality(Documents) \in Nat
        BY <2>2, CountsTyped DEF MendInv
      <3>2. Used = repair.round + 1 + 1 /\ repair.round \in Nat
        BY <3>1 DEF Used, RepairTyped
      <3>3. Cardinality(Walks) + Cardinality(FirstUpserts) + Used <= 2 * Cardinality(Documents)
        BY <2>2 DEF Counted
      <3> QED BY <3>1, <3>2, <3>3, DocumentAssumption
    <2>4. MendedUnlessClosed' BY <1>2, <2>3, MendNext
    <2>5. MendInv' BY <1>2, <2>4 DEF MendedUnlessClosed
    <2> QED BY <1>2, <2>2, <2>5, CountNext
  <1>3. DocInv /\ Both /\ [Next]_vars => Both' BY <1>2 DEF MendedUnlessClosed
  <1>4. Both => RestIsRepaired BY MendedAtRest
  <1> HIDE DEF Both
  <1> QED BY <1>1, <1>3, <1>4, DocumentInvariant, PTL DEF Spec

-------------------------------------------------------------------------------
(* The order of a repair.  Its depth-first search ends, keeps what it has    *)
(* on its path, and leaves a file after what the file depends on.            *)

\* A sequence that names each element of a set.
LEMMA SetToSeqLists ==
  ASSUME NEW T, IsFiniteSet(T), NEW s, s = SetToSeq(T)
  PROVE  /\ s \in Seq(T) /\ Len(s) = Cardinality(T) /\ Cardinality(T) \in Nat
         /\ \A d \in T : \E k \in 1..Len(s) : s[k] = d
  <1> DEFINE m == Cardinality(T)
  <1>1. m \in Nat /\ ExistsBijection(1..m, T) BY FS_CardinalityType
  <1>2. PICK b : b \in Bijection(1..m, T) BY <1>1 DEF ExistsBijection
  <1>3. b \in [1..m -> T] /\ IsInjective(b)
    BY <1>2 DEF Bijection, Injection, IsInjective
  <1>4. s \in [1..m -> T] /\ IsInjective(s) BY <1>3 DEF SetToSeq
  <1>5. s \in Injection(1..m, T) BY <1>4 DEF Injection, IsInjective
  <1>6. IsFiniteSet(1..m) /\ Cardinality(1..m) = m BY <1>1, FS_Interval
  <1>7. s \in Surjection(1..m, T)
    <2> HIDE DEF m
    <2>1. Cardinality(1..m) = Cardinality(T) BY <1>6 DEF m
    <2> QED BY <1>5, <2>1, FS_Injection
  <1>8. \A d \in T : \E k \in 1..m : s[k] = d BY <1>7 DEF Surjection
  <1>9. s \in Seq(T) /\ Len(s) = m BY <1>1, <1>4
  <1> QED BY <1>1, <1>8, <1>9

\* What an entry depends on, over any number of steps.
LEMMA ReachesFollows ==
  ASSUME IsIndex(ix), NEW f \in Files
  PROVE  /\ Reaches(f, f)
         /\ \A g, d \in Files : Reaches(f, g) /\ Depends(g, d) => Reaches(f, d)
  <1> DEFINE m == Cardinality(Files)
             Next1(G) == G \cup {d \in Files : \E h \in G : Depends(h, d)}
             step == [p \in Nat \X SUBSET Files |-> Next1(p[2])]
             Far == CHOOSE g : g = [n \in 0..m |-> IF n = 0 THEN {f} ELSE Next1(g[n - 1])]
  <1>1. m \in Nat /\ IsFiniteSet(Files) BY DocumentAssumption, FS_CardinalityType
  <1> HIDE DEF m
  <1>2. PICK W : Iterates(W, step, {f}, m)
    <2> HIDE DEF step
    <2> QED BY <1>1, IterationExists
  <1>3. 0..m \subseteq {n \in 0..m : W[n] \in SUBSET Files}
    <2> DEFINE T == {n \in 0..m : W[n] \in SUBSET Files}
    <2>1. 0 \in T BY <1>1, <1>2 DEF Iterates
    <2>2. ASSUME NEW n \in 1..m, n - 1 \in T PROVE n \in T
      <3>1. n \in 0..m /\ n # 0 /\ n \in Nat BY <1>1
      <3>2. W[n] = step[<<n, W[n - 1]>>] BY <1>2, <3>1 DEF Iterates
      <3>3. W[n - 1] \in SUBSET Files BY <2>2
      <3>4. W[n] = Next1(W[n - 1]) BY <3>1, <3>2, <3>3
      <3> QED BY <3>1, <3>3, <3>4
    <2> HIDE DEF T
    <2>3. 0..m \subseteq T BY <1>1, <2>1, <2>2, Reaches0To
    <2> QED BY <2>3 DEF T
  <1>4. W = [n \in 0..m |-> IF n = 0 THEN {f} ELSE Next1(W[n - 1])]
    <2>1. ASSUME NEW n \in 0..m, n # 0 PROVE step[<<n, W[n - 1]>>] = Next1(W[n - 1])
      <3>1. n - 1 \in 0..m /\ n \in Nat BY <1>1, <2>1
      <3>2. W[n - 1] \in SUBSET Files BY <1>3, <3>1
      <3> QED BY <3>1, <3>2
    <2> HIDE DEF step, Next1
    <2>2. W = [n \in 0..m |-> IF n = 0 THEN {f} ELSE step[<<n, W[n - 1]>>]]
      BY <1>2 DEF Iterates
    <2> QED BY <2>1, <2>2
  <1>5. Far = [n \in 0..m |-> IF n = 0 THEN {f} ELSE Next1(Far[n - 1])]
    <2> HIDE DEF Next1
    <2> QED BY <1>4
  <1>6. \A g : Reaches(f, g) <=> g \in Far[m] BY DEF Reaches, m
  <1> HIDE DEF Far
  <1> DEFINE Whole(G) == \A h \in G : \A d \in Files : Depends(h, d) => d \in G
             Good(n) == /\ f \in Far[n] /\ Far[n] \subseteq Files
                        /\ Whole(Far[n]) \/ Cardinality(Far[n]) > n
             T == {n \in 0..m : Good(n)}
  <1>7. Good(0)
    <2>1. Far[0] = {f} BY <1>1, <1>5
    <2>2. Cardinality({f}) = 1 BY FS_Singleton
    <2> QED BY <2>1, <2>2
  <1>8. ASSUME NEW n \in 1..m, Good(n - 1) PROVE Good(n)
    <2> DEFINE P == Far[n - 1]  Q == Far[n]
    <2>1. n \in 0..m /\ n # 0 /\ n \in Nat /\ n - 1 \in Nat BY <1>1
    <2>2. Q = P \cup {d \in Files : \E h \in P : Depends(h, d)} BY <1>5, <2>1
    <2>3. f \in Q /\ Q \subseteq Files /\ P \subseteq Q BY <1>8, <2>2
    <2>4. CASE Whole(P)
      <3>1. Q = P BY <2>2, <2>4
      <3> HIDE DEF P, Q
      <3>2. Whole(Q) BY <2>4, <3>1
      <3> QED BY <2>3, <3>2 DEF P, Q
    <2>5. CASE ~Whole(P)
      <3>1. P # Q BY <2>2, <2>5
      <3>2. IsFiniteSet(Q) /\ IsFiniteSet(P) BY <1>1, <2>3, FS_Subset
      <3>3. Cardinality(P) <= Cardinality(Q) /\ Cardinality(P) # Cardinality(Q)
        <4>1. P \in SUBSET Q BY <2>3
        <4> HIDE DEF P, Q
        <4> QED BY <3>1, <3>2, <4>1, FS_Subset
      <3>4. Cardinality(P) \in Nat /\ Cardinality(Q) \in Nat BY <3>2, FS_CardinalityType
      <3>5. Cardinality(P) > n - 1 BY <1>8, <2>5
      <3> HIDE DEF P, Q
      <3>6. Cardinality(Q) > n BY <2>1, <3>3, <3>4, <3>5
      <3> QED BY <2>3, <3>6 DEF P, Q
    <2> QED BY <2>4, <2>5
  <1>9. Good(m)
    <2>1. 0 \in T BY <1>1, <1>7
    <2>2. ASSUME NEW n \in 1..m, n - 1 \in T PROVE n \in T
      <3>1. Good(n - 1) /\ n \in 0..m BY <1>1, <2>2
      <3> HIDE DEF Good
      <3> QED BY <1>8, <3>1
    <2> HIDE DEF T
    <2>3. 0..m \subseteq T BY <1>1, <2>1, <2>2, Reaches0To
    <2> QED BY <1>1, <2>3 DEF T
  <1>10. Whole(Far[m])
    <2>1. Far[m] \in SUBSET Files BY <1>9
    <2>2. Cardinality(Far[m]) <= m /\ Cardinality(Far[m]) \in Nat
      BY <1>1, <2>1, FS_Subset, FS_CardinalityType DEF m
    <2> QED BY <1>1, <1>9, <2>2
  <1> QED BY <1>6, <1>9, <1>10

\* What one pass of the loop does to the stack whose last frame is of u.
Top(w) == Len(w.stack)
SameBelow(v, w) == \A k \in 1..(Top(w) - 1) : v.stack[k] = w.stack[k]

Skips(v, w, u) ==
  /\ u \in w.done \/ (u \in w.onPath /\ ~w.stack[Top(w)].expanded)
  /\ Top(v) = Top(w) - 1 /\ SameBelow(v, w)
  /\ v.onPath = w.onPath /\ v.done = w.done /\ v.ordered = w.ordered

Leaves(v, w, u, docs) ==
  /\ u \notin w.done /\ w.stack[Top(w)].expanded
  /\ Top(v) = Top(w) - 1 /\ SameBelow(v, w)
  /\ v.onPath = w.onPath \ {u} /\ v.done = w.done \cup {u}
  /\ v.ordered = IF u \in docs THEN Append(w.ordered, u) ELSE w.ordered

Enters(v, w, u) ==
  /\ u \notin w.done /\ u \notin w.onPath /\ ~w.stack[Top(w)].expanded
  /\ SameBelow(v, w) /\ v.stack[Top(w)] = Frame(u, TRUE)
  /\ Top(w) <= Top(v) /\ Top(v) <= Top(w) + Cardinality(Files)
  /\ \A k \in (Top(w) + 1)..Top(v) : ~v.stack[k].expanded /\ Depends(u, v.stack[k].uri)
  /\ \A d \in Files : Depends(u, d) =>
        d = u \/ d \in w.onPath \/ d \in w.done \/ \E k \in (Top(w) + 1)..Top(v) : v.stack[k].uri = d
  /\ v.onPath = w.onPath \cup {u} /\ v.done = w.done /\ v.ordered = w.ordered

LEMMA VisitCases ==
  ASSUME IsIndex(ix), NEW w \in DepthFirst, w.stack # <<>>, NEW docs,
         NEW v, v = Visit(w, docs), NEW u, u = w.stack[Len(w.stack)].uri
  PROVE  /\ v \in DepthFirst /\ u \in Files
         /\ Skips(v, w, u) \/ Leaves(v, w, u, docs) \/ Enters(v, w, u)
  <1> DEFINE Frames == [uri : Files, expanded : BOOLEAN]
             frame == Last(w.stack)
             rest == Front(w.stack)
             path == w.onPath \cup {u}
             to == {d \in IF Has(ix, u) THEN ix.files[u].deps ELSE {} : d \notin w.done \cup path}
             next == SetToSeq(to)
             n == Len(w.stack)
  <1>1. /\ w.stack \in Seq(Frames) /\ w.onPath \subseteq Files /\ w.done \subseteq Files
        /\ w.ordered \in Seq(Files)
        /\ w = [stack |-> w.stack, onPath |-> w.onPath, done |-> w.done, ordered |-> w.ordered]
    BY DEF DepthFirst
  <1> DEFINE old == w.stack
  <1>0. old \in Seq(Frames) /\ old # <<>> BY <1>1
  <1>2. n \in Nat \ {0} /\ w.stack[n] \in Frames
    <2>1. Len(old) \in Nat \ {0} /\ old[Len(old)] \in Frames
      <3> HIDE DEF old, Frames
      <3> QED BY <1>0
    <2> QED BY <2>1
  <1>3. u \in Files /\ w.stack[n].expanded \in BOOLEAN /\ frame = w.stack[n] /\ frame.uri = u
    BY <1>2 DEF Last
  <1>4. /\ rest \in Seq(Frames) /\ Len(rest) = n - 1
        /\ \A k \in 1..(n - 1) : rest[k] = w.stack[k]
    <2>1. /\ Front(old) \in Seq(Frames) /\ Len(Front(old)) = Len(old) - 1
          /\ \A k \in 1..(Len(old) - 1) : Front(old)[k] = old[k]
      <3> HIDE DEF old, Frames
      <3>1. Len(old) \in Nat /\ Len(old) - 1 \in Nat /\ Front(old) = SubSeq(old, 1, Len(old) - 1)
        BY <1>0 DEF Front
      <3>2. \A k \in 1..(Len(old) - 1) : old[k] \in Frames BY <1>0
      <3>3. SubSeq(old, 1, Len(old) - 1) \in Seq(Frames) BY <1>0, <3>1, <3>2
      <3>4. Len(SubSeq(old, 1, Len(old) - 1)) = Len(old) - 1
        <4>1. ASSUME NEW s \in Seq(Frames), NEW m \in Nat, m <= Len(s) PROVE Len(SubSeq(s, 1, m)) = m
          BY <4>1
        <4>2. Len(old) - 1 <= Len(old) BY <3>1
        <4> QED BY <1>0, <3>1, <4>1, <4>2
      <3>5. \A k \in 1..(Len(old) - 1) : SubSeq(old, 1, Len(old) - 1)[k] = old[k] BY <1>0, <3>1
      <3> QED BY <3>1, <3>3, <3>4, <3>5
    <2> QED BY <2>1
  <1>5. /\ to \subseteq Files /\ IsFiniteSet(to) /\ Cardinality(to) <= Cardinality(Files)
        /\ Cardinality(Files) \in Nat
    <2>1. to \subseteq Files BY <1>3 DEF IsIndex, Entry, Has
    <2> HIDE DEF to
    <2> QED BY <2>1, FS_Subset, FS_CardinalityType, DocumentAssumption
  <1>6. /\ next \in Seq(to) /\ Len(next) <= Cardinality(Files) /\ Len(next) \in Nat
        /\ \A d \in to : \E k \in 1..Len(next) : next[k] = d
    <2> HIDE DEF to
    <2> QED BY <1>5, SetToSeqLists
  <1>7. \A d \in Files : Depends(u, d) <=> d \in IF Has(ix, u) THEN ix.files[u].deps ELSE {}
    BY DEF Depends
  <1>8. v = CASE u \in w.done \/ (u \in w.onPath /\ ~frame.expanded) -> [w EXCEPT !.stack = rest]
              [] u \notin w.done /\ frame.expanded ->
                   [stack |-> rest, onPath |-> w.onPath \ {u}, done |-> w.done \cup {u},
                    ordered |-> IF u \in docs THEN Append(w.ordered, u) ELSE w.ordered]
              [] OTHER ->
                   [w EXCEPT !.onPath = path,
                             !.stack = rest \o <<Frame(u, TRUE)>>
                                            \o [k \in 1..Len(next) |-> Frame(next[k], FALSE)]]
    BY <1>3 DEF Visit
  <1> HIDE DEF rest, frame, n, next
  <1>9. CASE u \in w.done \/ (u \in w.onPath /\ ~frame.expanded)
    <2>1. v = [stack |-> rest, onPath |-> w.onPath, done |-> w.done, ordered |-> w.ordered]
      BY <1>1, <1>8, <1>9
    <2>2. v \in DepthFirst BY <1>1, <1>4, <2>1 DEF DepthFirst
    <2>3. Skips(v, w, u) BY <1>3, <1>4, <1>9, <2>1 DEF Skips, Top, SameBelow, n
    <2> QED BY <1>3, <2>2, <2>3
  <1>10. CASE u \notin w.done /\ frame.expanded
    <2>1. v = [stack |-> rest, onPath |-> w.onPath \ {u}, done |-> w.done \cup {u},
               ordered |-> IF u \in docs THEN Append(w.ordered, u) ELSE w.ordered]
      BY <1>8, <1>10
    <2>2. (IF u \in docs THEN Append(w.ordered, u) ELSE w.ordered) \in Seq(Files)
      BY <1>1, <1>3
    <2>3. v \in DepthFirst BY <1>1, <1>3, <1>4, <2>1, <2>2 DEF DepthFirst
    <2>4. Leaves(v, w, u, docs) BY <1>3, <1>4, <1>10, <2>1 DEF Leaves, Top, SameBelow, n
    <2> QED BY <1>3, <2>3, <2>4
  <1>11. CASE u \notin w.done /\ u \notin w.onPath /\ ~frame.expanded
    <2> DEFINE pushed == [k \in 1..Len(next) |-> Frame(next[k], FALSE)]
               stack == rest \o <<Frame(u, TRUE)>> \o pushed
    <2>1. v = [stack |-> stack, onPath |-> path, done |-> w.done, ordered |-> w.ordered]
      BY <1>1, <1>8, <1>11
    <2>2. Frame(u, TRUE) \in Frames /\ \A k \in 1..Len(next) : Frame(next[k], FALSE) \in Frames
      BY <1>3, <1>5, <1>6 DEF Frame
    <2>3. pushed \in Seq(Frames) /\ Len(pushed) = Len(next)
          /\ \A k \in 1..Len(next) : pushed[k] = Frame(next[k], FALSE)
      <3>1. \A k \in 1..Len(next) : pushed[k] = Frame(next[k], FALSE) /\ pushed[k] \in Frames
        BY <2>2
      <3>2. pushed = [k \in 1..Len(next) |-> pushed[k]] OBVIOUS
      <3> HIDE DEF pushed, Frames
      <3>3. pushed \in [1..Len(next) -> Frames] BY <3>1, <3>2
      <3>4. \A S, m : m \in Nat => \A g \in [1..m -> S] : g \in Seq(S) /\ Len(g) = m
        OBVIOUS
      <3>5. Len(next) \in Nat BY <1>6
      <3>6. pushed \in Seq(Frames) /\ Len(pushed) = Len(next) BY <3>3, <3>4, <3>5
      <3> QED BY <3>1, <3>6
    <2> DEFINE base == rest \o <<Frame(u, TRUE)>>
    <2>4. /\ base \in Seq(Frames) /\ Len(base) = n /\ base[n] = Frame(u, TRUE)
          /\ \A k \in 1..(n - 1) : base[k] = w.stack[k]
      <3>1. n \in Nat \ {0} BY <1>2 DEF n
      <3> DEFINE e == Frame(u, TRUE)
      <3>2. e \in Frames BY <2>2
      <3> HIDE DEF Frames, e
      <3>3. /\ rest \o <<e>> \in Seq(Frames) /\ Len(rest \o <<e>>) = n
            /\ (rest \o <<e>>)[n] = e /\ \A k \in 1..(n - 1) : (rest \o <<e>>)[k] = rest[k]
        BY <1>4, <3>1, <3>2
      <3> QED BY <1>4, <3>3 DEF e
    <2> HIDE DEF pushed, base
    <2>5. /\ stack \in Seq(Frames) /\ Len(stack) = n + Len(next)
          /\ stack[n] = Frame(u, TRUE)
          /\ \A k \in 1..(n - 1) : stack[k] = w.stack[k]
          /\ \A k \in 1..Len(next) : stack[n + k] = Frame(next[k], FALSE)
      <3>1. n \in Nat \ {0} BY <1>2 DEF n
      <3>2. stack = base \o pushed BY DEF base
      <3> HIDE DEF Frames, stack
      <3>3. Len(next) \in Nat BY <1>6
      <3>4. stack \in Seq(Frames) /\ Len(stack) = n + Len(next)
        <4>1. \A A : \A x, y \in Seq(A) : x \o y \in Seq(A) /\ Len(x \o y) = Len(x) + Len(y) OBVIOUS
        <4>2. stack \in Seq(Frames) /\ Len(stack) = Len(base) + Len(pushed) BY <2>3, <2>4, <3>2, <4>1
        <4> QED BY <2>3, <2>4, <4>2
      <3>5. \A k \in 1..n : stack[k] = base[k] BY <2>3, <2>4, <3>1, <3>2, <3>3
      <3>6. \A k \in 1..Len(next) : stack[n + k] = pushed[k] BY <2>3, <2>4, <3>1, <3>2, <3>3
      <3>7. stack[n] = Frame(u, TRUE)
        <4>1. n \in 1..n BY <3>1
        <4>2. stack[n] = base[n] BY <3>5, <4>1
        <4> QED BY <2>4, <4>2
      <3>8. \A k \in 1..(n - 1) : stack[k] = w.stack[k] BY <2>4, <3>1, <3>5
      <3>9. \A k \in 1..Len(next) : stack[n + k] = Frame(next[k], FALSE) BY <2>3, <3>6
      <3> QED BY <3>4, <3>7, <3>8, <3>9
    <2> HIDE DEF stack
    <2>6. v \in DepthFirst BY <1>1, <1>3, <2>1, <2>5 DEF DepthFirst
    <2>7. Top(w) = n /\ Top(v) = n + Len(next) BY <2>1, <2>5 DEF Top, n
    <2>8. ASSUME NEW k \in (n + 1)..(n + Len(next))
          PROVE  ~v.stack[k].expanded /\ Depends(u, v.stack[k].uri)
      <3>1. k - n \in 1..Len(next) /\ n + (k - n) = k BY <1>2, <1>6 DEF n
      <3>2. v.stack[k] = Frame(next[k - n], FALSE) /\ next[k - n] \in to
        <4>1. v.stack = stack BY <2>1
        <4> DEFINE l == k - n
        <4>2. l \in 1..Len(next) /\ n + l = k BY <3>1
        <4>3. stack[n + l] = Frame(next[l], FALSE) BY <2>5, <4>2
        <4>4. next[l] \in to
          <5> HIDE DEF to, l
          <5> QED BY <1>6, <4>2
        <4> QED BY <4>1, <4>2, <4>3, <4>4
      <3>3. Depends(u, next[k - n]) BY <1>5, <1>7, <3>2
      <3> QED BY <3>2, <3>3 DEF Frame
    <2>9. ASSUME NEW d \in Files, Depends(u, d), d # u, d \notin w.onPath, d \notin w.done
          PROVE  \E k \in (n + 1)..(n + Len(next)) : v.stack[k].uri = d
      <3>1. d \in to BY <1>7, <2>9
      <3>2. PICK k \in 1..Len(next) : next[k] = d BY <1>6, <3>1
      <3>3. n + k \in (n + 1)..(n + Len(next)) BY <1>2, <1>6 DEF n
      <3>4. v.stack[n + k] = Frame(d, FALSE)
        <4>1. v.stack = stack BY <2>1
        <4> QED BY <2>5, <3>2, <4>1
      <3>5. v.stack[n + k].uri = d BY <3>4 DEF Frame
      <3> QED BY <3>3, <3>5
    <2>10. Enters(v, w, u)
      <3>1. Top(w) <= Top(v) /\ Top(v) <= Top(w) + Cardinality(Files)
        BY <1>2, <1>5, <1>6, <2>7 DEF n
      <3>2. SameBelow(v, w) /\ v.stack[Top(w)] = Frame(u, TRUE)
        <4>1. v.stack = stack BY <2>1
        <4> QED BY <2>5, <2>7, <4>1 DEF SameBelow
      <3>3. ~w.stack[Top(w)].expanded BY <1>3, <1>11, <2>7
      <3>4. v.onPath = w.onPath \cup {u} /\ v.done = w.done /\ v.ordered = w.ordered BY <2>1
      <3> QED BY <1>11, <2>7, <2>8, <2>9, <3>1, <3>2, <3>3, <3>4 DEF Enters
    <2> QED BY <1>3, <2>6, <2>10
  <1> QED BY <1>9, <1>10, <1>11

\* The files not entered yet, then the frames left.
Size(w) == Cardinality(Files \ (w.done \cup w.onPath)) * (Cardinality(Files) + 1) + Len(w.stack)

LEMMA SizeTyped ==
  ASSUME NEW w \in DepthFirst
  PROVE  /\ Size(w) \in Nat /\ Cardinality(Files) \in Nat /\ Len(w.stack) \in Nat
         /\ IsFiniteSet(Files \ (w.done \cup w.onPath))
         /\ Cardinality(Files \ (w.done \cup w.onPath)) \in Nat
  <1> DEFINE rest == Files \ (w.done \cup w.onPath)
  <1>1. IsFiniteSet(rest) /\ IsFiniteSet(Files) BY DocumentAssumption, FS_Subset
  <1>2. Cardinality(rest) \in Nat /\ Cardinality(Files) \in Nat BY <1>1, FS_CardinalityType
  <1>3. Len(w.stack) \in Nat BY DEF DepthFirst
  <1> HIDE DEF rest
  <1>4. Cardinality(rest) * (Cardinality(Files) + 1) + Len(w.stack) \in Nat BY <1>2, <1>3
  <1> QED BY <1>1, <1>2, <1>3, <1>4 DEF Size, rest

LEMMA VisitShrinks ==
  ASSUME IsIndex(ix), NEW w \in DepthFirst, w.stack # <<>>, NEW docs
  PROVE  Visit(w, docs) \in DepthFirst /\ Size(Visit(w, docs)) < Size(w)
  <1> DEFINE v == Visit(w, docs)
             u == w.stack[Len(w.stack)].uri
             Rest(x) == Files \ (x.done \cup x.onPath)
             c == Cardinality(Files)
             a == Cardinality(Rest(v))
             b == Cardinality(Rest(w))
  <1>1. v \in DepthFirst /\ u \in Files /\ (Skips(v, w, u) \/ Leaves(v, w, u, docs) \/ Enters(v, w, u))
    BY VisitCases
  <1> HIDE DEF v, u
  <1>2. /\ a \in Nat /\ b \in Nat /\ c \in Nat /\ Top(v) \in Nat /\ Top(w) \in Nat
        /\ IsFiniteSet(Rest(w))
    BY <1>1, SizeTyped DEF Top
  <1>3. Size(v) = a * (c + 1) + Top(v) /\ Size(w) = b * (c + 1) + Top(w) BY DEF Size, Top
  <1>4. CASE Skips(v, w, u) \/ Leaves(v, w, u, docs)
    <2>1. Top(v) = Top(w) - 1 /\ Rest(v) \in SUBSET Rest(w) BY <1>4 DEF Skips, Leaves
    <2> HIDE DEF Rest
    <2>2. a <= b BY <1>2, <2>1, FS_Subset
    <2> HIDE DEF a, b, c
    <2>3. a * (c + 1) <= b * (c + 1) BY <1>2, <2>2
    <2>4. a * (c + 1) \in Nat /\ b * (c + 1) \in Nat BY <1>2
    <2>5. Size(v) < Size(w) BY <1>2, <1>3, <2>1, <2>3, <2>4
    <2> QED BY <1>1, <2>5 DEF v
  <1>5. CASE Enters(v, w, u)
    <2>1. /\ Rest(v) = Rest(w) \ {u} /\ u \in Rest(w) /\ Top(v) <= Top(w) + c
      BY <1>1, <1>5 DEF Enters
    <2> HIDE DEF Rest
    <2>2. a = b - 1 BY <1>2, <2>1, FS_RemoveElement
    <2> HIDE DEF a, b, c
    <2>3. a * (c + 1) = b * (c + 1) - (c + 1) BY <1>2, <2>2
    <2>4. a * (c + 1) \in Nat /\ b * (c + 1) \in Nat BY <1>2
    <2>5. Top(v) <= Top(w) + c BY <2>1 DEF c
    <2>6. Size(v) < Size(w) BY <1>2, <1>3, <2>3, <2>4, <2>5
    <2> QED BY <1>1, <2>6 DEF v
  <1> QED BY <1>1, <1>4, <1>5

\* The loop ends, so that what orderByDependenciesFirst returns is what it says.
FirstWalk(docs) == [stack |-> [n \in 1..Len(docs) |-> Frame(docs[n], FALSE)],
                 onPath |-> {}, done |-> {}, ordered |-> <<>>]

LEMMA OrderIsTheLoops ==
  ASSUME IsIndex(ix), NEW docs \in Seq(Files)
  PROVE  /\ FirstWalk(docs) \in DepthFirst
         /\ \E L : /\ \A w \in DepthFirst :
                      L[w] = IF w.stack = <<>> THEN w.ordered ELSE L[Visit(w, ToSet(docs))]
                 /\ OrderByDependenciesFirst(docs) = L[FirstWalk(docs)]
  <1> DEFINE S == DepthFirst
             D == ToSet(docs)
             stop == {w \in S : w.stack = <<>>}
             step == [w \in S |-> Visit(w, D)]
             out == [w \in S |-> w.ordered]
             size == [w \in S |-> Size(w)]
             L == CHOOSE g : g = [w \in S |-> IF w.stack = <<>> THEN w.ordered ELSE g[Visit(w, D)]]
  <1>1. \A w \in S : size[w] \in Nat
    BY SizeTyped
  <1>2. ASSUME NEW w \in S \ stop PROVE step[w] \in S /\ size[step[w]] < size[w]
    <2>1. w \in S /\ w.stack # <<>> OBVIOUS
    <2>2. Visit(w, D) \in S /\ Size(Visit(w, D)) < Size(w)
      <3> HIDE DEF D
      <3> QED BY <2>1, VisitShrinks
    <2>3. step[w] = Visit(w, D) /\ size[w] = Size(w) BY <2>1
    <2>4. size[Visit(w, D)] = Size(Visit(w, D)) BY <2>2
    <2> QED BY <2>2, <2>3, <2>4
  <1>3. PICK g : Loops(g, S, stop, step, out)
    <2> HIDE DEF S, stop, step, out, size
    <2> QED BY <1>1, <1>2, LoopExists
  <1>4. g = [w \in S |-> IF w.stack = <<>> THEN w.ordered ELSE g[Visit(w, D)]]
    <2>1. g = [w \in S |-> IF w \in stop THEN out[w] ELSE g[step[w]]] BY <1>3 DEF Loops
    <2>2. \A w \in S : (w \in stop <=> w.stack = <<>>) /\ out[w] = w.ordered /\ step[w] = Visit(w, D)
      OBVIOUS
    <2> HIDE DEF S, stop, step, out, D
    <2> QED BY <2>1, <2>2
  <1>5. L = [w \in S |-> IF w.stack = <<>> THEN w.ordered ELSE L[Visit(w, D)]]
    <2> HIDE DEF S, D
    <2> QED BY <1>4
  <1>6. OrderByDependenciesFirst(docs) = L[FirstWalk(docs)]
    BY DEF OrderByDependenciesFirst, FirstWalk
  <1>7. FirstWalk(docs) \in DepthFirst
    <2> DEFINE Frames == [uri : Files, expanded : BOOLEAN]
               fs == [n \in 1..Len(docs) |-> Frame(docs[n], FALSE)]
    <2>1. \A n \in 1..Len(docs) : Frame(docs[n], FALSE) \in Frames BY DEF Frame
    <2>2. fs \in [1..Len(docs) -> Frames] BY <2>1
    <2>3. \A A, m : m \in Nat => \A h \in [1..m -> A] : h \in Seq(A)
      OBVIOUS
    <2>4. Len(docs) \in Nat OBVIOUS
    <2>5. fs \in Seq(Frames)
      <3> HIDE DEF fs, Frames
      <3> QED BY <2>2, <2>3, <2>4
    <2> HIDE DEF fs
    <2>6. FirstWalk(docs) = [stack |-> fs, onPath |-> {}, done |-> {}, ordered |-> <<>>]
      BY DEF FirstWalk, fs
    <2> QED BY <2>5, <2>6 DEF DepthFirst
  <1>8. \A w \in S : L[w] = IF w.stack = <<>> THEN w.ordered ELSE L[Visit(w, D)]
    <2> HIDE DEF L, S, D
    <2> QED BY <1>5
  <1> HIDE DEF L
  <1> QED BY <1>6, <1>7, <1>8

Precedes(s, d, f) == \E j, k \in 1..Len(s) : j < k /\ s[j] = d /\ s[k] = f

\* The frames that are expanded are the path to the last one; what a file on the
\* path depends on was left, leads back to it, or waits above it.
OnThePath(w) ==
  /\ \A u \in w.onPath : \E k \in 1..Top(w) : w.stack[k].expanded /\ w.stack[k].uri = u
  /\ \A k \in 1..Top(w) : w.stack[k].expanded =>
       /\ w.stack[k].uri \in w.onPath /\ w.stack[k].uri \notin w.done
       /\ \A j \in 1..(k - 1) : w.stack[j].expanded => w.stack[j].uri # w.stack[k].uri
  /\ \A k \in 1..Top(w) : \A j \in 1..(k - 1) :
       w.stack[j].expanded => Reaches(w.stack[j].uri, w.stack[k].uri)

Awaited(w, j, d) ==
  \/ d \in w.done \/ Reaches(d, w.stack[j].uri)
  \/ \E k \in (j + 1)..Top(w) : w.stack[k].uri = d

Awaits(w) ==
  \A j \in 1..Top(w) : w.stack[j].expanded =>
    \A d \in Files : Depends(w.stack[j].uri, d) => Awaited(w, j, d)

\* What was left is in order, after what it depends on.
Emitted(w, S) ==
  /\ \A f \in S : f \in w.done \/ \E k \in 1..Top(w) : w.stack[k].uri = f
  /\ \A f \in Files : f \in w.done /\ f \in S <=> \E k \in 1..Len(w.ordered) : w.ordered[k] = f
  /\ \A j, k \in 1..Len(w.ordered) : w.ordered[j] = w.ordered[k] => j = k
  /\ \A f \in w.done : \A d \in Files :
       Depends(f, d) /\ ~Reaches(d, f)
         => d \in w.done /\ (f \in S /\ d \in S => Precedes(w.ordered, d, f))

WalkOK(w, S) == w \in DepthFirst /\ OnThePath(w) /\ Awaits(w) /\ Emitted(w, S)

\* Frames and their files.
LEMMA FramesTyped ==
  ASSUME NEW w \in DepthFirst
  PROVE  /\ Top(w) \in Nat /\ (w.stack # <<>> <=> Top(w) # 0)
         /\ \A k \in 1..Top(w) : w.stack[k].uri \in Files /\ w.stack[k].expanded \in BOOLEAN
         /\ w.ordered \in Seq(Files) /\ w.done \subseteq Files /\ w.onPath \subseteq Files
  <1> DEFINE Frames == [uri : Files, expanded : BOOLEAN]
             st == w.stack
  <1>1. st \in Seq(Frames) /\ w.ordered \in Seq(Files) /\ w.done \subseteq Files /\ w.onPath \subseteq Files
    BY DEF DepthFirst
  <1>2. Len(st) \in Nat /\ (st # <<>> <=> Len(st) # 0) /\ \A k \in 1..Len(st) : st[k] \in Frames
    <2> HIDE DEF st, Frames
    <2> QED BY <1>1
  <1> QED BY <1>1, <1>2 DEF Top

LEMMA SkipKeeps ==
  ASSUME IsIndex(ix), NEW S \in SUBSET Files, NEW w, WalkOK(w, S), NEW v \in DepthFirst,
         Top(w) # 0, NEW u \in Files, u = w.stack[Top(w)].uri, Skips(v, w, u)
  PROVE  WalkOK(v, S)
  <1> DEFINE n == Top(w)
  <1>1. /\ n \in Nat /\ n # 0 /\ Top(v) = n - 1
        /\ \A k \in 1..n : w.stack[k].uri \in Files /\ w.stack[k].expanded \in BOOLEAN
        /\ \A k \in 1..(n - 1) : k \in 1..n /\ v.stack[k] = w.stack[k]
        /\ v.onPath = w.onPath /\ v.done = w.done /\ v.ordered = w.ordered
    BY FramesTyped DEF WalkOK, Skips, SameBelow
  <1>2. ~w.stack[n].expanded BY <1>1 DEF Skips, WalkOK, OnThePath
  <1>3. u \in w.done \/ \E m \in 1..(n - 1) : w.stack[m].expanded /\ w.stack[m].uri = u
    <2> SUFFICES ASSUME u \notin w.done
                 PROVE  \E m \in 1..(n - 1) : w.stack[m].expanded /\ w.stack[m].uri = u
      OBVIOUS
    <2>1. PICK m \in 1..n : w.stack[m].expanded /\ w.stack[m].uri = u
      BY DEF Skips, WalkOK, OnThePath
    <2>2. m # n BY <1>2, <2>1
    <2> QED BY <1>1, <2>1, <2>2
  <1> HIDE DEF n
  <1>4. OnThePath(v)
    <2>1. \A g \in v.onPath : \E k \in 1..Top(v) : v.stack[k].expanded /\ v.stack[k].uri = g
      <3> SUFFICES ASSUME NEW g \in w.onPath
                   PROVE  \E k \in 1..(n - 1) : w.stack[k].expanded /\ w.stack[k].uri = g
        BY <1>1
      <3>1. PICK k \in 1..n : w.stack[k].expanded /\ w.stack[k].uri = g
        BY DEF WalkOK, OnThePath, n
      <3>2. k # n BY <1>2, <3>1
      <3> QED BY <1>1, <3>1, <3>2
    <2>2. \A k \in 1..(n - 1) : \A j \in 1..(k - 1) : j \in 1..(n - 1) BY <1>1
    <2>3. \A k \in 1..Top(v) : v.stack[k].expanded =>
            /\ v.stack[k].uri \in v.onPath /\ v.stack[k].uri \notin v.done
            /\ \A j \in 1..(k - 1) : v.stack[j].expanded => v.stack[j].uri # v.stack[k].uri
      BY <1>1, <2>2 DEF WalkOK, OnThePath, n
    <2>4. \A k \in 1..Top(v) : \A j \in 1..(k - 1) :
            v.stack[j].expanded => Reaches(v.stack[j].uri, v.stack[k].uri)
      BY <1>1, <2>2 DEF WalkOK, OnThePath, n
    <2> QED BY <2>1, <2>3, <2>4 DEF OnThePath
  <1>5. Awaits(v)
    <2> SUFFICES ASSUME NEW j \in 1..(n - 1), w.stack[j].expanded,
                        NEW d \in Files, Depends(w.stack[j].uri, d)
                 PROVE  Awaited(v, j, d)
      BY <1>1 DEF Awaits
    <2>1. Awaited(w, j, d) BY <1>1 DEF WalkOK, Awaits, n
    <2>2. CASE d \in w.done \/ Reaches(d, w.stack[j].uri) BY <1>1, <2>2 DEF Awaited
    <2>3. CASE \E k \in (j + 1)..n : w.stack[k].uri = d
      <3>1. PICK k \in (j + 1)..n : w.stack[k].uri = d BY <2>3
      <3>2. CASE k # n
        <4>1. k \in (j + 1)..(n - 1) /\ k \in 1..(n - 1) BY <1>1, <3>2
        <4>2. v.stack[k].uri = d BY <1>1, <3>1, <4>1
        <4> QED BY <1>1, <4>1, <4>2 DEF Awaited
      <3>3. CASE k = n
        <4>1. d = u BY <3>1, <3>3 DEF n
        <4>2. CASE u \in w.done BY <1>1, <4>1, <4>2 DEF Awaited
        <4>3. CASE u \notin w.done
          <5>1. PICK m \in 1..(n - 1) : w.stack[m].expanded /\ w.stack[m].uri = u BY <1>3, <4>3
          <5>2. CASE m > j
            <6>1. m \in (j + 1)..(n - 1) BY <1>1, <5>2
            <6>2. v.stack[m].uri = d BY <1>1, <4>1, <5>1
            <6> QED BY <1>1, <6>1, <6>2 DEF Awaited
          <5>3. CASE m = j
            <6>1. Reaches(d, v.stack[j].uri) BY <1>1, <4>1, <5>1, <5>3, ReachesFollows
            <6> QED BY <6>1 DEF Awaited
          <5>4. CASE m < j
            <6>1. m \in 1..(j - 1) /\ j \in 1..n BY <1>1, <5>4
            <6>2. Reaches(w.stack[m].uri, w.stack[j].uri)
              BY <5>1, <6>1 DEF WalkOK, OnThePath, n
            <6>3. Reaches(d, v.stack[j].uri) BY <1>1, <4>1, <5>1, <6>2
            <6> QED BY <6>3 DEF Awaited
          <5> QED BY <1>1, <5>2, <5>3, <5>4
        <4> QED BY <4>2, <4>3
      <3> QED BY <3>2, <3>3
    <2> QED BY <2>1, <2>2, <2>3 DEF Awaited, n
  <1>6. Emitted(v, S)
    <2>1. ASSUME NEW f \in S PROVE f \in v.done \/ \E k \in 1..Top(v) : v.stack[k].uri = f
      <3>1. CASE f \in w.done BY <1>1, <3>1
      <3>2. CASE f \notin w.done
        <4>1. PICK k \in 1..n : w.stack[k].uri = f BY <3>2 DEF WalkOK, Emitted, n
        <4>2. CASE k # n
          <5>1. k \in 1..(n - 1) BY <1>1, <4>2
          <5> QED BY <1>1, <4>1, <5>1
        <4>3. CASE k = n
          <5>1. f = u BY <4>1, <4>3 DEF n
          <5>2. PICK m \in 1..(n - 1) : w.stack[m].uri = u BY <1>3, <3>2, <5>1
          <5> QED BY <1>1, <5>1, <5>2
        <4> QED BY <4>2, <4>3
      <3> QED BY <3>1, <3>2
    <2> QED BY <1>1, <2>1 DEF WalkOK, Emitted
  <1> QED BY <1>4, <1>5, <1>6 DEF WalkOK

LEMMA EnterKeeps ==
  ASSUME IsIndex(ix), NEW S \in SUBSET Files, NEW w, WalkOK(w, S), NEW v \in DepthFirst,
         Top(w) # 0, NEW u \in Files, u = w.stack[Top(w)].uri, Enters(v, w, u)
  PROVE  WalkOK(v, S)
  <1> DEFINE n == Top(w)  m == Top(v)
  <1>1. /\ n \in Nat /\ n # 0 /\ m \in Nat /\ n <= m
        /\ \A k \in 1..n : w.stack[k].uri \in Files /\ w.stack[k].expanded \in BOOLEAN
        /\ \A k \in 1..m : v.stack[k].uri \in Files /\ v.stack[k].expanded \in BOOLEAN
        /\ \A k \in 1..(n - 1) : k \in 1..n /\ v.stack[k] = w.stack[k]
        /\ v.stack[n].uri = u /\ v.stack[n].expanded
        /\ \A k \in 1..n : v.stack[k].uri = w.stack[k].uri
        /\ \A k \in (n + 1)..m : ~v.stack[k].expanded /\ Depends(u, v.stack[k].uri)
        /\ v.onPath = w.onPath \cup {u} /\ v.done = w.done /\ v.ordered = w.ordered
        /\ u \notin w.onPath /\ u \notin w.done /\ ~w.stack[n].expanded
    <2>1. n \in Nat /\ m \in Nat /\ n # 0 BY FramesTyped DEF WalkOK
    <2>2. v.stack[n].uri = u /\ v.stack[n].expanded BY DEF Enters, Frame
    <2>3. \A k \in 1..(n - 1) : k \in 1..n /\ v.stack[k] = w.stack[k]
      BY <2>1 DEF Enters, SameBelow
    <2>4. \A k \in 1..n : v.stack[k].uri = w.stack[k].uri
      <3> SUFFICES ASSUME NEW k \in 1..n PROVE v.stack[k].uri = w.stack[k].uri OBVIOUS
      <3>1. CASE k = n BY <2>2, <3>1
      <3>2. CASE k # n
        <4>1. k \in 1..(n - 1) BY <2>1, <3>2
        <4> QED BY <2>3, <4>1
      <3> QED BY <3>1, <3>2
    <2> QED BY <2>1, <2>2, <2>3, <2>4, FramesTyped DEF WalkOK, Enters
  <1> HIDE DEF n, m
  <1>2. \A k \in 1..m : v.stack[k].expanded => k = n \/ (k \in 1..(n - 1) /\ w.stack[k].expanded)
    <2> SUFFICES ASSUME NEW k \in 1..m, v.stack[k].expanded
                 PROVE  k = n \/ (k \in 1..(n - 1) /\ w.stack[k].expanded)
      OBVIOUS
    <2>1. k = n \/ k \in 1..(n - 1) \/ k \in (n + 1)..m BY <1>1
    <2> QED BY <1>1, <2>1
  <1>3. \A k \in 1..(n - 1) : w.stack[k].expanded => w.stack[k].uri \in w.onPath
    BY <1>1 DEF WalkOK, OnThePath, n
  <1>4. OnThePath(v)
    <2>1. ASSUME NEW g \in v.onPath
          PROVE  \E k \in 1..m : v.stack[k].expanded /\ v.stack[k].uri = g
      <3>1. CASE g = u
        <4>1. n \in 1..m BY <1>1
        <4> QED BY <1>1, <3>1, <4>1
      <3>2. CASE g # u
        <4>1. g \in w.onPath BY <1>1, <3>2
        <4>2. PICK k \in 1..n : w.stack[k].expanded /\ w.stack[k].uri = g
          BY <4>1 DEF WalkOK, OnThePath, n
        <4>3. k # n BY <1>1, <4>2
        <4>4. k \in 1..(n - 1) /\ k \in 1..m BY <1>1, <4>3
        <4> QED BY <1>1, <4>2, <4>4
      <3> QED BY <3>1, <3>2
    <2>2. ASSUME NEW k \in 1..m, v.stack[k].expanded
          PROVE  /\ v.stack[k].uri \in v.onPath /\ v.stack[k].uri \notin v.done
                 /\ \A j \in 1..(k - 1) : v.stack[j].expanded => v.stack[j].uri # v.stack[k].uri
      <3>1. CASE k = n
        <4>1. ASSUME NEW j \in 1..(k - 1), v.stack[j].expanded PROVE v.stack[j].uri # v.stack[k].uri
          <5>1. j \in 1..(n - 1) BY <3>1
          <5>2. w.stack[j].uri \in w.onPath BY <1>1, <1>3, <4>1, <5>1
          <5> QED BY <1>1, <3>1, <5>1, <5>2
        <4> QED BY <1>1, <3>1, <4>1
      <3>2. CASE k # n
        <4>1. k \in 1..(n - 1) /\ w.stack[k].expanded /\ k \in 1..n BY <1>1, <1>2, <2>2, <3>2
        <4>2. \A j \in 1..(k - 1) : j \in 1..(n - 1) BY <1>1, <4>1
        <4> QED BY <1>1, <4>1, <4>2 DEF WalkOK, OnThePath, n
      <3> QED BY <3>1, <3>2
    <2>3. ASSUME NEW k \in 1..m, NEW j \in 1..(k - 1), v.stack[j].expanded
          PROVE  Reaches(v.stack[j].uri, v.stack[k].uri)
      <3>0. j \in 1..m BY <1>1
      <3>1. j = n \/ (j \in 1..(n - 1) /\ w.stack[j].expanded) BY <1>2, <2>3, <3>0
      <3>2. CASE k \in 1..n
        <4>1. j \in 1..(n - 1) /\ w.stack[j].expanded BY <1>1, <3>1, <3>2
        <4>2. Reaches(w.stack[j].uri, w.stack[k].uri) BY <3>2, <4>1 DEF WalkOK, OnThePath, n
        <4> QED BY <1>1, <3>2, <4>1, <4>2
      <3>3. CASE k \in (n + 1)..m
        <4>1. Depends(u, v.stack[k].uri) BY <1>1, <3>3
        <4>2. Reaches(v.stack[j].uri, u)
          <5>1. CASE j = n BY <1>1, <5>1, ReachesFollows
          <5>2. CASE j \in 1..(n - 1) /\ w.stack[j].expanded
            <6>1. n \in 1..n BY <1>1
            <6>2. Reaches(w.stack[j].uri, w.stack[n].uri) BY <5>2, <6>1 DEF WalkOK, OnThePath, n
            <6> QED BY <1>1, <5>2, <6>2 DEF n
          <5> QED BY <3>1, <5>1, <5>2
        <4>3. v.stack[j].uri \in Files /\ v.stack[k].uri \in Files BY <1>1, <3>0
        <4> QED BY <4>1, <4>2, <4>3, ReachesFollows
      <3>4. k \in 1..n \/ k \in (n + 1)..m BY <1>1
      <3> QED BY <3>2, <3>3, <3>4
    <2> QED BY <2>1, <2>2, <2>3 DEF OnThePath, m
  <1>5. Awaits(v)
    <2> SUFFICES ASSUME NEW j \in 1..m, v.stack[j].expanded,
                        NEW d \in Files, Depends(v.stack[j].uri, d)
                 PROVE  Awaited(v, j, d)
      BY DEF Awaits, m
    <2>1. CASE j = n
      <3>1. \/ d = u \/ d \in w.onPath \/ d \in w.done
            \/ \E k \in (n + 1)..m : v.stack[k].uri = d
        BY <1>1, <2>1 DEF Enters, n, m
      <3>2. CASE d = u
        <4>1. Reaches(d, v.stack[j].uri) BY <1>1, <2>1, <3>2, ReachesFollows
        <4> QED BY <4>1 DEF Awaited
      <3>3. CASE d \in w.onPath
        <4>1. PICK k \in 1..n : w.stack[k].expanded /\ w.stack[k].uri = d
          BY <3>3 DEF WalkOK, OnThePath, n
        <4>2. k # n BY <1>1, <4>1
        <4>3. k \in 1..(n - 1) /\ n \in 1..n BY <1>1, <4>2
        <4>4. Reaches(w.stack[k].uri, w.stack[n].uri) BY <4>1, <4>3 DEF WalkOK, OnThePath, n
        <4>5. Reaches(d, v.stack[j].uri) BY <1>1, <2>1, <4>1, <4>3, <4>4
        <4> QED BY <4>5 DEF Awaited
      <3>4. CASE d \in w.done BY <1>1, <3>4 DEF Awaited
      <3>5. CASE \E k \in (n + 1)..m : v.stack[k].uri = d BY <2>1, <3>5 DEF Awaited, m
      <3> QED BY <3>1, <3>2, <3>3, <3>4, <3>5
    <2>2. CASE j # n
      <3>1. j \in 1..(n - 1) /\ j \in 1..n /\ w.stack[j].expanded BY <1>1, <1>2, <2>2
      <3>2. Depends(w.stack[j].uri, d) BY <1>1, <3>1
      <3>3. Awaited(w, j, d) BY <3>1, <3>2 DEF WalkOK, Awaits, n
      <3>4. CASE d \in w.done \/ Reaches(d, w.stack[j].uri) BY <1>1, <3>1, <3>4 DEF Awaited
      <3>5. CASE \E k \in (j + 1)..n : w.stack[k].uri = d
        <4>1. PICK k \in (j + 1)..n : w.stack[k].uri = d BY <3>5
        <4>2. k \in (j + 1)..m /\ k \in 1..n BY <1>1, <3>1
        <4>3. v.stack[k].uri = d BY <1>1, <4>1, <4>2
        <4> QED BY <4>2, <4>3 DEF Awaited, m
      <3> QED BY <3>3, <3>4, <3>5 DEF Awaited, n
    <2> QED BY <2>1, <2>2
  <1>6. Emitted(v, S)
    <2>1. ASSUME NEW f \in S PROVE f \in v.done \/ \E k \in 1..m : v.stack[k].uri = f
      <3>1. f \in w.done \/ \E k \in 1..n : w.stack[k].uri = f BY DEF WalkOK, Emitted, n
      <3>2. \A k \in 1..n : k \in 1..m BY <1>1
      <3> QED BY <1>1, <3>1, <3>2
    <2> QED BY <1>1, <2>1 DEF WalkOK, Emitted, m
  <1> QED BY <1>4, <1>5, <1>6 DEF WalkOK

LEMMA LeaveKeeps ==
  ASSUME IsIndex(ix), NEW S \in SUBSET Files, NEW w, WalkOK(w, S), NEW v \in DepthFirst,
         Top(w) # 0, NEW u \in Files, u = w.stack[Top(w)].uri, Leaves(v, w, u, S)
  PROVE  WalkOK(v, S)
  <1> DEFINE n == Top(w)  old == w.ordered  new == v.ordered
  <1>1. /\ n \in Nat /\ n # 0 /\ Top(v) = n - 1
        /\ \A k \in 1..n : w.stack[k].uri \in Files /\ w.stack[k].expanded \in BOOLEAN
        /\ \A k \in 1..(n - 1) : k \in 1..n /\ v.stack[k] = w.stack[k]
        /\ v.onPath = w.onPath \ {u} /\ v.done = w.done \cup {u}
        /\ u \notin w.done /\ w.stack[n].expanded /\ w.stack[n].uri = u
        /\ old \in Seq(Files) /\ w.done \subseteq Files
        /\ new = IF u \in S THEN Append(old, u) ELSE old
    BY FramesTyped DEF WalkOK, Leaves, SameBelow
  <1> HIDE DEF n, old, new
  <1>2. \A k \in 1..(n - 1) : w.stack[k].expanded => w.stack[k].uri # u
    BY <1>1 DEF WalkOK, OnThePath, n
  <1>3. OnThePath(v)
    <2>1. \A g \in v.onPath : \E k \in 1..Top(v) : v.stack[k].expanded /\ v.stack[k].uri = g
      <3> SUFFICES ASSUME NEW g \in w.onPath, g # u
                   PROVE  \E k \in 1..(n - 1) : w.stack[k].expanded /\ w.stack[k].uri = g
        BY <1>1
      <3>1. PICK k \in 1..n : w.stack[k].expanded /\ w.stack[k].uri = g
        BY DEF WalkOK, OnThePath, n
      <3>2. k # n BY <1>1, <3>1
      <3> QED BY <1>1, <3>1, <3>2
    <2>2. \A k \in 1..(n - 1) : \A j \in 1..(k - 1) : j \in 1..(n - 1) BY <1>1
    <2>3. \A k \in 1..Top(v) : v.stack[k].expanded =>
            /\ v.stack[k].uri \in v.onPath /\ v.stack[k].uri \notin v.done
            /\ \A j \in 1..(k - 1) : v.stack[j].expanded => v.stack[j].uri # v.stack[k].uri
      <3> SUFFICES ASSUME NEW k \in 1..(n - 1), w.stack[k].expanded
                   PROVE  /\ w.stack[k].uri \in v.onPath /\ w.stack[k].uri \notin v.done
                          /\ \A j \in 1..(k - 1) : v.stack[j].expanded => v.stack[j].uri # w.stack[k].uri
        BY <1>1
      <3>1. k \in 1..n /\ w.stack[k].uri # u BY <1>1, <1>2
      <3>2. /\ w.stack[k].uri \in w.onPath /\ w.stack[k].uri \notin w.done
            /\ \A j \in 1..(k - 1) : w.stack[j].expanded => w.stack[j].uri # w.stack[k].uri
        BY <3>1 DEF WalkOK, OnThePath, n
      <3> QED BY <1>1, <2>2, <3>1, <3>2
    <2>4. \A k \in 1..Top(v) : \A j \in 1..(k - 1) :
            v.stack[j].expanded => Reaches(v.stack[j].uri, v.stack[k].uri)
      BY <1>1, <2>2 DEF WalkOK, OnThePath, n
    <2> QED BY <2>1, <2>3, <2>4 DEF OnThePath
  <1>4. Awaits(v)
    <2> SUFFICES ASSUME NEW j \in 1..(n - 1), w.stack[j].expanded,
                        NEW d \in Files, Depends(w.stack[j].uri, d)
                 PROVE  Awaited(v, j, d)
      BY <1>1 DEF Awaits
    <2>1. Awaited(w, j, d) BY <1>1 DEF WalkOK, Awaits, n
    <2>2. CASE d \in w.done \/ Reaches(d, w.stack[j].uri) BY <1>1, <2>2 DEF Awaited
    <2>3. CASE \E k \in (j + 1)..n : w.stack[k].uri = d
      <3>1. PICK k \in (j + 1)..n : w.stack[k].uri = d BY <2>3
      <3>2. CASE k # n
        <4>1. k \in (j + 1)..(n - 1) /\ k \in 1..(n - 1) BY <1>1, <3>2
        <4>2. v.stack[k].uri = d BY <1>1, <3>1, <4>1
        <4> QED BY <1>1, <4>1, <4>2 DEF Awaited
      <3>3. CASE k = n BY <1>1, <3>1, <3>3 DEF Awaited
      <3> QED BY <3>2, <3>3
    <2> QED BY <2>1, <2>2, <2>3 DEF Awaited, n
  <1>5. /\ new \in Seq(Files) /\ Len(old) \in Nat
        /\ \A k \in 1..Len(old) : k \in 1..Len(new) /\ new[k] = old[k]
        /\ u \in S => Len(new) = Len(old) + 1 /\ new[Len(old) + 1] = u
        /\ u \notin S => new = old
    BY <1>1
  <1>6. \A f \in Files : f \in w.done /\ f \in S <=> \E k \in 1..Len(old) : old[k] = f
    BY DEF WalkOK, Emitted, old
  <1>7. \A f \in S : f \in v.done \/ \E k \in 1..Top(v) : v.stack[k].uri = f
    <2> SUFFICES ASSUME NEW f \in S, f \notin w.done, f # u
                 PROVE  \E k \in 1..(n - 1) : w.stack[k].uri = f
      BY <1>1
    <2>1. PICK k \in 1..n : w.stack[k].uri = f BY DEF WalkOK, Emitted, n
    <2>2. k # n BY <1>1, <2>1
    <2> QED BY <1>1, <2>1, <2>2
  <1>8. \A f \in Files : f \in v.done /\ f \in S <=> \E k \in 1..Len(new) : new[k] = f
    <2>1. CASE u \notin S BY <1>1, <1>5, <1>6, <2>1
    <2>2. CASE u \in S
      <3>1. ASSUME NEW f \in Files, NEW k \in 1..Len(new), new[k] = f PROVE f \in v.done /\ f \in S
        <4>1. CASE k = Len(old) + 1 BY <1>1, <1>5, <2>2, <3>1, <4>1
        <4>2. CASE k # Len(old) + 1
          <5>1. k \in 1..Len(old) BY <1>5, <2>2, <4>2
          <5> QED BY <1>1, <1>5, <1>6, <3>1, <5>1
        <4> QED BY <4>1, <4>2
      <3>2. ASSUME NEW f \in Files, f \in v.done, f \in S PROVE \E k \in 1..Len(new) : new[k] = f
        <4>1. CASE f = u
          <5>1. Len(old) + 1 \in 1..Len(new) BY <1>5, <2>2
          <5> QED BY <1>5, <2>2, <4>1, <5>1
        <4>2. CASE f # u
          <5>1. f \in w.done BY <1>1, <3>2, <4>2
          <5>2. PICK k \in 1..Len(old) : old[k] = f BY <1>6, <3>2, <5>1
          <5> QED BY <1>5, <5>2
        <4> QED BY <4>1, <4>2
      <3> QED BY <3>1, <3>2
    <2> QED BY <2>1, <2>2
  <1>9. \A k \in 1..Len(old) : old[k] # u
    <2>1. \A k \in 1..Len(old) : old[k] = u => u \in w.done BY <1>6
    <2> QED BY <1>1, <2>1
  <1>10. \A j, k \in 1..Len(new) : new[j] = new[k] => j = k
    <2>1. \A j, k \in 1..Len(old) : old[j] = old[k] => j = k BY DEF WalkOK, Emitted, old
    <2>2. CASE u \notin S BY <1>5, <2>1, <2>2
    <2>3. CASE u \in S
      <3>1. \A k \in 1..Len(new) : k = Len(old) + 1 \/ k \in 1..Len(old) BY <1>5, <2>3
      <3> QED BY <1>5, <1>9, <2>1, <2>3, <3>1
    <2> QED BY <2>2, <2>3
  <1>11. ASSUME NEW f \in v.done, NEW d \in Files, Depends(f, d), ~Reaches(d, f)
         PROVE  d \in v.done /\ (f \in S /\ d \in S => Precedes(new, d, f))
    <2>1. CASE f # u
      <3>1. f \in w.done BY <1>1, <2>1
      <3>2. d \in w.done /\ (f \in S /\ d \in S => Precedes(old, d, f))
        BY <1>11, <3>1 DEF WalkOK, Emitted, old
      <3>3. Precedes(old, d, f) => Precedes(new, d, f) BY <1>5 DEF Precedes
      <3> QED BY <1>1, <3>2, <3>3
    <2>2. CASE f = u
      <3>1. n \in 1..n BY <1>1
      <3>2. Awaited(w, n, d) BY <1>1, <1>11, <2>2, <3>1 DEF WalkOK, Awaits, n
      <3>3. d \in w.done
        <4>1. \A k : k \notin (n + 1)..n BY <1>1
        <4> QED BY <1>1, <1>11, <2>2, <3>2, <4>1 DEF Awaited, n
      <3>4. ASSUME u \in S, d \in S PROVE Precedes(new, d, u)
        <4>1. PICK k \in 1..Len(old) : old[k] = d BY <1>6, <3>3, <3>4
        <4>2. Len(old) + 1 \in 1..Len(new) /\ k < Len(old) + 1 BY <1>5, <3>4
        <4> QED BY <1>5, <3>4, <4>1, <4>2 DEF Precedes
      <3> QED BY <1>1, <2>2, <3>3, <3>4
    <2> QED BY <2>1, <2>2
  <1>12. Emitted(v, S) BY <1>7, <1>8, <1>10, <1>11 DEF Emitted, new
  <1> QED BY <1>3, <1>4, <1>12 DEF WalkOK

\* Each file of docs once, after what it depends on that does not depend on it.
InOrder(s, S) ==
  /\ s \in Seq(Files)
  /\ \A f \in Files : f \in S <=> \E k \in 1..Len(s) : s[k] = f
  /\ \A j, k \in 1..Len(s) : s[j] = s[k] => j = k
  /\ \A f, d \in S : Depends(f, d) /\ ~Reaches(d, f) => Precedes(s, d, f)

LEMMA OrderIsRight ==
  ASSUME IsIndex(ix), NEW docs \in Seq(Files)
  PROVE  InOrder(OrderByDependenciesFirst(docs), ToSet(docs))
  <1> DEFINE S == ToSet(docs)
             start == FirstWalk(docs)
             m == Size(start)
  <1>0. S \subseteq Files /\ Len(docs) \in Nat /\ S = {docs[k] : k \in 1..Len(docs)} BY DEF ToSet
  <1>1. start \in DepthFirst
    BY OrderIsTheLoops
  <1>2. PICK L : /\ \A w \in DepthFirst : L[w] = IF w.stack = <<>> THEN w.ordered ELSE L[Visit(w, S)]
                 /\ OrderByDependenciesFirst(docs) = L[start]
    BY OrderIsTheLoops
  <1> HIDE DEF S
  <1>3. WalkOK(start, S)
    <2>1. /\ Top(start) = Len(docs) /\ start.onPath = {} /\ start.done = {} /\ start.ordered = <<>>
          /\ \A k \in 1..Len(docs) : start.stack[k] = Frame(docs[k], FALSE)
      BY <1>0 DEF FirstWalk, Top
    <2>2. \A k \in 1..Len(docs) : ~start.stack[k].expanded /\ start.stack[k].uri = docs[k]
      <3> SUFFICES ASSUME NEW k \in 1..Len(docs)
                   PROVE  ~start.stack[k].expanded /\ start.stack[k].uri = docs[k]
        OBVIOUS
      <3>1. start.stack[k] = Frame(docs[k], FALSE) BY <2>1
      <3> HIDE DEF start
      <3> QED BY <3>1 DEF Frame
    <2>3. \A k \in 1..Len(docs) : \A j \in 1..(k - 1) : j \in 1..Len(docs) BY <1>0
    <2> HIDE DEF start
    <2>4. OnThePath(start) BY <2>1, <2>2, <2>3 DEF OnThePath
    <2>5. Awaits(start) BY <2>1, <2>2 DEF Awaits
    <2>6. Emitted(start, S)
      <3>1. \A f \in S : \E k \in 1..Top(start) : start.stack[k].uri = f BY <1>0, <2>1, <2>2
      <3> QED BY <2>1, <3>1 DEF Emitted
    <2> QED BY <1>1, <2>4, <2>5, <2>6 DEF WalkOK
  <1> HIDE DEF start
  <1>4. ASSUME NEW w, WalkOK(w, S), w.stack = <<>> PROVE InOrder(L[w], S)
    <2>1. w \in DepthFirst /\ L[w] = w.ordered BY <1>2, <1>4 DEF WalkOK
    <2>2. Top(w) = 0 /\ w.ordered \in Seq(Files) BY <1>4, <2>1, FramesTyped
    <2>3. \A f \in S : f \in w.done BY <1>4, <2>2 DEF WalkOK, Emitted
    <2> QED BY <1>0, <1>4, <2>1, <2>2, <2>3 DEF InOrder, WalkOK, Emitted
  <1>5. ASSUME NEW w, WalkOK(w, S), w.stack # <<>>
        PROVE  /\ WalkOK(Visit(w, S), S) /\ L[w] = L[Visit(w, S)]
               /\ Size(Visit(w, S)) \in Nat /\ Size(w) \in Nat /\ Size(Visit(w, S)) < Size(w)
    <2> DEFINE v == Visit(w, S)  u == w.stack[Len(w.stack)].uri
    <2>1. w \in DepthFirst /\ S \in SUBSET Files BY <1>0, <1>5 DEF WalkOK
    <2>2. v \in DepthFirst /\ u \in Files /\ (Skips(v, w, u) \/ Leaves(v, w, u, S) \/ Enters(v, w, u))
      BY <1>5, <2>1, VisitCases
    <2>3. Top(w) # 0 /\ u = w.stack[Top(w)].uri BY <1>5, <2>1, FramesTyped DEF Top
    <2>4. Size(v) < Size(w) BY <1>5, <2>1, VisitShrinks
    <2>5. L[w] = L[v] BY <1>2, <1>5, <2>1
    <2> HIDE DEF v, u
    <2>6. WalkOK(v, S) BY <1>5, <2>1, <2>2, <2>3, SkipKeeps, LeaveKeeps, EnterKeeps
    <2>7. Size(v) \in Nat /\ Size(w) \in Nat BY <2>1, <2>2, SizeTyped
    <2> QED BY <2>4, <2>5, <2>6, <2>7 DEF v
  <1> DEFINE T == {n \in Nat : \A w : WalkOK(w, S) /\ Size(w) <= n => InOrder(L[w], S)}
  <1>6. 0 \in T
    <2> SUFFICES ASSUME NEW w, WalkOK(w, S), Size(w) <= 0 PROVE InOrder(L[w], S) OBVIOUS
    <2>1. CASE w.stack = <<>> BY <1>4, <2>1
    <2>2. CASE w.stack # <<>>
      <3>1. Size(Visit(w, S)) \in Nat /\ Size(w) \in Nat /\ Size(Visit(w, S)) < Size(w) BY <1>5, <2>2
      <3> QED BY <3>1
    <2> QED BY <2>1, <2>2
  <1>7. ASSUME NEW n \in 1..m, n - 1 \in T PROVE n \in T
    <2> SUFFICES ASSUME NEW w, WalkOK(w, S), Size(w) <= n PROVE InOrder(L[w], S)
      BY <1>7
    <2>1. CASE w.stack = <<>> BY <1>4, <2>1
    <2>2. CASE w.stack # <<>>
      <3>1. /\ WalkOK(Visit(w, S), S) /\ L[w] = L[Visit(w, S)]
            /\ Size(Visit(w, S)) \in Nat /\ Size(w) \in Nat /\ Size(Visit(w, S)) < Size(w)
        BY <1>5, <2>2
      <3>2. Size(Visit(w, S)) <= n - 1 BY <3>1
      <3>3. InOrder(L[Visit(w, S)], S) BY <1>7, <3>1, <3>2
      <3> QED BY <3>1, <3>3
    <2> QED BY <2>1, <2>2
  <1>8. m \in Nat BY <1>1, SizeTyped
  <1> HIDE DEF T, m
  <1>9. m \in T
    <2>1. 0..m \subseteq T BY <1>6, <1>7, <1>8, Reaches0To
    <2> QED BY <1>8, <2>1
  <1>10. InOrder(L[start], S)
    <2>1. m <= m /\ m = Size(start) BY <1>8 DEF m
    <2> QED BY <1>3, <1>9, <2>1 DEF T
  <1> QED BY <1>2, <1>10 DEF S

\* documents.all() has each open document once.
OpenListed ==
  /\ opened \in Seq(Files)
  /\ \A j, k \in 1..Len(opened) : opened[j] = opened[k] => j = k
  /\ \A f \in Files : IsOpen(f) => buffer[f].was /\ \E n \in 1..Len(opened) : opened[n] = f
  /\ \A n \in 1..Len(opened) : IsOpen(opened[n])

LEMMA ListedInit == Init => OpenListed
  BY DEF Init, OpenListed, IsOpen

LEMMA ListedNext == DocInv /\ OpenListed /\ [Next]_vars => OpenListed'
  <1> SUFFICES ASSUME DocInv, OpenListed, [Next]_vars PROVE OpenListed' OBVIOUS
  <1>1. buffer \in [Files -> [was : BOOLEAN, open : BOOLEAN, version : 0..MaxVersion, text : Texts]]
    BY DEF DocInv, DocTyped
  <1>2. \/ UNCHANGED <<buffer, opened>>
        \/ \E f \in Files : Close(f) \/ \E t \in Texts : Open(f, t) \/ Edit(f, t)
    BY DEF Next, Continue, HandlerSteps, ClosureSteps, WatchSteps, UpsertSteps, RepairSteps, vars,
           Save, Ask, OnDemandIndex, Resolve, WriteDisk, HandleOpen, HandleContent, AskAgain,
           ClosureResolve, ClosureDeps, ClosureRead, ClosureInstall, FileChanged, WatchRead, FileDeleted,
           UpsertBuild, UpsertInstall, ResolveEnds, RepairStarts, RepairReindex, RepairInstalls,
           RepairInstall, RepairRoundEnds, docVars
  <1>3. CASE UNCHANGED <<buffer, opened>> BY <1>3 DEF OpenListed, IsOpen
  <1>4. ASSUME NEW f \in Files, NEW t \in Texts, Open(f, t) PROVE OpenListed'
    <2>1. /\ ~buffer[f].was /\ opened' = Append(opened, f)
          /\ buffer' = [buffer EXCEPT ![f] = [was |-> TRUE, open |-> TRUE, version |-> 1, text |-> t]]
      BY <1>4 DEF Open
    <2>2. /\ \A g \in Files : g # f => buffer'[g] = buffer[g]
          /\ buffer'[f].was /\ buffer'[f].open
      BY <1>1, <2>1
    <2>3. /\ opened' \in Seq(Files) /\ Len(opened) \in Nat /\ Len(opened') = Len(opened) + 1
          /\ opened'[Len(opened) + 1] = f
          /\ \A n \in 1..Len(opened) : opened'[n] = opened[n] /\ opened[n] \in Files
      BY <2>1 DEF OpenListed
    <2>4. \A n \in 1..Len(opened) : opened[n] # f /\ opened[n] \in Files BY <2>1, <2>3 DEF OpenListed
    <2>5. \A n \in 1..Len(opened') : n \in 1..Len(opened) \/ n = Len(opened) + 1 BY <2>3
    <2>6. \A n \in 1..Len(opened) : n \in 1..Len(opened') BY <2>3
    <2>7. Len(opened) + 1 \in 1..Len(opened') BY <2>3
    <2> QED
      <3>1. \A j, k \in 1..Len(opened') : opened'[j] = opened'[k] => j = k
        BY <2>3, <2>4, <2>5 DEF OpenListed
      <3>2. \A g \in Files : buffer'[g].open =>
              buffer'[g].was /\ \E n \in 1..Len(opened') : opened'[n] = g
        BY <2>2, <2>3, <2>6, <2>7 DEF OpenListed, IsOpen
      <3>3. \A n \in 1..Len(opened') : buffer'[opened'[n]].open
        BY <2>2, <2>3, <2>4, <2>5 DEF OpenListed, IsOpen
      <3> QED BY <2>3, <3>1, <3>2, <3>3 DEF OpenListed, IsOpen
  <1>5. ASSUME NEW f \in Files, Close(f) PROVE OpenListed'
    <2> DEFINE at == CHOOSE n \in 1..Len(opened) : opened[n] = f
               m == Len(opened)
    <2>1. IsOpen(f) /\ buffer' = [buffer EXCEPT ![f].open = FALSE] /\ opened' = RemoveAt(opened, at)
      BY <1>5 DEF Close
    <2>2. at \in 1..m /\ opened[at] = f BY <2>1 DEF OpenListed
    <2> HIDE DEF at
    <2>3. m \in Nat /\ opened \in Seq(Files) BY DEF OpenListed
    <2>4. opened' = SubSeq(opened, 1, at - 1) \o SubSeq(opened, at + 1, m) BY <2>1 DEF RemoveAt
    <2> DEFINE s == SubSeq(opened, 1, at - 1)  t == SubSeq(opened, at + 1, m)
    <2>5. /\ s \in Seq(Files) /\ Len(s) = at - 1 /\ \A k \in 1..(at - 1) : s[k] = opened[k]
      BY <2>2, <2>3
    <2>6. /\ t \in Seq(Files) /\ Len(t) = m - at /\ \A k \in 1..(m - at) : t[k] = opened[at + k]
      BY <2>2, <2>3
    <2> HIDE DEF s, t, m
    <2>7. /\ opened' \in Seq(Files) /\ Len(opened') = m - 1
          /\ \A k \in 1..(m - 1) : opened'[k] = IF k < at THEN opened[k] ELSE opened[k + 1]
      <3>1. opened' = s \o t BY <2>4 DEF s, t, m
      <3>2. opened' \in Seq(Files) /\ Len(opened') = m - 1
        <4>1. \A x, y \in Seq(Files) : x \o y \in Seq(Files) /\ Len(x \o y) = Len(x) + Len(y) OBVIOUS
        <4>2. opened' \in Seq(Files) /\ Len(opened') = Len(s) + Len(t) BY <2>5, <2>6, <3>1, <4>1
        <4>3. at \in Nat /\ (at - 1) + (m - at) = m - 1 BY <2>2, <2>3
        <4> QED BY <2>5, <2>6, <4>2, <4>3
      <3>3. \A k \in 1..(at - 1) : opened'[k] = s[k] BY <2>5, <2>6, <3>1
      <3>4. \A k \in 1..(m - at) : opened'[at - 1 + k] = t[k] BY <2>2, <2>5, <2>6, <3>1
      <3>5. ASSUME NEW k \in 1..(m - 1) PROVE opened'[k] = IF k < at THEN opened[k] ELSE opened[k + 1]
        <4>1. CASE k < at
          <5>1. k \in 1..(at - 1) BY <2>2, <2>3, <4>1
          <5> QED BY <2>5, <3>3, <4>1, <5>1
        <4>2. CASE ~(k < at)
          <5>1. k - at + 1 \in 1..(m - at) /\ at - 1 + (k - at + 1) = k /\ at + (k - at + 1) = k + 1
            BY <2>2, <2>3, <4>2
          <5>2. opened'[at - 1 + (k - at + 1)] = t[k - at + 1] BY <3>4, <5>1
          <5>3. t[k - at + 1] = opened[at + (k - at + 1)] BY <2>6, <5>1
          <5> QED BY <4>2, <5>1, <5>2, <5>3
        <4> QED BY <4>1, <4>2
      <3> QED BY <3>2, <3>5
    <2>8. \A j, k \in 1..m : opened[j] = opened[k] => j = k BY DEF OpenListed, m
    <2>9. ASSUME NEW k \in 1..(m - 1)
          PROVE  \E l \in 1..m : l # at /\ opened'[k] = opened[l] /\ l = IF k < at THEN k ELSE k + 1
      <3> DEFINE l == IF k < at THEN k ELSE k + 1
      <3>1. l \in 1..m /\ l # at BY <2>2, <2>3
      <3>2. opened'[k] = opened[l] BY <2>7
      <3> QED BY <3>1, <3>2
    <2>10. \A j, k \in 1..Len(opened') : opened'[j] = opened'[k] => j = k
      <3> SUFFICES ASSUME NEW j \in 1..(m - 1), NEW k \in 1..(m - 1), opened'[j] = opened'[k] PROVE j = k
        BY <2>7
      <3>1. PICK h \in 1..m : opened'[j] = opened[h] /\ h = IF j < at THEN j ELSE j + 1 BY <2>9
      <3>2. PICK l \in 1..m : opened'[k] = opened[l] /\ l = IF k < at THEN k ELSE k + 1 BY <2>9
      <3>3. h = l BY <2>8, <3>1, <3>2
      <3> QED BY <2>2, <2>3, <3>1, <3>2, <3>3
    <2>11. /\ \A g \in Files : g # f => buffer'[g] = buffer[g]
           /\ ~buffer'[f].open
      BY <1>1, <2>1
    <2>12. ASSUME NEW g \in Files, buffer'[g].open
           PROVE  buffer'[g].was /\ \E n \in 1..Len(opened') : opened'[n] = g
      <3>1. g # f /\ buffer[g].open /\ buffer'[g] = buffer[g] BY <2>11, <2>12
      <3>2. buffer[g].was /\ \E n \in 1..m : opened[n] = g BY <3>1 DEF OpenListed, IsOpen, m
      <3>3. PICK n \in 1..m : opened[n] = g BY <3>2
      <3>4. n # at BY <2>2, <3>1, <3>3
      <3>5. CASE n < at
        <4>1. n \in 1..(m - 1) BY <2>2, <2>3, <3>5
        <4> QED BY <2>7, <3>1, <3>2, <3>3, <3>5, <4>1
      <3>6. CASE n > at
        <4>1. n - 1 \in 1..(m - 1) /\ ~(n - 1 < at) /\ (n - 1) + 1 = n BY <2>2, <2>3, <3>6
        <4>2. opened'[n - 1] = opened[n] BY <2>7, <4>1
        <4> QED BY <2>7, <3>1, <3>2, <3>3, <4>1, <4>2
      <3> QED BY <2>2, <2>3, <3>4, <3>5, <3>6
    <2>13. ASSUME NEW k \in 1..Len(opened') PROVE buffer'[opened'[k]].open
      <3>1. PICK l \in 1..m : l # at /\ opened'[k] = opened[l] BY <2>7, <2>9
      <3>2. opened[l] # f /\ opened[l] \in Files /\ buffer[opened[l]].open
        BY <2>2, <2>3, <2>8, <3>1 DEF OpenListed, IsOpen, m
      <3> QED BY <2>11, <3>1, <3>2
    <2> QED BY <2>7, <2>10, <2>12, <2>13 DEF OpenListed, IsOpen
  <1>6. ASSUME NEW f \in Files, NEW t \in Texts, Edit(f, t) PROVE OpenListed'
    <2>1. buffer' = [buffer EXCEPT ![f].version = @ + 1, ![f].text = t] /\ UNCHANGED opened
      BY <1>6 DEF Edit
    <2>2. \A g \in Files : buffer'[g].was = buffer[g].was /\ buffer'[g].open = buffer[g].open
      BY <1>1, <2>1
    <2>3. \A n \in 1..Len(opened) : opened[n] \in Files BY DEF OpenListed
    <2> QED BY <2>1, <2>2, <2>3 DEF OpenListed, IsOpen
  <1> QED BY <1>2, <1>3, <1>4, <1>5, <1>6

\* Two lists of the same files, each once, are of one length.
LEMMA SameLength ==
  ASSUME NEW s \in Seq(Files), NEW t \in Seq(Files),
         \A k \in 1..Len(s) : \E n \in 1..Len(t) : t[n] = s[k],
         \A j, k \in 1..Len(s) : s[j] = s[k] => j = k
  PROVE  Len(s) <= Len(t)
  <1> DEFINE g == [k \in 1..Len(s) |-> CHOOSE n \in 1..Len(t) : t[n] = s[k]]
             S == 1..Len(s)
             T == 1..Len(t)
  <1>1. Len(s) \in Nat /\ Len(t) \in Nat OBVIOUS
  <1>2. \A k \in 1..Len(s) : g[k] \in 1..Len(t) /\ t[g[k]] = s[k] OBVIOUS
  <1>3. g = [k \in S |-> g[k]] OBVIOUS
  <1> HIDE DEF g
  <1>4. g \in [S -> T] /\ \A j, k \in S : g[j] = g[k] => j = k BY <1>2, <1>3
  <1>5. g \in Injection(S, T)
    <2> HIDE DEF S, T
    <2> QED BY <1>4 DEF Injection, IsInjective
  <1>6. IsFiniteSet(S) /\ IsFiniteSet(T) /\ Cardinality(S) = Len(s) /\ Cardinality(T) = Len(t)
    <2>1. ASSUME NEW n \in Nat PROVE IsFiniteSet(1..n) /\ Cardinality(1..n) = n
      <3>1. IsFiniteSet(1..n) /\ Cardinality(1..n) = IF 1 > n THEN 0 ELSE n - 1 + 1 BY FS_Interval
      <3> QED BY <3>1
    <2> QED BY <1>1, <2>1
  <1> HIDE DEF S, T
  <1>7. Cardinality(S) <= Cardinality(T) BY <1>5, <1>6, FS_Injection
  <1> QED BY <1>6, <1>7

LEMMA ListedInOrder ==
  ASSUME IsIndex(ix), OpenListed
  PROVE  RepairOrder
  <1> DEFINE docs == StaleOpen
             order == OrderByDependenciesFirst(docs)
  <1>1. docs \in Seq(Files) /\ \A j, k \in 1..Len(docs) : docs[j] = docs[k] => j = k
    BY StaleOpenFinds DEF OpenListed
  <1>2. InOrder(order, ToSet(docs))
    <2> HIDE DEF docs
    <2> QED BY <1>1, OrderIsRight
  <1>3. RepairOrder <=>
          /\ ToSet(order) = ToSet(docs) /\ Len(order) = Len(docs)
          /\ \A f, d \in ToSet(docs) : Depends(f, d) /\ ~Reaches(d, f) => Precedes(order, d, f)
    BY DEF RepairOrder, Precedes
  <1> HIDE DEF docs, order
  <1>4. /\ order \in Seq(Files) /\ DOMAIN order = 1..Len(order) /\ DOMAIN docs = 1..Len(docs)
        /\ Len(order) \in Nat /\ Len(docs) \in Nat
    BY <1>1, <1>2 DEF InOrder
  <1>5. ToSet(order) = ToSet(docs)
    <2>1. \A f \in Files : f \in ToSet(docs) <=> f \in ToSet(order)
      BY <1>2, <1>4 DEF InOrder, ToSet
    <2>2. ToSet(docs) \subseteq Files /\ ToSet(order) \subseteq Files BY <1>1, <1>4 DEF ToSet
    <2> QED BY <2>1, <2>2
  <1>6. Len(order) = Len(docs)
    <2>1. \A k \in 1..Len(order) : \E n \in 1..Len(docs) : docs[n] = order[k]
      BY <1>4, <1>5 DEF ToSet
    <2>2. \A k \in 1..Len(docs) : \E n \in 1..Len(order) : order[n] = docs[k]
      BY <1>4, <1>5 DEF ToSet
    <2>0. \A a, b \in Nat : a <= b /\ b <= a => a = b OBVIOUS
    <2>3. Len(order) <= Len(docs) BY <1>2, <1>1, <2>1, SameLength DEF InOrder
    <2>4. Len(docs) <= Len(order) BY <1>2, <1>1, <2>2, SameLength DEF InOrder
    <2> QED BY <1>4, <2>0, <2>3, <2>4
  <1> QED BY <1>2, <1>3, <1>5, <1>6 DEF InOrder

\* Whatever files import one another, in cycles or not, a round of the repair goes
\* through each document without a table once, a dependency before what depends
\* on it, unless it depends on it in turn: the search over the graph ends, and
\* leaves a file only after what the file depends on.
THEOREM RepairsInOrder == Spec => []RepairOrder
  <1>1. OpenListed /\ DocInv => RepairOrder BY ListedInOrder DEF DocInv, DocTyped
  <1> QED BY <1>1, ListedInit, ListedNext, DocumentInvariant, PTL DEF Spec
=============================================================================
