-------------------------- MODULE WorkspaceIndexProofs -------------------------
(*****************************************************************************)
(* Lemmas about the operators of WorkspaceIndex and PersistentCache, for all *)
(* files, texts and imports.                                                 *)
(*****************************************************************************)
EXTENDS PersistentCache, WellFoundedInduction, NaturalsInduction,
        FiniteSetTheorems, TLAPS

\* An entry is left as it is, or has lost its table ...
Kept(i, j, g) ==
  /\ g \in DOMAIN i.files
  /\ j.files[g].text = i.files[g].text /\ j.files[g].kind = i.files[g].kind
  /\ j.files[g].table \in {NoTable, i.files[g].table}

\* ... or was built from the text it is filed under, if it has a table at all.
Built(j, g) == /\ j.files[g].kind = "full"
               /\ j.files[g].table = NoTable \/ <<g, j.files[g].text>> \in j.files[g].table

\* What indexing and invalidation make of an index.
Moves(i, j) == IsIndex(j) /\ \A g \in DOMAIN j.files : Kept(i, j, g) \/ Built(j, g)

-------------------------------------------------------------------------------
(* Natural numbers and what is defined along them. *)

\* A non-empty set of naturals has a least element.
LEMMA LeastNatural ==
  ASSUME NEW T, T \subseteq Nat, T # {}
  PROVE  \E x \in T : \A y \in T : x <= y
  <1> DEFINE R == {ss \in Nat \X Nat : ss[1] < ss[2]}
  <1>1. IsWellFoundedOn(R, Nat)
    BY NatLessThanWellFounded, Zenon DEF OpToRel
  <1>2. ASSUME NEW x \in Nat, NEW y \in Nat, y < x
        PROVE  <<y, x>> \in R
    <2>1. <<y, x>> \in Nat \X Nat /\ <<y, x>>[1] < <<y, x>>[2]
      BY <1>2
    <2> QED
      BY <2>1, Zenon
  <1> HIDE DEF R
  <1>3. \E x \in T : \A y \in T : ~(<<y, x>> \in R)
    BY <1>1, WFMin, Zenon
  <1>4. \A x, y \in T : ~(<<y, x>> \in R) => x <= y
    BY <1>2
  <1> QED
    BY <1>3, <1>4

\* Induction over an interval, for a set of numbers.
LEMMA Reaches0To ==
  ASSUME NEW m \in Nat, NEW T, 0 \in T, \A n \in 1..m : n - 1 \in T => n \in T
  PROVE  0..m \subseteq T
  <1> DEFINE D == (0..m) \ T
  <1> SUFFICES ASSUME D # {} PROVE FALSE OBVIOUS
  <1>1. PICK k \in D : \A n \in D : k <= n
    <2>1. D \subseteq Nat OBVIOUS
    <2> HIDE DEF D
    <2> QED BY <2>1, LeastNatural
  <1>2. k \in 1..m /\ k - 1 \in 0..m /\ ~(k <= k - 1) BY <1>1
  <1> QED BY <1>1, <1>2

\* A value and what a step, which may look at the number, makes of it m times.
Iterates(g, step, start, m) ==
  g = [n \in 0..m |-> IF n = 0 THEN start ELSE step[<<n, g[n - 1]>>]]

LEMMA IterationExists ==
  ASSUME NEW step, NEW start, NEW m \in Nat
  PROVE  \E g : Iterates(g, step, start, m)
  <1> DEFINE T == {n \in Nat : \E g : Iterates(g, step, start, n)}
  <1>1. 0 \in T
    <2> DEFINE g == [n \in 0..0 |-> start]
    <2>1. g = [n \in 0..0 |-> IF n = 0 THEN start ELSE step[<<n, g[n - 1]>>]]
      OBVIOUS
    <2> HIDE DEF g
    <2> QED BY <2>1 DEF Iterates
  <1>2. ASSUME NEW k \in 1..m, k - 1 \in T PROVE k \in T
    <2>1. PICK g : Iterates(g, step, start, k - 1) BY <1>2
    <2> DEFINE h == [n \in 0..k |-> IF n = k THEN step[<<k, g[k - 1]>>] ELSE g[n]]
    <2>2. ASSUME NEW n \in 0..k
          PROVE  h[n] = IF n = 0 THEN start ELSE step[<<n, h[n - 1]>>]
      <3>1. CASE n = k
        <4>1. k - 1 \in 0..k /\ k - 1 # k OBVIOUS
        <4>2. h[k - 1] = g[k - 1] /\ h[k] = step[<<k, g[k - 1]>>] BY <4>1
        <4> HIDE DEF h
        <4> QED BY <3>1, <4>2
      <3>2. CASE n # k
        <4>1. n \in 0..(k - 1) /\ h[n] = g[n] BY <3>2
        <4>2. g[n] = IF n = 0 THEN start ELSE step[<<n, g[n - 1]>>]
          BY <2>1, <4>1 DEF Iterates
        <4>3. n # 0 => h[n - 1] = g[n - 1] BY <3>2
        <4> HIDE DEF h
        <4> QED BY <4>1, <4>2, <4>3
      <3> QED BY <3>1, <3>2
    <2>3. h = [n \in 0..k |-> h[n]] OBVIOUS
    <2> HIDE DEF h
    <2>4. h = [n \in 0..k |-> IF n = 0 THEN start ELSE step[<<n, h[n - 1]>>]]
      BY <2>2, <2>3
    <2>5. Iterates(h, step, start, k) BY <2>4 DEF Iterates
    <2> QED BY <2>5
  <1> HIDE DEF T
  <1>3. 0..m \subseteq T BY <1>1, <1>2, Reaches0To
  <1> QED BY <1>3 DEF T

\* The result of a loop that stops in the states of `stop`.
Loops(g, S, stop, step, out) ==
  g = [w \in S |-> IF w \in stop THEN out[w] ELSE g[step[w]]]

\* A loop whose every step makes its state smaller has a result.
LEMMA LoopExists ==
  ASSUME NEW S, NEW stop, NEW step, NEW out, NEW size, \A w \in S : size[w] \in Nat,
         \A w \in S \ stop : step[w] \in S /\ size[step[w]] < size[w]
  PROVE  \E g : Loops(g, S, stop, step, out)
  <1> DEFINE Below(n) == {w \in S : size[w] <= n}
             On(g, n) == Loops(g, Below(n), stop, step, out)
  <1>1. ASSUME NEW m \in Nat PROVE \E g : On(g, m)
    <2> DEFINE T == {n \in Nat : \E g : On(g, n)}
    <2>1. 0 \in T
      <3> DEFINE g == [w \in Below(0) |-> out[w]]
      <3>1. \A w \in Below(0) : w \in stop
        <4>1. ASSUME NEW w \in S, w \notin stop PROVE ~(size[w] <= 0)
          <5>1. size[step[w]] \in Nat /\ size[w] \in Nat /\ size[step[w]] < size[w] BY <4>1
          <5> QED BY <5>1
        <4> QED BY <4>1
      <3>2. g = [w \in Below(0) |-> IF w \in stop THEN out[w] ELSE g[step[w]]] BY <3>1
      <3> HIDE DEF g
      <3> QED BY <3>2 DEF Loops
    <2>2. ASSUME NEW n \in 1..m, n - 1 \in T PROVE n \in T
      <3>1. PICK g : On(g, n - 1) BY <2>2
      <3> DEFINE h == [w \in Below(n) |-> IF w \in stop THEN out[w] ELSE g[step[w]]]
      <3>2. ASSUME NEW w \in Below(n), w \notin stop PROVE h[step[w]] = g[step[w]]
        <4>1. /\ step[w] \in S /\ size[step[w]] \in Nat /\ size[w] \in Nat
              /\ size[step[w]] < size[w] /\ size[w] <= n
          BY <3>2
        <4>2. size[step[w]] <= n - 1 /\ size[step[w]] <= n BY <4>1
        <4>3. step[w] \in Below(n - 1) /\ step[w] \in Below(n) BY <4>1, <4>2
        <4> DEFINE v == step[w]
        <4> HIDE DEF v, Below
        <4>4. h[v] = IF v \in stop THEN out[v] ELSE g[step[v]] BY <4>3 DEF v
        <4>5. g[v] = IF v \in stop THEN out[v] ELSE g[step[v]] BY <3>1, <4>3 DEF v, Loops
        <4> QED BY <4>4, <4>5 DEF v
      <3>3. h = [w \in Below(n) |-> IF w \in stop THEN out[w] ELSE h[step[w]]]
        <4> HIDE DEF Below
        <4>1. \A w \in Below(n) : (IF w \in stop THEN out[w] ELSE g[step[w]])
                                   = (IF w \in stop THEN out[w] ELSE h[step[w]])
          <5> HIDE DEF h
          <5> QED BY <3>2
        <4> QED BY <4>1
      <3> HIDE DEF h, Below
      <3>4. On(h, n) BY <3>3 DEF Loops
      <3> QED BY <3>4
    <2> HIDE DEF T
    <2>3. 0..m \subseteq T BY <2>1, <2>2, Reaches0To
    <2>4. m \in T BY <2>3
    <2> QED BY <2>4 DEF T
  <1>2. ASSUME NEW m \in Nat, NEW n \in Nat, NEW g, NEW h, On(g, m), On(h, n),
               NEW u \in S, size[u] <= m, size[u] <= n
        PROVE  g[u] = h[u]
    <2> DEFINE Bad == {w \in S : size[w] <= m /\ size[w] <= n /\ g[w] # h[w]}
               T == {size[w] : w \in Bad}
    <2> SUFFICES ASSUME Bad # {} PROVE FALSE BY <1>2
    <2>1. T \subseteq Nat /\ T # {} OBVIOUS
    <2> HIDE DEF T
    <2>2. PICK k \in T : \A l \in T : k <= l BY <2>1, LeastNatural
    <2>3. PICK w \in Bad : size[w] = k BY <2>2 DEF T
    <2>4. g[w] = (IF w \in stop THEN out[w] ELSE g[step[w]])
          /\ h[w] = (IF w \in stop THEN out[w] ELSE h[step[w]])
      <3>1. w \in Below(m) /\ w \in Below(n) BY <2>3
      <3> HIDE DEF Below
      <3> QED BY <1>2, <3>1 DEF Loops
    <2>5. w \notin stop /\ g[step[w]] # h[step[w]] BY <2>3, <2>4
    <2>6. step[w] \in S /\ size[step[w]] \in Nat /\ size[w] \in Nat /\ size[step[w]] < size[w]
      BY <2>3, <2>5
    <2>7. size[step[w]] <= m /\ size[step[w]] <= n BY <2>3, <2>6
    <2>8. step[w] \in Bad BY <2>5, <2>6, <2>7
    <2>9. size[step[w]] \in T BY <2>8 DEF T
    <2> QED BY <2>2, <2>3, <2>6, <2>9
  <1> DEFINE G(w) == CHOOSE g : On(g, size[w])
             L == [w \in S |-> G(w)[w]]
  <1>3. ASSUME NEW w \in S PROVE On(G(w), size[w])
    <2> HIDE DEF On
    <2> QED BY <1>1
  <1>4. ASSUME NEW w \in S PROVE L[w] = IF w \in stop THEN out[w] ELSE L[step[w]]
    <2>1. w \in Below(size[w]) OBVIOUS
    <2>2. L[w] = G(w)[w] OBVIOUS
    <2>3. G(w)[w] = IF w \in stop THEN out[w] ELSE G(w)[step[w]]
      <3> HIDE DEF G, Below, L
      <3> QED BY <1>3, <2>1 DEF Loops
    <2>4. CASE w \in stop BY <2>2, <2>3, <2>4
    <2>5. CASE w \notin stop
      <3>1. step[w] \in S /\ size[step[w]] \in Nat /\ size[w] \in Nat /\ size[step[w]] <= size[w]
        BY <2>5
      <3>2. G(w)[step[w]] = G(step[w])[step[w]]
        <4>1. On(G(w), size[w]) /\ On(G(step[w]), size[step[w]]) BY <1>3, <3>1
        <4> HIDE DEF G, On
        <4> QED BY <1>2, <3>1, <4>1
      <3>3. L[step[w]] = G(step[w])[step[w]] BY <3>1
      <3> HIDE DEF G, L
      <3> QED BY <2>2, <2>3, <2>5, <3>2, <3>3
    <2> QED BY <2>4, <2>5
  <1>5. L = [w \in S |-> L[w]] OBVIOUS
  <1> HIDE DEF L
  <1>6. L = [w \in S |-> IF w \in stop THEN out[w] ELSE L[step[w]]] BY <1>4, <1>5
  <1> QED BY <1>6 DEF Loops

-------------------------------------------------------------------------------
(* Records. *)

LEMMA EmptyIndexTyped == IsIndex(EmptyIndex) /\ DOMAIN EmptyIndex.files = {}
  BY DEF IsIndex, EmptyIndex

\* An index is made of its two fields.
LEMMA IndexFields ==
  ASSUME NEW fs, NEW ds, fs = [f \in DOMAIN fs |-> fs[f]],
         DOMAIN fs \subseteq Files, \A f \in DOMAIN fs : fs[f] \in Entry,
         ds \subseteq Files \X Files,
         NEW j, j = [files |-> fs, dependents |-> ds]
  PROVE  IsIndex(j) /\ j.files = fs /\ j.dependents = ds
  BY DEF IsIndex

LEMMA PutTyped ==
  ASSUME NEW i, IsIndex(i), NEW f \in Files, NEW e \in Entry, NEW j, j = Put(i, f, e)
  PROVE  /\ IsIndex(j) /\ DOMAIN j.files = DOMAIN i.files \cup {f}
         /\ j.files[f] = e
         /\ \A g \in DOMAIN i.files : g # f => j.files[g] = i.files[g]
  <1> DEFINE fs == [g \in DOMAIN i.files \cup {f} |-> IF g = f THEN e ELSE i.files[g]]
  <1>1. /\ i = [files |-> i.files, dependents |-> i.dependents]
        /\ DOMAIN i.files \subseteq Files /\ (\A g \in DOMAIN i.files : i.files[g] \in Entry)
        /\ i.dependents \subseteq Files \X Files
    BY DEF IsIndex
  <1>2. j = [i EXCEPT !.files = fs] BY DEF Put
  <1>3. /\ fs = [g \in DOMAIN fs |-> fs[g]] /\ DOMAIN fs = DOMAIN i.files \cup {f}
        /\ fs[f] = e /\ (\A g \in DOMAIN i.files : g # f => fs[g] = i.files[g])
    OBVIOUS
  <1>4. DOMAIN fs \subseteq Files /\ \A g \in DOMAIN fs : fs[g] \in Entry BY <1>1, <1>3
  <1> HIDE DEF fs
  <1>5. j = [files |-> fs, dependents |-> i.dependents] BY <1>1, <1>2
  <1>6. IsIndex(j) /\ j.files = fs BY <1>1, <1>3, <1>4, <1>5, IndexFields
  <1> QED BY <1>3, <1>6

\* Only the edges change.
LEMMA EdgesTyped ==
  ASSUME NEW i, IsIndex(i), NEW ds, ds \subseteq Files \X Files,
         NEW j, j = [i EXCEPT !.dependents = ds]
  PROVE  IsIndex(j) /\ j.files = i.files
  <1>1. i = [files |-> i.files, dependents |-> i.dependents] BY DEF IsIndex
  <1>2. j = [files |-> i.files, dependents |-> ds] BY <1>1
  <1> QED BY <1>2, IndexFields DEF IsIndex

LEMMA RegisterTyped ==
  ASSUME NEW i, IsIndex(i), NEW f \in Files, NEW deps \in SUBSET Files,
         NEW j, j = RegisterReverseDeps(i, f, deps)
  PROVE  IsIndex(j) /\ j.files = i.files
  <1>1. j = [i EXCEPT !.dependents = @ \cup {<<d, f>> : d \in deps}] BY DEF RegisterReverseDeps
  <1>2. i.dependents \cup {<<d, f>> : d \in deps} \subseteq Files \X Files BY DEF IsIndex
  <1> QED BY <1>1, <1>2, EdgesTyped

LEMMA RemoveDependenciesTyped ==
  ASSUME NEW i, IsIndex(i), NEW f \in Files, NEW j, j = RemoveDependencies(i, f)
  PROVE  IsIndex(j) /\ j.files = i.files
  <1>1. CASE ~Has(i, f) BY <1>1 DEF RemoveDependencies
  <1>2. CASE Has(i, f)
    <2> DEFINE ds == i.dependents \ {<<d, f>> : d \in i.files[f].deps}
    <2>1. j = [i EXCEPT !.dependents = ds] BY <1>2 DEF RemoveDependencies
    <2>2. ds \subseteq Files \X Files BY DEF IsIndex
    <2> HIDE DEF ds
    <2> QED BY <2>1, <2>2, EdgesTyped
  <1> QED BY <1>1, <1>2

-------------------------------------------------------------------------------
(* Building a table. *)

\* A table that is built holds the declarations of its own file.
LEMMA WiredTyped ==
  ASSUME NEW i, IsIndex(i), NEW f \in Files, NEW t \in Texts, NEW reached
  PROVE  Wired(i, f, t, reached) \in Tables /\ <<f, t>> \in Wired(i, f, t, reached)
  <1>1. ASSUME NEW d PROVE GetSymbolTable(i, d) \in Tables
    BY DEF GetSymbolTable, Has, IsIndex, Entry, NoTable, Tables
  <1> QED BY <1>1 DEF Wired, Tables

LEMMA FullEntryTyped ==
  ASSUME NEW v \in Nat, NEW t \in Texts, NEW table \in Tables, NEW deps \in SUBSET Files,
         NEW e, e = FullEntry(v, t, table, deps)
  PROVE  e \in Entry /\ e.text = t /\ e.table = table /\ e.kind = "full"
  BY DEF FullEntry, Entry, Kinds

LEMMA UnresolvedEntryTyped ==
  ASSUME NEW v \in Nat, NEW t \in Texts, NEW table \in Tables,
         NEW e, e = UnresolvedEntry(v, t, table)
  PROVE  e \in Entry /\ e.text = t /\ e.table = table /\ e.kind = "full"
  BY DEF UnresolvedEntry, Entry, Kinds

LEMMA StubEntryTyped ==
  ASSUME NEW v \in Nat, NEW t \in Texts, NEW deps \in SUBSET Files,
         NEW e, e = StubEntry(v, t, deps)
  PROVE  e \in Entry /\ e.text = t /\ e.table = NoTable /\ e.kind = "stub"
  BY DEF StubEntry, Entry, Kinds, Tables, NoTable

-------------------------------------------------------------------------------
(* Methods that build entries and drop tables. *)

LEMMA MovesTrans ==
  ASSUME NEW i, NEW j, NEW k, Moves(i, j), Moves(j, k)
  PROVE  Moves(i, k)
  <1> SUFFICES ASSUME NEW g \in DOMAIN k.files, ~Built(k, g) PROVE Kept(i, k, g)
    BY DEF Moves
  <1>1. Kept(j, k, g) BY DEF Moves
  <1>2. Kept(i, j, g) \/ Built(j, g) BY <1>1 DEF Moves, Kept
  <1>3. CASE Kept(i, j, g) BY <1>1, <1>3 DEF Kept
  <1>4. CASE Built(j, g) BY <1>1, <1>4 DEF Kept, Built
  <1> QED BY <1>2, <1>3, <1>4

LEMMA InstallMoves ==
  ASSUME NEW i, IsIndex(i), NEW f \in Files, NEW v \in Nat, NEW t \in Texts,
         NEW table \in Tables, <<f, t>> \in table,
         NEW j, j = InstallFull(i, f, v, t, table)
  PROVE  Moves(i, j)
  <1> DEFINE e == FullEntry(v, t, table, Imports[<<f, t>>])
             p == Put(i, f, e)
  <1>1. Imports[<<f, t>>] \in SUBSET Files BY ImportsAssumption
  <1>2. e \in Entry /\ e.text = t /\ e.table = table /\ e.kind = "full"
    BY <1>1, FullEntryTyped
  <1> HIDE DEF e
  <1>3. /\ IsIndex(p) /\ DOMAIN p.files = DOMAIN i.files \cup {f} /\ p.files[f] = e
        /\ \A g \in DOMAIN i.files : g # f => p.files[g] = i.files[g]
    BY <1>2, PutTyped
  <1>4. j = RegisterReverseDeps(p, f, Imports[<<f, t>>]) BY DEF InstallFull, e
  <1> HIDE DEF p
  <1>5. IsIndex(j) /\ j.files = p.files BY <1>1, <1>3, <1>4, RegisterTyped
  <1> QED BY <1>2, <1>3, <1>5 DEF Moves, Kept, Built

LEMMA RemoveDependenciesMoves ==
  ASSUME NEW i, IsIndex(i), NEW f \in Files, NEW j, j = RemoveDependencies(i, f)
  PROVE  Moves(i, j)
  BY RemoveDependenciesTyped DEF Moves, Kept

\* upsertFile when it has its dependencies.
LEMMA UpsertMoves ==
  ASSUME NEW i, IsIndex(i), NEW f \in Files, NEW v \in Nat, NEW t \in Texts, NEW reached,
         NEW j,
         j = LET rid == RemoveDependencies(i, f)
             IN  InstallFull(rid, f, v, t, Wired(rid, f, t, reached))
  PROVE  Moves(i, j)
  <1> DEFINE rid == RemoveDependencies(i, f)
             table == Wired(rid, f, t, reached)
  <1>1. IsIndex(rid) /\ Moves(i, rid) BY RemoveDependenciesMoves DEF Moves
  <1>2. j = InstallFull(rid, f, v, t, table) OBVIOUS
  <1> HIDE DEF rid
  <1>3. table \in Tables /\ <<f, t>> \in table BY <1>1, WiredTyped
  <1> HIDE DEF table
  <1>4. Moves(rid, j) BY <1>1, <1>2, <1>3, InstallMoves
  <1> QED BY <1>1, <1>4, MovesTrans

LEMMA UpsertBackgroundFileMoves ==
  ASSUME NEW i, IsIndex(i), NEW f \in Files, NEW v \in Nat, NEW t \in Texts, NEW warm,
         NEW j, j = UpsertBackgroundFile(i, f, v, t, warm)
  PROVE  Moves(i, j)
  <1> DEFINE rid == RemoveDependencies(i, f)
             table == Wired(rid, f, t, warm)
             e == UnresolvedEntry(v, t, table)
  <1>1. IsIndex(rid) /\ Moves(i, rid) BY RemoveDependenciesMoves DEF Moves
  <1>2. j = Put(rid, f, e) BY DEF UpsertBackgroundFile
  <1> HIDE DEF rid
  <1>3. table \in Tables /\ <<f, t>> \in table BY <1>1, WiredTyped
  <1> HIDE DEF table
  <1>4. e \in Entry /\ e.text = t /\ e.table = table /\ e.kind = "full"
    BY <1>3, UnresolvedEntryTyped
  <1> HIDE DEF e
  <1>5. /\ IsIndex(j) /\ DOMAIN j.files = DOMAIN rid.files \cup {f} /\ j.files[f] = e
        /\ \A g \in DOMAIN rid.files : g # f => j.files[g] = rid.files[g]
    BY <1>1, <1>2, <1>4, PutTyped
  <1>6. Moves(rid, j) BY <1>3, <1>4, <1>5 DEF Moves, Kept, Built
  <1> QED BY <1>1, <1>6, MovesTrans

LEMMA RemoveFileMoves ==
  ASSUME NEW i, IsIndex(i), NEW f \in Files, NEW j, j = RemoveFile(i, f)
  PROVE  Moves(i, j)
  <1>1. CASE ~Has(i, f) BY <1>1 DEF RemoveFile, Moves, Kept
  <1>2. CASE Has(i, f)
    <2> DEFINE rid == RemoveDependencies(i, f)
               fs == [g \in DOMAIN i.files \ {f} |-> i.files[g]]
               ds == {e \in rid.dependents : e[1] # f}
    <2>1. IsIndex(rid) BY RemoveDependenciesTyped
    <2>2. j = [files |-> fs, dependents |-> ds] BY <1>2 DEF RemoveFile
    <2> HIDE DEF rid
    <2>3. ds \subseteq Files \X Files BY <2>1 DEF IsIndex
    <2>4. /\ fs = [g \in DOMAIN fs |-> fs[g]] /\ DOMAIN fs \subseteq Files
          /\ \A g \in DOMAIN fs : g \in DOMAIN i.files /\ fs[g] = i.files[g]
      BY DEF IsIndex
    <2>5. \A g \in DOMAIN fs : fs[g] \in Entry BY <2>4 DEF IsIndex
    <2> HIDE DEF fs, ds
    <2>6. IsIndex(j) /\ j.files = fs BY <2>2, <2>3, <2>4, <2>5, IndexFields
    <2> QED BY <2>4, <2>6 DEF Moves, Kept
  <1> QED BY <1>1, <1>2

\* An index of which only the entries change, one by one.
LEMMA EntriesTyped ==
  ASSUME NEW i, IsIndex(i), NEW fs, fs = [g \in DOMAIN fs |-> fs[g]],
         DOMAIN fs = DOMAIN i.files, \A g \in DOMAIN i.files : fs[g] \in Entry,
         NEW j, j = [i EXCEPT !.files = fs]
  PROVE  IsIndex(j) /\ j.files = fs
  <1>1. i = [files |-> i.files, dependents |-> i.dependents] BY DEF IsIndex
  <1>2. j = [files |-> fs, dependents |-> i.dependents] BY <1>1
  <1>3. DOMAIN fs \subseteq Files /\ i.dependents \subseteq Files \X Files BY DEF IsIndex
  <1> QED BY <1>2, <1>3, IndexFields

LEMMA StaleMoves ==
  ASSUME NEW i, IsIndex(i), NEW origins, NEW reached, NEW j, j = Stale(i, origins, reached)
  PROVE  Moves(i, j)
  <1> DEFINE E(g) == [i.files[g] EXCEPT !.table = IF g \in origins THEN NoTable ELSE @,
                                        !.stale = @ \/ g \in reached]
             fs == [g \in DOMAIN i.files |-> E(g)]
  <1>1. j = [i EXCEPT !.files = fs] BY DEF Stale
  <1>2. ASSUME NEW g \in DOMAIN i.files
        PROVE  /\ E(g) \in Entry
               /\ E(g).text = i.files[g].text /\ E(g).kind = i.files[g].kind
               /\ E(g).table \in {NoTable, i.files[g].table}
    BY DEF IsIndex, Entry, NoTable, Tables
  <1>3. fs = [g \in DOMAIN fs |-> fs[g]] /\ DOMAIN fs = DOMAIN i.files
    OBVIOUS
  <1>4. \A g \in DOMAIN i.files : fs[g] = E(g) OBVIOUS
  <1> HIDE DEF fs, E
  <1>5. IsIndex(j) /\ j.files = fs BY <1>1, <1>2, <1>3, <1>4, EntriesTyped
  <1> QED BY <1>2, <1>3, <1>4, <1>5 DEF Moves, Kept

LEMMA InvalidateWithDependentsMoves ==
  ASSUME NEW i, IsIndex(i), NEW f, NEW j, j = InvalidateWithDependents(i, f)
  PROVE  Moves(i, j)
  BY StaleMoves DEF InvalidateWithDependents

LEMMA RewireDependentsMoves ==
  ASSUME NEW i, IsIndex(i), NEW f, NEW j, j = RewireDependents(i, f)
  PROVE  Moves(i, j)
  BY StaleMoves DEF RewireDependents

\* Whatever is invalidated is among what the search visits.
LEMMA ReachedSelf ==
  ASSUME NEW i, IsIndex(i), IsFiniteSet(Files), NEW f \in DOMAIN i.files
  PROVE  f \in Reached(i, f)
  <1> DEFINE D == DOMAIN i.files
             m == Cardinality(Files)
             Next1(X) == X \cup {g \in D : \E h \in X : <<h, g>> \in i.dependents}
             step == [p \in Nat \X SUBSET D |-> Next1(p[2])]
             Within == CHOOSE W : W = [n \in 0..m |-> IF n = 0 THEN {f} \cap D ELSE Next1(W[n - 1])]
  <1>1. m \in Nat BY FS_CardinalityType
  <1> HIDE DEF m
  <1>2. PICK W : Iterates(W, step, {f} \cap D, m)
    <2> HIDE DEF step, D
    <2> QED BY <1>1, IterationExists
  <1>3. 0..m \subseteq {n \in 0..m : W[n] \in SUBSET D}
    <2> DEFINE T == {n \in 0..m : W[n] \in SUBSET D}
    <2>1. 0 \in T BY <1>1, <1>2 DEF Iterates
    <2>2. ASSUME NEW n \in 1..m, n - 1 \in T PROVE n \in T
      <3>1. n \in 0..m /\ n # 0 /\ n \in Nat BY <1>1
      <3>2. W[n] = step[<<n, W[n - 1]>>] BY <1>2, <3>1 DEF Iterates
      <3>3. W[n - 1] \in SUBSET D BY <2>2
      <3>4. W[n] = Next1(W[n - 1]) BY <3>1, <3>2, <3>3
      <3> QED BY <3>1, <3>3, <3>4
    <2> HIDE DEF T
    <2>3. 0..m \subseteq T BY <1>1, <2>1, <2>2, Reaches0To
    <2> QED BY <2>3 DEF T
  <1>4. W = [n \in 0..m |-> IF n = 0 THEN {f} \cap D ELSE Next1(W[n - 1])]
    <2>1. ASSUME NEW n \in 0..m, n # 0 PROVE step[<<n, W[n - 1]>>] = Next1(W[n - 1])
      <3>1. n - 1 \in 0..m /\ n \in Nat BY <1>1, <2>1
      <3>2. W[n - 1] \in SUBSET D BY <1>3, <3>1
      <3> QED BY <3>1, <3>2
    <2> HIDE DEF step, Next1, D
    <2>2. W = [n \in 0..m |-> IF n = 0 THEN {f} \cap D ELSE step[<<n, W[n - 1]>>]]
      BY <1>2 DEF Iterates
    <2> QED BY <2>1, <2>2
  <1>5. Within = [n \in 0..m |-> IF n = 0 THEN {f} \cap D ELSE Next1(Within[n - 1])]
    <2> HIDE DEF Next1, D
    <2> QED BY <1>4
  <1>6. Reached(i, f) = Within[m] BY DEF Reached, m
  <1> HIDE DEF Within
  <1>7. 0..m \subseteq {n \in 0..m : f \in Within[n]}
    <2> DEFINE T == {n \in 0..m : f \in Within[n]}
    <2>1. 0 \in T BY <1>1, <1>5
    <2>2. ASSUME NEW n \in 1..m, n - 1 \in T PROVE n \in T
      <3>1. n \in 0..m /\ n # 0 BY <1>1
      <3>2. Within[n] = Next1(Within[n - 1])
        <4> HIDE DEF Next1
        <4> QED BY <1>5, <3>1
      <3> QED BY <2>2, <3>1, <3>2
    <2> HIDE DEF T
    <2>3. 0..m \subseteq T BY <1>1, <2>1, <2>2, Reaches0To
    <2> QED BY <2>3 DEF T
  <1> QED BY <1>1, <1>6, <1>7

LEMMA DemoteTyped ==
  ASSUME NEW i, IsIndex(i), NEW essential, NEW j, j = DemoteNonEssentialEntries(i, essential)
  PROVE  /\ IsIndex(j) /\ DOMAIN j.files = DOMAIN i.files
         /\ \A g \in DOMAIN i.files :
              /\ j.files[g].text = i.files[g].text
              /\ j.files[g].table \in {NoTable, i.files[g].table}
              /\ \/ j.files[g].kind = i.files[g].kind
                 \/ i.files[g].kind = "full" /\ j.files[g].kind = "demoted"
  <1> DEFINE E(g) == IF g \notin essential /\ i.files[g].kind = "full"
                     THEN [i.files[g] EXCEPT !.table = NoTable, !.kind = "demoted"]
                     ELSE i.files[g]
             fs == [g \in DOMAIN i.files |-> E(g)]
  <1>1. j = [i EXCEPT !.files = fs] BY DEF DemoteNonEssentialEntries
  <1>2. ASSUME NEW g \in DOMAIN i.files
        PROVE  /\ E(g) \in Entry /\ E(g).text = i.files[g].text
               /\ E(g).table \in {NoTable, i.files[g].table}
               /\ \/ E(g).kind = i.files[g].kind
                  \/ i.files[g].kind = "full" /\ E(g).kind = "demoted"
    <2>1. i.files[g] \in Entry BY DEF IsIndex
    <2>2. CASE E(g) = i.files[g] BY <2>1, <2>2
    <2>3. CASE /\ E(g) = [i.files[g] EXCEPT !.table = NoTable, !.kind = "demoted"]
               /\ i.files[g].kind = "full"
      BY <2>1, <2>3 DEF Entry, NoTable, Tables, Kinds
    <2> QED BY <2>2, <2>3
  <1>3. fs = [g \in DOMAIN fs |-> fs[g]] /\ DOMAIN fs = DOMAIN i.files OBVIOUS
  <1>4. \A g \in DOMAIN i.files : fs[g] = E(g) OBVIOUS
  <1> HIDE DEF fs, E
  <1>5. IsIndex(j) /\ j.files = fs BY <1>1, <1>2, <1>3, <1>4, EntriesTyped
  <1> QED BY <1>2, <1>3, <1>4, <1>5

LEMMA HydrateStubTyped ==
  ASSUME NEW i, IsIndex(i), NEW f, IsHydratable(i, f), NEW table \in Tables,
         NEW j, j = HydrateStub(i, f, table)
  PROVE  /\ IsIndex(j) /\ DOMAIN j.files = DOMAIN i.files
         /\ j.files[f].table = table /\ j.files[f].text = i.files[f].text
         /\ j.files[f].kind = "full"
         /\ \A g \in DOMAIN i.files : g # f => j.files[g] = i.files[g]
  <1> DEFINE e == [i.files[f] EXCEPT !.table = table, !.kind = "full", !.stale = FALSE]
             fs == [i.files EXCEPT ![f] = e]
  <1>1. f \in DOMAIN i.files /\ i.files[f] \in Entry
        /\ i.files = [g \in DOMAIN i.files |-> i.files[g]]
    BY DEF IsHydratable, Has, IsIndex
  <1>2. e \in Entry /\ e.table = table /\ e.text = i.files[f].text /\ e.kind = "full"
    BY <1>1 DEF Entry, Kinds
  <1>3. j = [i EXCEPT !.files = fs] BY DEF HydrateStub
  <1> HIDE DEF e
  <1>4. /\ fs = [g \in DOMAIN fs |-> fs[g]] /\ DOMAIN fs = DOMAIN i.files
        /\ fs[f] = e /\ \A g \in DOMAIN i.files : g # f => fs[g] = i.files[g]
    BY <1>1
  <1>5. \A g \in DOMAIN i.files : fs[g] \in Entry BY <1>2, <1>4 DEF IsIndex
  <1> HIDE DEF fs
  <1>6. IsIndex(j) /\ j.files = fs BY <1>3, <1>4, <1>5, EntriesTyped
  <1> QED BY <1>2, <1>4, <1>6

-------------------------------------------------------------------------------
(* Restoring. *)

LEMMA RestoreStubsTyped ==
  ASSUME NEW i, IsIndex(i), NEW manifest, \A r \in manifest : r \in Record,
         NEW j, j = RestoreStubs(i, manifest)
  PROVE  /\ IsIndex(j)
         /\ \A g \in DOMAIN j.files :
              Kept(i, j, g) \/ (j.files[g].kind = "stub" /\ j.files[g].table = NoTable)
  <1> DEFINE fresh == {r \in manifest : ~Has(i, r.uri)}
             R(f) == CHOOSE r \in fresh : r.uri = f
             fs == [f \in DOMAIN i.files \cup {r.uri : r \in fresh} |->
                      IF Has(i, f) THEN i.files[f] ELSE StubEntry(0, R(f).text, R(f).deps)]
             ds == i.dependents \cup UNION {{<<d, r.uri>> : d \in r.deps} : r \in fresh}
  <1>1. j = [files |-> fs, dependents |-> ds] BY DEF RestoreStubs
  <1>2. \A r \in fresh : r \in Record OBVIOUS
  <1>3. \A r \in fresh : r.uri \in Files /\ r.deps \in SUBSET Files BY <1>2 DEF Record
  <1>4. ASSUME NEW f \in DOMAIN fs, ~Has(i, f)
        PROVE  /\ StubEntry(0, R(f).text, R(f).deps) \in Entry
               /\ StubEntry(0, R(f).text, R(f).deps).kind = "stub"
               /\ StubEntry(0, R(f).text, R(f).deps).table = NoTable
    <2>1. \E r \in fresh : r.uri = f BY <1>4 DEF Has
    <2>2. R(f) \in fresh BY <2>1
    <2>3. R(f).text \in Texts /\ R(f).deps \in SUBSET Files BY <1>2, <2>2 DEF Record
    <2> HIDE DEF R
    <2> QED BY <2>3, StubEntryTyped
  <1>5. /\ \A f \in DOMAIN fs : Has(i, f) => fs[f] = i.files[f]
        /\ \A f \in DOMAIN fs : ~Has(i, f) => fs[f] = StubEntry(0, R(f).text, R(f).deps)
    OBVIOUS
  <1>6. DOMAIN fs \subseteq Files /\ fs = [f \in DOMAIN fs |-> fs[f]]
    BY <1>3 DEF IsIndex
  <1>7. ds \subseteq Files \X Files BY <1>3 DEF IsIndex
  <1> HIDE DEF fs, ds, R, fresh
  <1>8. \A f \in DOMAIN fs : fs[f] \in Entry BY <1>4, <1>5 DEF IsIndex, Has
  <1>9. IsIndex(j) /\ j.files = fs BY <1>1, <1>6, <1>7, <1>8, IndexFields
  <1> QED BY <1>4, <1>5, <1>9 DEF Kept, Has

LEMMA RestoreCachedEntriesTyped ==
  ASSUME NEW i, IsIndex(i), NEW loaded, \A e \in loaded : e \in Cached,
         NEW j, j = RestoreCachedEntries(i, loaded)
  PROVE  /\ IsIndex(j)
         /\ \A g \in DOMAIN j.files :
              \/ Kept(i, j, g)
              \/ /\ j.files[g].kind = "full"
                 /\ \E e \in loaded : j.files[g].table = e.table /\ j.files[g].text = e.text
  <1> DEFINE fresh == {e \in loaded : e.table # NoTable /\ ~Has(i, e.uri)}
             R(f) == CHOOSE e \in fresh : e.uri = f
             E(f) == [UnresolvedEntry(0, R(f).text, R(f).table) EXCEPT
                        !.deps = R(f).deps, !.resolved = R(f).deps # {}]
             fs == [f \in DOMAIN i.files \cup {e.uri : e \in fresh} |->
                      IF Has(i, f) THEN i.files[f] ELSE E(f)]
             ds == i.dependents \cup UNION {{<<d, e.uri>> : d \in e.deps} : e \in fresh}
  <1>1. j = [files |-> fs, dependents |-> ds] BY DEF RestoreCachedEntries
  <1>2. \A e \in fresh : e \in Cached /\ e \in loaded OBVIOUS
  <1>3. \A e \in fresh : e.uri \in Files /\ e.deps \in SUBSET Files BY <1>2 DEF Cached
  <1>4. ASSUME NEW f \in DOMAIN fs, ~Has(i, f)
        PROVE  /\ E(f) \in Entry /\ E(f).kind = "full"
               /\ \E e \in loaded : E(f).table = e.table /\ E(f).text = e.text
    <2>1. \E e \in fresh : e.uri = f BY <1>4 DEF Has
    <2>2. R(f) \in fresh BY <2>1
    <2>3. R(f).text \in Texts /\ R(f).deps \in SUBSET Files /\ R(f).table \in Tables
      BY <1>2, <2>2 DEF Cached
    <2>4. R(f) \in loaded BY <1>2, <2>2
    <2> HIDE DEF R
    <2>5. E(f) \in Entry /\ E(f).kind = "full" /\ E(f).table = R(f).table /\ E(f).text = R(f).text
      BY <2>3 DEF UnresolvedEntry, Entry, Kinds
    <2> QED BY <2>4, <2>5
  <1>5. /\ \A f \in DOMAIN fs : Has(i, f) => fs[f] = i.files[f]
        /\ \A f \in DOMAIN fs : ~Has(i, f) => fs[f] = E(f)
    OBVIOUS
  <1>6. DOMAIN fs \subseteq Files /\ fs = [f \in DOMAIN fs |-> fs[f]]
    BY <1>3 DEF IsIndex
  <1>7. ds \subseteq Files \X Files BY <1>3 DEF IsIndex
  <1> HIDE DEF fs, ds, E, R, fresh
  <1>8. \A f \in DOMAIN fs : fs[f] \in Entry BY <1>4, <1>5 DEF IsIndex, Has
  <1>9. IsIndex(j) /\ j.files = fs BY <1>1, <1>6, <1>7, <1>8, IndexFields
  <1> QED BY <1>4, <1>5, <1>9 DEF Kept, Has

-------------------------------------------------------------------------------
(* The cache. *)

\* A save collects the tables of the index under the texts of its entries.
LEMMA CollectedTyped ==
  ASSUME NEW i, IsIndex(i), NEW e \in Collected(i)
  PROVE  /\ e \in Cached /\ e.uri \in DOMAIN i.files
         /\ e.text = i.files[e.uri].text /\ e.table = i.files[e.uri].table /\ e.table # NoTable
  <1>1. PICK f \in {g \in DOMAIN i.files : i.files[g].table # NoTable} :
          e = [uri |-> f, text |-> i.files[f].text, deps |-> i.files[f].deps,
               table |-> i.files[f].table]
    BY DEF Collected
  <1>2. f \in Files /\ i.files[f] \in Entry BY DEF IsIndex
  <1> QED BY <1>1, <1>2 DEF Cached, Entry

LEMMA EmptyCacheTyped == IsCache(EmptyCache) /\ EmptyCache.entries = {}
  BY DEF IsCache, EmptyCache

\* A cache is made of its five fields.
LEMMA CacheFields ==
  ASSUME NEW dir \in BOOLEAN, NEW entries, \A e \in entries : e \in Cached,
         NEW root \in {"absent", "current", "other"}, NEW marked \in BOOLEAN,
         NEW manifest, \A r \in manifest : r \in Record,
         NEW c, c = [dir |-> dir, entries |-> entries, root |-> root, marked |-> marked,
                     manifest |-> manifest]
  PROVE  IsCache(c) /\ c.entries = entries
  BY DEF IsCache

LEMMA CacheWrites ==
  ASSUME NEW c, IsCache(c), NEW t, NEW entries, \A e \in entries : e \in Cached,
         NEW d, \/ d = RemoveEntry(c, t)
                \/ \E e \in entries : d = SaveEntry(c, e)
                \/ d = WriteCacheIndex(c)
                \/ d = WriteManifest(c, entries)
                \/ d = [c EXCEPT !.dir = TRUE]
                \/ d = [c EXCEPT !.root = "other"]
  PROVE  IsCache(d) /\ d.entries \subseteq c.entries \cup entries
  <1>1. /\ c = [dir |-> c.dir, entries |-> c.entries, root |-> c.root, marked |-> c.marked,
                manifest |-> c.manifest]
        /\ c.dir \in BOOLEAN /\ (\A e \in c.entries : e \in Cached)
        /\ c.root \in {"absent", "current", "other"}
        /\ c.marked \in BOOLEAN /\ (\A r \in c.manifest : r \in Record)
    BY DEF IsCache
  <1>2. CASE d = RemoveEntry(c, t)
    <2> DEFINE es == {e \in c.entries : e.text # t}
    <2>1. d = [c EXCEPT !.entries = es] BY <1>2 DEF RemoveEntry
    <2>2. es \subseteq c.entries OBVIOUS
    <2> HIDE DEF es
    <2>3. d = [dir |-> c.dir, entries |-> es, root |-> c.root, marked |-> c.marked,
               manifest |-> c.manifest]
      BY <1>1, <2>1
    <2> QED BY <1>1, <2>2, <2>3, CacheFields
  <1>3. ASSUME NEW e \in entries, d = SaveEntry(c, e) PROVE IsCache(d) /\ d.entries \subseteq c.entries \cup entries
    <2> DEFINE es == {o \in c.entries : o.text # e.text} \cup {e}
    <2>1. d = [c EXCEPT !.entries = es] BY <1>3 DEF SaveEntry
    <2>2. es \subseteq c.entries \cup entries OBVIOUS
    <2> HIDE DEF es
    <2>3. d = [dir |-> c.dir, entries |-> es, root |-> c.root, marked |-> c.marked,
               manifest |-> c.manifest]
      BY <1>1, <2>1
    <2>4. \A o \in es : o \in Cached BY <1>1, <2>2
    <2> QED BY <1>1, <2>2, <2>3, <2>4, CacheFields
  <1>4. CASE d = WriteManifest(c, entries)
    <2> DEFINE rs == {[uri |-> e.uri, text |-> e.text, deps |-> e.deps] : e \in entries}
    <2>1. d = [c EXCEPT !.marked = TRUE, !.manifest = rs] BY <1>4 DEF WriteManifest
    <2>2. \A r \in rs : r \in Record BY DEF Record, Cached
    <2> HIDE DEF rs
    <2>3. d = [dir |-> c.dir, entries |-> c.entries, root |-> c.root, marked |-> TRUE,
               manifest |-> rs]
      BY <1>1, <2>1
    <2> QED BY <1>1, <2>2, <2>3 DEF IsCache
  <1>5. CASE d = WriteCacheIndex(c)
    <2>1. d = [dir |-> c.dir, entries |-> c.entries, root |-> "current", marked |-> c.marked,
               manifest |-> c.manifest]
      BY <1>1, <1>5 DEF WriteCacheIndex
    <2> QED BY <1>1, <2>1, CacheFields
  <1>6. CASE d = [c EXCEPT !.dir = TRUE]
    <2>1. d = [dir |-> TRUE, entries |-> c.entries, root |-> c.root, marked |-> c.marked,
               manifest |-> c.manifest]
      BY <1>1, <1>6
    <2> QED BY <1>1, <2>1 DEF IsCache
  <1>7. CASE d = [c EXCEPT !.root = "other"]
    <2>1. d = [dir |-> c.dir, entries |-> c.entries, root |-> "other", marked |-> c.marked,
               manifest |-> c.manifest]
      BY <1>1, <1>7
    <2> QED BY <1>1, <2>1, CacheFields
  <1> QED BY <1>2, <1>3, <1>4, <1>5, <1>6, <1>7
================================================================================
