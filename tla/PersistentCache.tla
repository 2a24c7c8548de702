---------------------------- MODULE PersistentCache ----------------------------
(*****************************************************************************)
(* The cache of a workspace on disk as a value, and what restoring from it   *)
(* makes of an index.  Every file below cache/ is named by the hash of a     *)
(* text, and is written to a temporary file and renamed, so that a crash     *)
(* leaves the old one or the new one; a hash is the text it hashes.          *)
(*****************************************************************************)
EXTENDS WorkspaceIndex

\* A file of cache/: a CachedFileEntry under its contentHash.
Cached == [uri : Files, text : Texts, deps : SUBSET Files, table : Tables]

Record == [uri : Files, text : Texts, deps : SUBSET Files]

\* `dir` while the directory is there.  cacheIndex.json is missing, written for
\* this format and grammar, or for others; `marked` when there is a manifest.json.
IsCache(c) ==
  /\ c = [dir |-> c.dir, entries |-> c.entries, root |-> c.root, marked |-> c.marked,
          manifest |-> c.manifest]
  /\ c.dir \in BOOLEAN
  /\ \A e \in c.entries : e \in Cached
  /\ c.root \in {"absent", "current", "other"}
  /\ c.marked \in BOOLEAN /\ \A r \in c.manifest : r \in Record

EmptyCache ==
  [dir |-> FALSE, entries |-> {}, root |-> "absent", marked |-> FALSE, manifest |-> {}]

Hashes(entries) == {e.text : e \in entries}

(*****************************************************************************)
(* Saving                                                                    *)
(*****************************************************************************)

\* What a save writes: the entries that hold a table at this moment.
Collected(ix) ==
  {[uri |-> f, text |-> ix.files[f].text, deps |-> ix.files[f].deps, table |-> ix.files[f].table] :
     f \in {g \in DOMAIN ix.files : ix.files[g].table # NoTable}}

StaleHashes(c, entries) == Hashes(c.entries) \ Hashes(entries)

RemoveEntry(c, t) == [c EXCEPT !.entries = {e \in @ : e.text # t}]

SaveEntry(c, e) == [c EXCEPT !.entries = {o \in @ : o.text # e.text} \cup {e}]

WriteCacheIndex(c) == [c EXCEPT !.root = "current"]

WriteManifest(c, entries) ==
  [c EXCEPT !.marked = TRUE,
            !.manifest = {[uri |-> e.uri, text |-> e.text, deps |-> e.deps] : e \in entries}]

(*****************************************************************************)
(* Restoring                                                                 *)
(*****************************************************************************)

\* loadManifest: a manifest beside a cacheIndex.json of this format and grammar.
HasManifest(c) == c.root = "current" /\ c.marked

\* restoreStub of every record: a file that has an entry keeps it.
RestoreStubs(ix, manifest) ==
  LET fresh == {r \in manifest : ~Has(ix, r.uri)}
  IN  [files |-> [f \in DOMAIN ix.files \cup {r.uri : r \in fresh} |->
         IF Has(ix, f) THEN ix.files[f]
         ELSE LET r == CHOOSE r \in fresh : r.uri = f IN StubEntry(0, r.text, r.deps)],
       dependents |-> ix.dependents \cup UNION {{<<d, r.uri>> : d \in r.deps} : r \in fresh}]

\* loadCacheEntries: all the files of cache/, of those with the same URI the one
\* that was read first.
Loads(c) ==
  {read \in SUBSET c.entries : \A u \in {e.uri : e \in c.entries} :
     Cardinality({e \in read : e.uri = u}) = 1}

\* restoreCachedEntries.
RestoreCachedEntries(ix, loaded) ==
  LET fresh == {e \in loaded : e.table # NoTable /\ ~Has(ix, e.uri)}
  IN  [files |-> [f \in DOMAIN ix.files \cup {e.uri : e \in fresh} |->
         IF Has(ix, f) THEN ix.files[f]
         ELSE LET e == CHOOSE e \in fresh : e.uri = f
              IN  [UnresolvedEntry(0, e.text, e.table) EXCEPT
                     !.deps = e.deps, !.resolved = e.deps # {}]],
       dependents |-> ix.dependents \cup UNION {{<<d, e.uri>> : d \in e.deps} : e \in fresh}]

\* Mutant: the content that was read is not compared.
CanHydrateUnseen(c, ix, f, t) ==
  /\ IsHydratable(ix, f) /\ ix.files[f].table = NoTable
  /\ ix.files[f].text \in Hashes(c.entries)

\* hydrateFromCache, for content that has just been read: an entry without a
\* table whose text is still what the file holds, and a file under its hash.
CanHydrate(c, ix, f, t) ==
  /\ IsHydratable(ix, f) /\ ix.files[f].table = NoTable
  /\ ix.files[f].text = t
  /\ ix.files[f].text \in Hashes(c.entries)

\* ... with the table in the file for t.
Hydrated(c, ix, f, t) == HydrateStub(ix, f, (CHOOSE e \in c.entries : e.text = t).table)
================================================================================
