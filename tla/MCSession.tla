------------------------------- MODULE MCSession -------------------------------
(*****************************************************************************)
(* Instances of Session, and statements about it that the code does not keep *)
(*****************************************************************************)
EXTENDS Session, TLC

CONSTANTS a, b, old, new

Pair     == {a, b}
JustA    == {a}
TwoTexts == {old, new}
OneText  == {old}

NoImports == [i \in Files \X Texts |-> {}]
AImportsB == [i \in Files \X Texts |-> IF i[1] = a THEN {b} ELSE {}]

\* Bound: how many tasks and saves are under way.
AtMostTwo == Cardinality(tasks) + Cardinality(DOMAIN saves) <= 2

\* serverLifecycle.ts, refreshStaleCacheEntries: "Reads each cached file, hashes
\* it, re-indexes changed files".  An entry restored from the cache is marked
\* "didOpen", and checkEntryStaleness takes those for indexed already.
RefreshedIsCurrent ==
  server.boot = "done" =>
    \A f \in DOMAIN ix.files :
      (source[f] = "didOpen" /\ disk[f] # Gone) => ix.files[f].text = disk[f]

\* persistentCache.ts, saveCache: forward dependencies are saved "so the
\* reverse-dep graph can be reconstructed".  Those of a file the background scan
\* indexed are not known yet: saved as none, they come back as resolved.
RestoredEdgesAreKnown ==
  \A f \in DOMAIN ix.files :
    ix.files[f].resolved => ix.files[f].deps = Imports[<<f, ix.files[f].text>>]

\* hibernation.ts, onDocumentOpen: "Documents prevent hibernation."
\* hibernateNow does not look again after its awaits.
OpenPreventsHibernation == [][hib' = "hibernated" /\ hib # "hibernated" => Opened = {}]_vars

\* persistentCache.ts, saveCache: "Each file entry is an individual JSON file".
\* Files with the same text share one, which holds the table of one of them.
HydratedIsOfItsFile ==
  \A f \in DOMAIN ix.files :
    ix.files[f].table # NoTable => <<f, ix.files[f].text>> \in ix.files[f].table

\* persistentCache.ts, saveCache: the index and the manifest "are written last
\* to mark a complete save".  A save prunes while those of the last one stand.
MarkedSaveIsWhole == HasManifest(cache) => Hashes(cache.manifest) \subseteq Hashes(cache.entries)

\* 0033-idle-hibernation.md: "After a configurable idle threshold (default: 10
\* minutes), the server enters hibernation".  The memory timer asks the manager
\* of a context that has none.
IdleServerHibernates == <>[](IsUp /\ server.boot = "done" /\ Opened = {}) => []<>(hib = "hibernated")

\* restartPolicy.ts: "Stopping from Starting, or an explicit shutdown, is not" a
\* crash.  The client reports a shutdown as Running to Stopped.
StopIsNoCrash == client.state = "stopping" => client.timers = 0

\* hibernation.ts: the save is "best-effort".  One abandoned before it collected
\* anything finds an empty index, and empties the cache.
AbandonedSaveKeepsCache ==
  [][\A s \in DOMAIN saves : saves[s].by = "nobody" => Hashes(cache.entries) = {} \/ Hashes(cache'.entries) # {}]_vars

\* cacheHydrate.ts, hydrateFromCache: TRUE "only on a successful, non-stale
\* hydration".  It compares the entry before it reads the cached file.
HydrationIsNotStale ==
  \A f \in DOMAIN ix.files :
    ix.files[f].table # NoTable => IsOf(ix.files[f].table, ix.files[f].text)

\* cacheHydrate.ts hydrates an entry whose own source is unchanged; a table also
\* holds what its file included then.
HydratedImportsAreCurrent ==
  \A f \in DOMAIN ix.files :
    (source[f] = "background" /\ ~ix.files[f].stale) =>
      \A p \in ix.files[f].table : disk[p[1]] = p[2]
================================================================================
