--------------------------------- MODULE MCScan ---------------------------------
(*****************************************************************************)
(* Instances of WorkspaceScan, and statements about it that the code does    *)
(* not keep                                                                  *)
(*****************************************************************************)
EXTENDS WorkspaceScan, TLC

CONSTANTS a, b, old, new

Pair     == {a, b}
JustA    == {a}
TwoTexts == {old, new}
OneText  == {old}

AImportsB == [i \in Files \X Texts |-> IF i[1] = a THEN {b} ELSE {}]

\* globalQueryPrep.ts: "results must be complete -- never partial".  Closing a
\* document drops its entry, and so does a watched change while a scan runs.
PreparedIsComplete ==
  (prepared /\ tasks = {} /\ notices = {}) => \A f \in Files : disk[f] # Gone => Has(ix, f)

\* serverFileWatchHandler.ts: "the index reflects the actual workspace state".
\* A file the scan had read before it changed is installed after the watcher
\* has taken its entry out.
ScannedIsCurrent ==
  (scans = [s \in {} |-> NewScan] /\ notices = {} /\ tasks = {}) =>
    \A f \in DOMAIN ix.files : f \notin Opened /\ disk[f] # Gone => ix.files[f].text = disk[f]

\* resourceState.ts: "degraded" is left when memory recovers.  When it was
\* entered because the cache was too large, the monitor does not know.
DegradedEnds == <>[](memory.usage = "low") => <>[](memory.state = "active")
================================================================================
