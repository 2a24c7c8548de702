----------------------------- MODULE WorkspaceIndex -----------------------------
(*****************************************************************************)
(* The workspace index as a value: which files have an entry, what the entry *)
(* holds, and who depends on whom.  Every operator is one method of the      *)
(* class WorkspaceIndex, from an index to the index it leaves behind; the    *)
(* methods run to their end without yielding, except upsertFile and          *)
(* ensureDependenciesResolved, whose halves are separate operators here and  *)
(* separate steps of the modules that extend this one.                       *)
(*                                                                           *)
(* A symbol table is the set of <<file, text>> pairs whose declarations it   *)
(* holds: the file's own, and those merged from the tables of what it        *)
(* includes and inherits, which were themselves merged when they were built. *)
(* The empty set stands for null.  A content hash is the text it hashes.     *)
(*****************************************************************************)
EXTENDS FiniteSets, Integers

CONSTANTS
  Files,      \* the URIs of the workspace
  Texts,      \* what a file may contain
  Imports     \* Imports[<<f, t>>]: what file f inherits, imports or includes when it holds t

ASSUME ImportsAssumption == Imports \in [Files \X Texts -> SUBSET Files]

NoTable == {}
Tables  == SUBSET (Files \X Texts)

Kinds == {"full", "demoted", "stub"}

Entry == [version : Nat, text : Texts, table : Tables, stale : BOOLEAN,
          deps : SUBSET Files, resolved : BOOLEAN, kind : Kinds]

\* `files` maps the indexed URIs to entries, `dependents` holds a pair <<d, f>>
\* when f is in the set kept for d.
IsIndex(ix) ==
  /\ ix = [files |-> ix.files, dependents |-> ix.dependents]
  /\ DOMAIN ix.files \subseteq Files /\ \A f \in DOMAIN ix.files : ix.files[f] \in Entry
  /\ ix.files = [f \in DOMAIN ix.files |-> ix.files[f]]
  /\ ix.dependents \subseteq Files \X Files

EmptyIndex == [files |-> [f \in {} |-> {}], dependents |-> {}]

Has(ix, f) == f \in DOMAIN ix.files

\* getSymbolTable: nothing for a stale entry.
GetSymbolTable(ix, f) ==
  IF Has(ix, f) /\ ~ix.files[f].stale THEN ix.files[f].table ELSE NoTable

GetDependents(ix, f) == {g \in Files : <<f, g>> \in ix.dependents}

Put(ix, f, e) ==
  [ix EXCEPT !.files = [g \in DOMAIN ix.files \cup {f} |-> IF g = f THEN e ELSE ix.files[g]]]

RegisterReverseDeps(ix, f, deps) ==
  [ix EXCEPT !.dependents = @ \cup {<<d, f>> : d \in deps}]

RemoveDependencies(ix, f) ==
  IF Has(ix, f)
  THEN [ix EXCEPT !.dependents = @ \ {<<d, f>> : d \in ix.files[f].deps}]
  ELSE ix

(*****************************************************************************)
(* Building a table                                                          *)
(*****************************************************************************)

\* wireInheritance and wireIncludes: what the live tables of `reached` add.  A
\* target without a table is skipped, and so is the file itself.
Wired(ix, f, t, reached) ==
  {<<f, t>>} \cup UNION {GetSymbolTable(ix, d) : d \in reached \ {f}}

FullEntry(v, t, table, deps) ==
  [version |-> v, text |-> t, table |-> table, stale |-> FALSE,
   deps |-> deps, resolved |-> TRUE, kind |-> "full"]

\* Entries of the background scan and of the eager cache: no dependencies yet.
UnresolvedEntry(v, t, table) ==
  [version |-> v, text |-> t, table |-> table, stale |-> FALSE,
   deps |-> {}, resolved |-> FALSE, kind |-> "full"]

StubEntry(v, t, deps) ==
  [version |-> v, text |-> t, table |-> NoTable, stale |-> FALSE,
   deps |-> deps, resolved |-> TRUE, kind |-> "stub"]

\* The end of upsertFile: the entry replaces whatever is there now.
InstallFull(ix, f, v, t, table) ==
  RegisterReverseDeps(Put(ix, f, FullEntry(v, t, table, Imports[<<f, t>>])), f, Imports[<<f, t>>])

\* The resolver's cache answers for some of the imports, or for none when cold.
UpsertBackgroundFile(ix, f, v, t, warm) ==
  LET rid == RemoveDependencies(ix, f)
  IN  Put(rid, f, UnresolvedEntry(v, t, Wired(rid, f, t, warm)))

UpsertCachedFile(ix, f, v, t, table) == Put(ix, f, UnresolvedEntry(v, t, table))

RestoreDependencies(ix, f, deps) ==
  IF ~Has(ix, f) \/ ix.files[f].deps # {} THEN ix
  ELSE RegisterReverseDeps(
         [ix EXCEPT !.files[f].deps = deps, !.files[f].resolved = TRUE], f, deps)

RestoreStub(ix, f, v, t, deps) ==
  IF Has(ix, f) THEN ix
  ELSE RegisterReverseDeps(Put(ix, f, StubEntry(v, t, deps)), f, deps)

IsHydratable(ix, f) == Has(ix, f) /\ ix.files[f].kind \in {"stub", "demoted"}

HydrateStub(ix, f, table) ==
  IF IsHydratable(ix, f)
  THEN [ix EXCEPT !.files[f] = [@ EXCEPT !.table = table, !.kind = "full", !.stale = FALSE]]
  ELSE ix

\* removeFile also forgets who depends on f.
RemoveFile(ix, f) ==
  IF ~Has(ix, f) THEN ix
  ELSE LET rid == RemoveDependencies(ix, f)
       IN  [files      |-> [g \in DOMAIN ix.files \ {f} |-> ix.files[g]],
            dependents |-> {e \in rid.dependents : e[1] # f}]

(*****************************************************************************)
(* Invalidation and demotion                                                 *)
(*****************************************************************************)

Invalidate(ix, f) ==
  IF Has(ix, f) THEN [ix EXCEPT !.files[f].table = NoTable, !.files[f].stale = TRUE] ELSE ix

\* What the breadth-first search over the reverse edges visits: it does not go
\* on through a file that has no entry.
Reached(ix, f) ==
  LET Within[n \in 0..Cardinality(Files)] ==
        IF n = 0 THEN {f} \cap DOMAIN ix.files
        ELSE Within[n - 1] \cup
             {g \in DOMAIN ix.files : \E h \in Within[n - 1] : <<h, g>> \in ix.dependents}
  IN  Within[Cardinality(Files)]

\* Drops the tables of `origins` and marks all that `reached` holds.
Stale(ix, origins, reached) ==
  [ix EXCEPT !.files = [g \in DOMAIN ix.files |->
     [ix.files[g] EXCEPT !.table = IF g \in origins THEN NoTable ELSE @,
                         !.stale = @ \/ g \in reached]]]

InvalidateWithDependents(ix, f) == Stale(ix, {f}, Reached(ix, f))

\* rewireDependents: invalidateWithDependents of every indexed dependent.
RewireDependents(ix, f) ==
  LET origins == GetDependents(ix, f) \cap DOMAIN ix.files
  IN  Stale(ix, origins, UNION {Reached(ix, g) : g \in origins})

DemoteNonEssentialEntries(ix, essential) ==
  [ix EXCEPT !.files = [g \in DOMAIN ix.files |->
     IF g \notin essential /\ ix.files[g].kind = "full"
     THEN [ix.files[g] EXCEPT !.table = NoTable, !.kind = "demoted"]
     ELSE ix.files[g]]]
================================================================================
