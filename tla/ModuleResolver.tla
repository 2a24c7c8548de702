-------------------------- MODULE ModuleResolver --------------------------
(***************************************************************************)
(* How the names a Pike file inherits, imports and includes become files:  *)
(* ModuleResolver with its cache, the lookups an upsert starts for every   *)
(* name at once (warmResolverCache), the edges it draws from their answers *)
(* (extractDependencies), what the table builder reads from the cache      *)
(* (the sync adapter), and the handler of renamed files.                   *)
(*                                                                         *)
(* A path is a sequence of entries <<name, extension>>.  A clause is       *)
(* [kind, relative, up, steps]: of a "module" the steps are names and      *)
(* relative says that it starts with a dot; of a "string" or an "include"  *)
(* they are entries below the directory that is up levels above the file's.*)
(* A lookup looks at the disk once, when it ends.                          *)
(***************************************************************************)
EXTENDS Integers, Sequences, FiniteSets, TLC, SequencesExt, FiniteSetsExt

CONSTANTS
    Importers,      \* the open files
    ClauseSets,     \* sets of clauses: what a text inherits, imports and includes
    Disks,          \* the sets of files that may exist at the start
    Renames,        \* pairs of paths: the renames an editor may do
    ModulePaths, ProgramPaths, IncludePaths,   \* sequences of directories
    Underscored,    \* each name with its hyphens replaced
    MaxCached,      \* CACHE_MAX_ENTRIES
    MaxUpserts      \* upserts in a behaviour

VARIABLES
    files,          \* the files on disk, beside the importers
    known,          \* the resolver's cache, <<key, answer>> in order of insertion
    warming,        \* per importer the lookups of its upsert, Idle without one
    resolved,       \* per importer what the clauses of its entry resolved to
    inModule,       \* per importer the module.pmod its entry depends on
    built,          \* per importer what its table builder got for the clauses
    renaming,       \* handleFileRenames: importers left to upsert, the one awaited
    renames,        \* renames done
    upserts,        \* upserts begun
    askedBefore     \* history: <<importer, head>> looked up before the rename

resolverVars == <<files, known, warming, resolved, inModule, built, renaming,
                  renames, upserts, askedBefore>>

Missing == <<>>
Idle == [running |-> FALSE, text |-> {}, keys |-> {}, got |-> <<>>]

-----------------------------------------------------------------------------
(* moduleResolverInternal.ts: questions to the disk.                       *)
IsFile(p) == p \in files \cup Importers
IsDir(p) == \E f \in files \cup Importers : Len(p) < Len(f) /\ IsPrefix(p, f)
PathExists(p) == IsFile(p) \/ IsDir(p)
Dirname(p) == Front(p)
Child(dir, name, ext) == Append(dir, <<name, ext>>)
FirstWhere(seq, Test(_)) == LET hits == SelectSeq(seq, Test) IN IF hits = <<>> THEN Missing ELSE hits[1]

(* A path without an extension is completed by the first that exists.      *)
FindWithExtension(p) ==
    IF Last(p)[2] # "" THEN Missing
    ELSE FirstWhere([i \in 1..2 |-> Child(Dirname(p), Last(p)[1], <<"pike", "pmod">>[i])], PathExists)

FindModuleInPath(name, dir) ==
    LET pmod == Child(dir, name, "pmod")
        pike == Child(dir, name, "pike")
    IN  IF IsDir(pmod) THEN FirstWhere(<<Child(pmod, "module", "pmod"), pmod>>, PathExists)
        ELSE IF IsFile(pmod) THEN pmod
        ELSE IF PathExists(pike) THEN pike ELSE Missing

ResolveSubModule(parent, name) ==
    IF IsDir(parent) THEN FindModuleInPath(name, parent)
    ELSE IF Last(parent) = <<"module", "pmod">> THEN FindModuleInPath(name, Dirname(parent))
    ELSE Missing

ResolveDirectoryModulePmod(f) ==
    LET dir == Dirname(f)
        module == Child(dir, "module", "pmod")
    IN  IF dir # <<>> /\ Last(dir)[2] = "pmod" /\ f # module /\ PathExists(module)
        THEN module ELSE Missing

(* moduleResolver.ts: the uncached resolutions.                            *)
SearchPaths(f) ==
    <<Dirname(f)>> \o SelectSeq(ModulePaths, LAMBDA dir : dir # Dirname(f))

\* Mutant: a name in every directory before its other spelling in any.
FindFirstSegmentNamesFirst(name, dirs) ==
    LET names == [i \in DOMAIN dirs |-> FindModuleInPath(name, dirs[i])]
        others == [i \in DOMAIN dirs |-> FindModuleInPath(Underscored[name], dirs[i])]
    IN  FirstWhere(names \o others, LAMBDA p : p # Missing)

FindFirstSegment(name, dirs) ==
    LET inDir(dir) == LET own == FindModuleInPath(name, dir)
                      IN  IF own # Missing THEN own ELSE FindModuleInPath(Underscored[name], dir)
    IN  FirstWhere([i \in DOMAIN dirs |-> inDir(dirs[i])], LAMBDA p : p # Missing)

DoResolveModule(c, f) ==
    LET head == FindFirstSegment(c.steps[1], IF c.relative THEN <<Dirname(f)>> ELSE SearchPaths(f))
    IN  FoldLeft(LAMBDA p, name : IF p = Missing THEN Missing ELSE ResolveSubModule(p, name),
                 head, Tail(c.steps))

(* resolveInheritModulePath after its head: a tail that is no file is a    *)
(* class inside the deepest file that is one.                              *)
Deepest(head, names) ==
    LET down(at, name) == LET next == ResolveSubModule(at.path, name)
                          IN  IF at.stopped \/ next = Missing THEN [at EXCEPT !.stopped = TRUE]
                              ELSE [at EXCEPT !.path = next]
    IN  IF head = Missing THEN Missing
        ELSE FoldLeft(down, [path |-> head, stopped |-> FALSE], names).path

Above(dir, n) == SubSeq(dir, 1, Len(dir) - n)
Completed(p) == IF PathExists(p) THEN p ELSE FindWithExtension(p)

(* searchInheritProgramPaths: beside the file, then every program path     *)
(* exactly, then every program path with an extension.                     *)
ResolveInheritString(c, f) ==
    LET beside == Completed(Above(Dirname(f), c.up) \o c.steps)
        exact == FirstWhere([i \in DOMAIN ProgramPaths |-> ProgramPaths[i] \o c.steps], PathExists)
        extended == FirstWhere([i \in DOMAIN ProgramPaths |->
                                   FindWithExtension(ProgramPaths[i] \o c.steps)],
                               LAMBDA p : p # Missing)
    IN  IF c.relative \/ beside # Missing THEN beside
        ELSE IF exact # Missing THEN exact ELSE extended

ResolveIncludeUncached(c, f) ==
    IF c.relative
    THEN LET p == Above(Dirname(f), c.up) \o c.steps IN IF IsFile(p) THEN p ELSE Missing
    ELSE FirstWhere([i \in DOMAIN IncludePaths |-> IncludePaths[i] \o c.steps], IsFile)

-----------------------------------------------------------------------------
(* The cache: a Map keeps the place of a key it already has.               *)
Module(relative, steps) == [kind |-> "module", relative |-> relative, up |-> 0, steps |-> steps]
Key(way, c, f) == [way |-> way, clause |-> c, file |-> f]
Holds(c, key) == \E i \in DOMAIN c : c[i][1] = key
Answer(c, key) == c[CHOOSE i \in DOMAIN c : c[i][1] = key][2]

EvictCount == (MaxCached + 3) \div 4
EvictIfNeeded(c) == IF Len(c) <= MaxCached THEN c ELSE SubSeq(c, EvictCount + 1, Len(c))
Remember(c, key, answer) ==
    EvictIfNeeded(IF Holds(c, key)
                  THEN [i \in DOMAIN c |-> IF c[i][1] = key THEN <<key, answer>> ELSE c[i]]
                  ELSE Append(c, <<key, answer>>))

(* resolveModule, resolveInherit and resolveInclude: the answer, and the   *)
(* cache with it.  An inherited name asks for its head as a module.        *)
Uncached(c, key) ==
    LET clause == key.clause
        head == Key("mod", Module(FALSE, <<clause.steps[1]>>), key.file)
        found == DoResolveModule(head.clause, key.file)
        tail == Tail(clause.steps)
        says(answer, with) == [answer |-> answer, known |-> with]
    IN  CASE key.way = "mod" -> says(DoResolveModule(clause, key.file), c)
          [] key.way = "inc" -> says(ResolveIncludeUncached(clause, key.file), c)
          [] clause.kind = "string" -> says(ResolveInheritString(clause, key.file), c)
          [] clause.relative ->
                says(Deepest(FindModuleInPath(clause.steps[1], Dirname(key.file)), tail), c)
          [] Holds(c, head) -> says(Deepest(Answer(c, head), tail), c)
          [] OTHER -> says(Deepest(found, tail), Remember(c, head, found))
Lookup(c, key) ==
    LET u == Uncached(c, key)
    IN  [answer |-> u.answer, known |-> Remember(u.known, key, u.answer)]

-----------------------------------------------------------------------------
(* workspaceDependencies.ts.                                               *)
KeysOf(c, f) ==
    CASE c.kind = "module" -> {Key("mod", c, f), Key("inh", c, f)}
      [] c.kind = "string" -> {Key("inh", c, f)}
      [] c.kind = "include" -> {Key("inc", c, f)}

(* A clause by the answers to its keys: an import's before an inherit's.   *)
FromAnswers(c, f, Got(_)) ==
    LET answers == [way \in {k.way : k \in KeysOf(c, f)} |-> Got(Key(way, c, f))]
    IN  IF c.kind = "module" /\ answers["mod"] # Missing THEN answers["mod"]
        ELSE IF c.kind = "include" THEN answers["inc"] ELSE answers["inh"]

(* extractDependencies: the answers, and the module.pmod beside the file.  *)
Dependencies(f) ==
    ({resolved[f][c] : c \in DOMAIN resolved[f]} \cup {inModule[f]}) \ {f, Missing}

\* warmResolverCache: what is cached is answered at once, the rest asks the disk.
UpsertOf(f, text) ==
    LET keys == UNION {KeysOf(c, f) : c \in text}
        cached == {k \in keys : Holds(known, k)}
    IN  /\ ~warming[f].running
        /\ upserts < MaxUpserts
        /\ upserts' = upserts + 1
        /\ warming' = [warming EXCEPT ![f] = [running |-> TRUE, text |-> text,
                                              keys |-> keys \ cached,
                                              got |-> [k \in cached |-> Answer(known, k)]]]

\* didOpen, didChange: whatever the file's text is now.
UpsertBegins(f, text) ==
    /\ UpsertOf(f, text)
    /\ UNCHANGED <<files, known, resolved, inModule, built, renaming, renames, askedBefore>>

HeadOf(c) == IF c.kind = "module" THEN Module(c.relative, <<c.steps[1]>>) ELSE c

LookupEnds(f, key) ==
    LET found == Lookup(known, key)
    IN  /\ key \in warming[f].keys
        /\ known' = found.known
        /\ warming' = [warming EXCEPT ![f].keys = @ \ {key},
                                      ![f].got = (key :> found.answer) @@ @]
        /\ askedBefore' = IF renames = 0 THEN askedBefore \cup {<<f, HeadOf(key.clause)>>} ELSE askedBefore
        /\ UNCHANGED <<files, resolved, inModule, built, renaming, renames, upserts>>

\* The table builder reads the cache, the entry's edges come from the lookups.
UpsertEnds(f) ==
    LET text == warming[f].text
        cached(key) == IF Holds(known, key) THEN Answer(known, key) ELSE Missing
        looked(key) == warming[f].got[key]
    IN  /\ warming[f].running
        /\ warming[f].keys = {}
        /\ warming' = [warming EXCEPT ![f] = Idle]
        /\ built' = [built EXCEPT ![f] = [c \in text |-> FromAnswers(c, f, cached)]]
        /\ resolved' = [resolved EXCEPT ![f] = [c \in text |-> FromAnswers(c, f, looked)]]
        /\ inModule' = [inModule EXCEPT ![f] = ResolveDirectoryModulePmod(f)]
        /\ UNCHANGED <<files, known, renaming, renames, upserts, askedBefore>>

(* An editor renames a file: the disk changes, then handleFileRenames      *)
(* upserts the open dependents of the old name, one after the other.       *)
RenameFile(old, new) ==
    /\ renames = 0
    /\ old \in files /\ new \notin files
    /\ files' = (files \ {old}) \cup {new}
    /\ renaming' = [left |-> SetToSeq({f \in Importers : old \in Dependencies(f)}),
                    awaited |-> Missing]
    /\ renames' = 1
    /\ UNCHANGED <<known, warming, resolved, inModule, built, upserts, askedBefore>>

RenameUpserts ==
    /\ renaming.left # <<>>
    /\ renaming.awaited # Missing => ~warming[renaming.awaited].running
    /\ UpsertOf(renaming.left[1], DOMAIN resolved[renaming.left[1]])
    /\ renaming' = [left |-> Tail(renaming.left), awaited |-> renaming.left[1]]
    /\ UNCHANGED <<files, known, resolved, inModule, built, renames, askedBefore>>

ResolverInit ==
    /\ known = <<>>
    /\ warming = [f \in Importers |-> Idle]
    /\ resolved = [f \in Importers |-> <<>>]
    /\ inModule = [f \in Importers |-> Missing]
    /\ built = [f \in Importers |-> <<>>]
    /\ renaming = [left |-> <<>>, awaited |-> Missing]
    /\ renames = 0
    /\ upserts = 0
    /\ askedBefore = {}

ResolverNext ==
    \/ \E f \in Importers :
         \/ \E text \in ClauseSets : UpsertBegins(f, text)
         \/ \E key \in warming[f].keys : LookupEnds(f, key)
         \/ UpsertEnds(f)
    \/ \E m \in Renames : RenameFile(m[1], m[2])
    \/ RenameUpserts

-----------------------------------------------------------------------------
(* What a name means on this disk, whatever the order of the probes: of    *)
(* the files that could be meant the one that ranks first.                 *)
Ranked(weight, p, isThere) == IF isThere THEN {<<weight, p>>} ELSE {}
FirstRanked(S) == IF S = {} THEN Missing ELSE (CHOOSE x \in S : \A y \in S : x[1] <= y[1])[2]

(* A directory's modules of a name: name.pmod/ by its module.pmod, else    *)
(* the directory itself; the file name.pmod; name.pike.                    *)
ModulesIn(name, dir, weight) ==
    LET pmod == Child(dir, name, "pmod")
        index == Child(pmod, "module", "pmod")
        pike == Child(dir, name, "pike")
    IN  Ranked(weight, index, IsFile(index)) \cup Ranked(weight + 1, pmod, IsDir(pmod))
        \cup Ranked(weight + 2, pmod, IsFile(pmod)) \cup Ranked(weight + 3, pike, IsFile(pike))
ModulesAlong(name, dirs) ==
    UNION {ModulesIn(name, dirs[i], 10 * i) \cup ModulesIn(Underscored[name], dirs[i], 10 * i + 5) :
             i \in DOMAIN dirs}
Inside(p) == IF IsDir(p) THEN p ELSE IF Last(p) = <<"module", "pmod">> THEN Dirname(p) ELSE Missing

(* The files along a dotted name; the last of them is what it means.       *)
Along(c, f) ==
    LET dirs == IF c.relative THEN <<Dirname(f)>> ELSE <<Dirname(f)>> \o ModulePaths
        at[n \in 1..Len(c.steps)] ==
            IF n = 1 THEN FirstRanked(ModulesAlong(c.steps[1], dirs))
            ELSE IF at[n - 1] = Missing \/ Inside(at[n - 1]) = Missing THEN Missing
            ELSE FirstRanked(ModulesIn(c.steps[n], Inside(at[n - 1]), 0))
    IN  SelectSeq([n \in DOMAIN c.steps |-> at[n]], LAMBDA p : p # Missing)

Programs(p, exact, extended) ==
    Ranked(exact, p, PathExists(p))
    \cup UNION {Ranked(extended + i, Child(Dirname(p), Last(p)[1], <<"pike", "pmod">>[i]),
                       Last(p)[2] = "" /\ PathExists(Child(Dirname(p), Last(p)[1],
                                                           <<"pike", "pmod">>[i]))) : i \in 1..2}
MeantBy(c, f) ==
    LET beside == Above(Dirname(f), c.up) \o c.steps
    IN  CASE c.kind = "module" -> IF Along(c, f) = <<>> THEN Missing ELSE Last(Along(c, f))
          [] c.kind = "string" ->
                FirstRanked(Programs(beside, 0, 0) \cup
                    IF c.relative THEN {}
                    ELSE UNION {Programs(ProgramPaths[i] \o c.steps, 10 + i, 100 * i) :
                                  i \in DOMAIN ProgramPaths})
          [] c.kind = "include" ->
                IF c.relative THEN FirstRanked(Ranked(0, beside, IsFile(beside)))
                ELSE FirstRanked(UNION {Ranked(i, IncludePaths[i] \o c.steps,
                                               IsFile(IncludePaths[i] \o c.steps)) :
                                          i \in DOMAIN IncludePaths})

(* An entry's edges lead to the files its names mean on this disk; a name  *)
(* may be behind a rename only if its file asked for its head before that: *)
(* cached answers, shared heads, evictions and lookups side by side never  *)
(* hand one file's, or one name's, answer to another.                      *)
EdgesFollowTheDisk ==
    \A f \in Importers : \A c \in DOMAIN resolved[f] :
        \/ resolved[f][c] = MeantBy(c, f)
        \/ renames > 0 /\ <<f, HeadOf(c)>> \in askedBefore

(* Statements the code does not keep. *)

(* handleFileRenames: "Re-index dependents so their cross-file references  *)
(* point to the new URI."                                                  *)
RenamesAreFollowed ==
    renames > 0 /\ renaming.left = <<>> /\ renaming.awaited # Missing
        /\ ~warming[renaming.awaited].running
        => \A c \in DOMAIN resolved[renaming.awaited] :
             resolved[renaming.awaited][c] = MeantBy(c, renaming.awaited)

(* createSyncIndexAdapter: "When the resolver cache is warm                *)
(* (post-warmResolverCache), sync methods return correct results."         *)
BuilderSeesTheEdges ==
    \A f \in Importers : \A c \in DOMAIN resolved[f] :
        resolved[f][c] # Missing => built[f][c] # Missing
=============================================================================
