------------------------ MODULE CrossFileResolution ------------------------
(***************************************************************************)
(* resolveCrossFileDefinition for a reference its own file leaves          *)
(* unresolved (workspaceResolution.ts): a depth-first search along the     *)
(* inherits and the implicit module.pmod of a directory, which awaits at   *)
(* every hop while the index moves.  A file is what the search sees of it: *)
(* where its inherits lead, in order, and whether it declares the name.    *)
(* An inherit may fail to lead anywhere: its path resolves to nothing, or  *)
(* the file cannot be indexed.                                             *)
(***************************************************************************)
EXTENDS Integers, Sequences, FiniteSets, SequencesExt

CONSTANTS
    Files,
    Asking,      \* the file the request is about
    DirModule,   \* the module.pmod of a file's directory, or NoFile
    Tables,      \* the tables a file may have
    NoFile, NoTable,
    MaxDepth,    \* MAX_DEPTH
    MaxMoves     \* bound: edits and removals during one request

ASSUME ResolutionAssumption ==
    /\ Asking \in Files
    /\ DirModule \in [Files -> Files \cup {NoFile}]
    /\ Tables \subseteq [inherits : Seq(Files), declares : BOOLEAN]
    /\ NoTable \notin [inherits : Seq(Files), declares : BOOLEAN]
    /\ NoFile \notin Files
    /\ MaxDepth \in Nat /\ MaxMoves \in Nat

VARIABLES
    disk,        \* what indexing a file on demand finds
    table,       \* the index
    gen,         \* its generation
    request,     \* [file, qualifier]
    search,      \* the attempt under way: the files seen, the generation at its
                 \* start, and a stack of frames: a file, the inherits still to
                 \* follow, whether module.pmod is still to be tried, its depth
    answer,      \* the first attempt's result while it is re-resolved
    moves,       \* history: edits and removals since the request
    lost         \* history: files an inherit failed to lead to since the request

resolutionVars == <<disk, table, gen, request, search, answer, moves, lost>>

-----------------------------------------------------------------------------
(* inheritsReachableBy: the qualifier binds at the first hop only, and     *)
(* leaves the inherits of the file it names, as often as they are there.   *)
InheritsReachableBy(q, t, depth) ==
    IF depth > 0 \/ q = "all" THEN t.inherits
    ELSE [i \in 1..Cardinality({j \in DOMAIN t.inherits : t.inherits[j] = q}) |-> q]

Entered(s, f) == f \in s.seen

(* resolveUnresolvedReference up to its first await: the file is marked as *)
(* seen before the depth is looked at.                                     *)
Enter(s, f, t, depth) ==
    IF Entered(s, f) THEN s
    ELSE IF depth > MaxDepth THEN [s EXCEPT !.seen = @ \cup {f}]
    ELSE [s EXCEPT !.seen = @ \cup {f},
                   !.stack = Append(@, [file |-> f, depth |-> depth,
                                        module |-> depth > 0 \/ request.qualifier = "all",
                                        rest |-> InheritsReachableBy(request.qualifier, t, depth)])]

Start(n, g, tries) ==
    Enter([stack |-> <<>>, seen |-> {}, state |-> "running", found |-> NoFile,
           snap |-> g, tries |-> tries], request.file, n[request.file], 0)

ResolutionInit ==
    /\ disk \in [Files -> Tables]
    /\ request \in [file : {Asking}, qualifier : Files \cup {"all"}]
    /\ \E missing \in SUBSET (Files \ {request.file}) :
         table = [f \in Files |-> IF f \in missing THEN NoTable ELSE disk[f]]
    /\ gen = 0 /\ answer = NoFile /\ moves = 0 /\ lost = {}
    /\ search = Start(table, 0, 1)

Top == Last(search.stack)
Popped(s) == [s EXCEPT !.stack = Front(@)]
WithTop(s, frame) == [s EXCEPT !.stack = Append(Front(@), frame)]
Found(s, f) == [s EXCEPT !.stack = <<>>, !.found = f]

(* Look in a file the search has just reached, then search on from it.     *)
Visit(s, f, t, depth) == IF t.declares THEN Found(s, f) ELSE Enter(s, f, t, depth)

(* One round of searchInheritChainForSymbol: the path is resolved, a file  *)
(* not in the index is indexed on demand, which moves the index too.       *)
FollowInherit ==
    /\ search.stack # <<>> /\ Top.rest # <<>>
    /\ LET f == Head(Top.rest)
           s == WithTop(search, [Top EXCEPT !.rest = Tail(@)])
           t == IF table[f] = NoTable THEN disk[f] ELSE table[f]
       IN  /\ table' = [table EXCEPT ![f] = t]
           /\ gen' = IF table[f] = NoTable THEN gen + 1 ELSE gen
           /\ search' = Visit(s, f, t, Top.depth + 1)
    /\ UNCHANGED <<disk, request, answer, moves, lost>>

(* resolveInheritTarget comes to nothing: the search goes on without.      *)
LoseInherit ==
    /\ search.stack # <<>> /\ Top.rest # <<>>
    /\ lost' = lost \cup {Head(Top.rest)}
    /\ search' = WithTop(search, [Top EXCEPT !.rest = Tail(@)])
    /\ UNCHANGED <<disk, table, gen, request, answer, moves>>

(* The implicit module of the directory, which is never indexed on demand. *)
FollowModuleDirectOnly ==
    /\ search.stack # <<>> /\ Top.rest = <<>> /\ Top.module
    /\ LET f == DirModule[Top.file]
           s == WithTop(search, [Top EXCEPT !.module = FALSE])
       IN  search' = IF f # NoFile /\ table[f] # NoTable /\ table[f].declares THEN Found(s, f) ELSE s
    /\ UNCHANGED <<disk, table, gen, request, answer, moves, lost>>
FollowModule ==
    /\ search.stack # <<>> /\ Top.rest = <<>> /\ Top.module
    /\ LET f == DirModule[Top.file]
           s == WithTop(search, [Top EXCEPT !.module = FALSE])
       IN  search' = IF f = NoFile \/ table[f] = NoTable THEN s
                     ELSE Visit(s, f, table[f], Top.depth + 1)
    /\ UNCHANGED <<disk, table, gen, request, answer, moves, lost>>

Return ==
    /\ search.stack # <<>> /\ Top.rest = <<>> /\ ~Top.module
    /\ search' = Popped(search)
    /\ UNCHANGED <<disk, table, gen, request, answer, moves, lost>>

(* The attempt is over.  A result the index has overtaken is resolved once *)
(* more; the second attempt's failure keeps the first one's result.        *)
NotOvertaken == FALSE
Overtaken == search.found # NoFile /\ gen # search.snap /\ search.tries = 1
Finish ==
    /\ search.state = "running" /\ search.stack = <<>>
    /\ IF Overtaken /\ table[request.file] # NoTable
       THEN search' = Start(table, gen, 2) /\ answer' = search.found
       ELSE /\ search' = [search EXCEPT !.state = "done"]
            /\ answer' = IF search.found # NoFile THEN search.found ELSE answer
    /\ UNCHANGED <<disk, table, gen, request, moves, lost>>

(* An edit, or a close or deletion, between two awaits of the search.      *)
IndexMoves(f) ==
    /\ search.state = "running" /\ moves < MaxMoves /\ table[f] # NoTable
    /\ \E t \in (Tables \cup {NoTable}) \ {table[f]} :
         /\ table' = [table EXCEPT ![f] = t]
         /\ disk' = IF t = NoTable THEN disk ELSE [disk EXCEPT ![f] = t]
    /\ gen' = gen + 1 /\ moves' = moves + 1
    /\ UNCHANGED <<request, search, answer, lost>>

ResolutionNext ==
    \/ FollowInherit \/ LoseInherit \/ FollowModule \/ Return \/ Finish
    \/ \E f \in Files : IndexMoves(f)

ResolutionSpec == ResolutionInit /\ [][ResolutionNext]_resolutionVars

-----------------------------------------------------------------------------
(* The files the reference may reach in an index without following an      *)
(* inherit to one of `shut`, by what inheriting means rather than by a     *)
(* search: the qualifier's inherits of its own file, then everything these *)
(* inherit or see through their directory's module.                        *)
Seen(f) == IF table[f] = NoTable THEN disk[f] ELSE table[f]
Modules(f) == IF DirModule[f] # NoFile /\ table[DirModule[f]] # NoTable THEN {DirModule[f]} ELSE {}
FirstHops(shut) ==
    (ToSet(InheritsReachableBy(request.qualifier, Seen(request.file), 0)) \ shut)
      \cup (IF request.qualifier = "all" THEN Modules(request.file) ELSE {})
Reachable(shut) ==
    LET hops(S) == S \cup UNION {(ToSet(Seen(f).inherits) \ shut) \cup Modules(f) :
                                   f \in S \ {request.file}}
        reach[n \in 0..Cardinality(Files)] ==
            IF n = 0 THEN FirstHops(shut) ELSE hops(reach[n - 1])
    IN  reach[Cardinality(Files)]
Declaring(shut) == {f \in Reachable(shut) : Seen(f).declares}

(* While nothing else moves the index, the search answers with a reachable *)
(* declaration or with none, and with none only if there is none on a way  *)
(* on which every inherit led somewhere: its cut-offs for cycles and its   *)
(* own indexing on demand lose nothing, and a failure only what it hides.  *)
ResolvesWhatIsReachable ==
    search.state = "done" /\ moves = 0 =>
        /\ answer \in Declaring({}) \cup {NoFile}
        /\ answer = NoFile => Declaring(lost) = {}

(* If the index moved at most once in the whole request, an answer names a *)
(* declaration of the index as it is now, unless there is none any more    *)
(* but behind the inherits that failed.                                    *)
AnswerSurvivesAMove ==
    search.state = "done" /\ gen <= 1 /\ answer # NoFile /\ table[request.file] # NoTable =>
        answer \in Declaring({}) \/ Declaring(lost) = {}
=============================================================================
