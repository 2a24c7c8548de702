------------------------------ MODULE Rename ------------------------------
(***************************************************************************)
(* Renaming a symbol: which places of two files a rename edits.  The file  *)
(* app inherits the file lib.  References are resolved when a table is     *)
(* built (collectPostfixRef, resolveName) and collected when a rename is   *)
(* asked for (getReferencesToDecl, getCrossFileReferences), where member   *)
(* accesses are sorted by the type of their receiver (isReceiverTypeMatch).*)
(*                                                                         *)
(* A file is [classes, functions].  A class is [name, members, inherits,   *)
(* calls], its methods and the names these call; a function is [name,      *)
(* locals, uses], its typed variables and its uses of names, bare or       *)
(* through a receiver.  A place is <<file, sort, index, index>>; the       *)
(* place of a clone is that of the declaration it was cloned from.         *)
(***************************************************************************)
EXTENDS Integers, Sequences, FiniteSets, SequencesExt, FiniteSetsExt

CONSTANT Protected          \* names of Pike's own that a file scope may not rename

VARIABLES
    program,        \* the two files under the editor
    tables,         \* the declarations of each, its clones after its own
    references,     \* the references of each
    edited          \* the last rename: [target, asked, at, places], or NoRename

renameVars == <<program, tables, references, edited>>

NoDecl == [kind |-> "none"]
NoRename == [target |-> <<>>, asked |-> "none", at |-> <<>>, places |-> {}]
RenameFiles == {"lib", "app"}
FileScope == <<"file", 0>>
Untyped == "none"
Bare == "none"

-----------------------------------------------------------------------------
(* The declarations of a file in the order they are written.               *)
Classes(f) == program[f].classes
Functions(f) == program[f].functions
Declaration(at, name, kind, scope, type) ==
    [at |-> at, name |-> name, kind |-> kind, scope |-> scope, type |-> type]
Find(seq, Test(_)) == LET hits == SelectSeq(seq, Test) IN IF hits = <<>> THEN NoDecl ELSE hits[1]
Either(d, e) == IF d # NoDecl THEN d ELSE e

WrittenClass(f, i) ==
    LET c == Classes(f)[i]
    IN  <<Declaration(<<f, "class", i, 0>>, c.name, "class", FileScope, Untyped)>>
        \o [j \in DOMAIN c.members |->
               Declaration(<<f, "member", i, j>>, c.members[j], "function", <<"class", i>>, Untyped)]
WrittenFunction(f, i) ==
    LET g == Functions(f)[i]
    IN  <<Declaration(<<f, "function", i, 0>>, g.name, "function", FileScope, Untyped)>>
        \o [j \in DOMAIN g.locals |->
               Declaration(<<f, "local", i, j>>, g.locals[j].name, "variable",
                           <<"function", i>>, g.locals[j].type)]
Written(f) ==
    FlattenSeq([i \in DOMAIN Classes(f) |-> WrittenClass(f, i)])
    \o FlattenSeq([i \in DOMAIN Functions(f) |-> WrittenFunction(f, i)])

ClassIndex(f, name) ==
    LET hits == {i \in DOMAIN Classes(f) : Classes(f)[i].name = name}
    IN  IF hits = {} THEN 0 ELSE Min(hits)

(* wireInheritance for class i: the class of the name beside it, else a    *)
(* clone of the other file's.                                              *)
Inherited(f, i) ==
    LET name == Classes(f)[i].inherits
        beside == ClassIndex(f, name)
    IN  IF beside \notin {0, i} THEN <<"class", beside>>
        ELSE IF f = "app" /\ ClassIndex("lib", name) # 0 THEN <<"clone", i>>
        ELSE <<"nothing", 0>>

\* cloneRemoteDeclarations: the class's own members and what it inherits.
Cloned(i) ==
    LET k == ClassIndex("lib", Classes("app")[i].inherits)
        originals == SelectSeq(Written("lib"),
                               LAMBDA d : d.scope \in {<<"class", k>>, Inherited("lib", k)})
    IN  [j \in DOMAIN originals |-> [originals[j] EXCEPT !.scope = <<"clone", i>>]]
Clones(f) ==
    FlattenSeq([i \in DOMAIN Classes(f) |->
                   IF Inherited(f, i) = <<"clone", i>> THEN Cloned(i) ELSE <<>>])

-----------------------------------------------------------------------------
(* The references of a file, resolved against its own table.               *)
DeclaredIn(f, name, scope) == Find(tables[f], LAMBDA d : d.name = name /\ d.scope = scope)
MemberOf(f, name, i) ==
    Either(DeclaredIn(f, name, <<"class", i>>), DeclaredIn(f, name, Inherited(f, i)))
NameIn(f, name, scope) ==
    Either(IF scope[1] = "class" THEN MemberOf(f, name, scope[2]) ELSE DeclaredIn(f, name, scope),
           DeclaredIn(f, name, FileScope))

ClassNamed(f, name) == Find(tables[f], LAMBDA d : d.kind = "class" /\ d.name = name)
TypeOf(d) == IF d = NoDecl THEN Untyped ELSE d.type

\* resolvePostfixMember: the receiver by name, its type's class in this file.
ResolvePostfixMember(f, lhs, name, scope) ==
    LET class == ClassNamed(f, TypeOf(NameIn(f, lhs, scope)))
    IN  IF class = NoDecl THEN NoDecl ELSE MemberOf(f, name, class.at[3])

Reference(f, sort, i, j, lhs, name, scope) ==
    [at |-> <<f, sort, i, j>>, name |-> name, lhs |-> lhs, scope |-> scope,
     to |-> IF lhs = Bare THEN NameIn(f, name, scope)
            ELSE ResolvePostfixMember(f, lhs, name, scope)]
ReferencesOf(f) ==
    UNION {{Reference(f, "call", i, j, Bare, Classes(f)[i].calls[j], <<"class", i>>) :
              j \in DOMAIN Classes(f)[i].calls} : i \in DOMAIN Classes(f)}
    \cup UNION {{Reference(f, "use", i, j, Functions(f)[i].uses[j].lhs,
                           Functions(f)[i].uses[j].name, <<"function", i>>) :
                   j \in DOMAIN Functions(f)[i].uses}
                \cup {Reference(f, "type", i, j, Bare, Functions(f)[i].locals[j].type,
                                <<"function", i>>) :
                        j \in {j \in DOMAIN Functions(f)[i].locals :
                                 Functions(f)[i].locals[j].type # Untyped}} :
                  i \in DOMAIN Functions(f)}

TablesBuilt ==
    /\ tables = [f \in RenameFiles |-> Written(f) \o Clones(f)]
    /\ references = [f \in RenameFiles |-> ReferencesOf(f)]

-----------------------------------------------------------------------------
(* query.ts: what a position names, and what refers to a declaration.  An  *)
(* inherit clause is no reference: it names the class of this file it      *)
(* inherits (resolveInheritToClass), or nothing.                           *)
WrittenAt(place) ==
    Find(tables[place[1]], LAMBDA d : d.at = place /\ d.scope[1] # "clone")
Clause(f, i) == <<f, "clause", i, 0>>
GetDefinitionAt(f, place) ==
    LET resolved == {r \in references[f] : r.at = place /\ r.to # NoDecl}
    IN  IF resolved # {} THEN (CHOOSE r \in resolved : TRUE).to
        ELSE IF place = Clause(f, place[3]) THEN ClassNamed(f, Classes(f)[place[3]].inherits)
        ELSE WrittenAt(place)

LhsTypeContainsDecl(f, d, r) ==
    LET receiver == Either(DeclaredIn(f, r.lhs, r.scope), DeclaredIn(f, r.lhs, FileScope))
        class == ClassNamed(f, TypeOf(receiver))
    IN  class # NoDecl => d.scope \in {<<"class", class.at[3]>>, Inherited(f, class.at[3])}
CollectUnresolvedArrowDotRefs(f, d) ==
    {r \in references[f] : /\ r.to = NoDecl /\ r.name = d.name /\ r.lhs # Bare
                           /\ LhsTypeContainsDecl(f, d, r)}
GetReferencesToDecl(f, d) ==
    {r \in references[f] : r.to = d} \cup CollectUnresolvedArrowDotRefs(f, d)

(* workspaceResolution.ts: the references in the declaration's file, and   *)
(* in the file that inherits it those of its name that found nothing.      *)
\* Mutant: all those of its name.
FindMatchingRefsOfName(f, name) == {r \in references[f] : r.name = name}
FindMatchingRefs(f, name) == {r \in references[f] : r.name = name /\ r.to = NoDecl}
GetCrossFileReferences(f, d) ==
    GetReferencesToDecl(f, d) \cup (IF f = "lib" THEN FindMatchingRefs("app", d.name) ELSE {})

-----------------------------------------------------------------------------
(* rename.ts.  The class that owns a member is the first class declared    *)
(* beside its own, the scope of a clone holds none; a receiver is the      *)
(* first variable of its name in its file.                                 *)
FindOwningClass(f, d) ==
    IF d.scope[1] = "class" THEN Find(tables[f], LAMBDA c : c.kind = "class" /\ c.scope = FileScope)
    ELSE NoDecl
ResolveType(f, type) ==
    Either(ClassNamed(f, type), IF f = "app" THEN ClassNamed("lib", type) ELSE NoDecl)
FirstReceiver(f, lhs) == Find(tables[f], LAMBDA v : v.kind = "variable" /\ v.name = lhs)
IsReceiverTypeMatch(r, d, origin) ==
    LET class == ResolveType(r.at[1], TypeOf(FirstReceiver(r.at[1], r.lhs)))
        owning == IF d.kind = "class" THEN d ELSE FindOwningClass(origin, d)
    IN  class = NoDecl \/ owning = NoDecl \/ class.name = owning.name

\* collectRenameLocations, asked from file f for a declaration of its table.
CollectRenameLocations(f, d) ==
    LET owner == d.at[1]
        found == GetCrossFileReferences(owner, WrittenAt(d.at)) \cup GetReferencesToDecl(f, d)
    IN  {d.at} \cup {r.at : r \in {r \in found : r.lhs = Bare \/ IsReceiverTypeMatch(r, d, f)}}

IsProtectedFromRename(d) == d.name \in Protected /\ d.scope = FileScope

\* occurrenceAt: the place is the declaration itself or refers to it by its name.
OccurrenceAt(f, d, place) ==
    d.at = place \/ \E r \in GetReferencesToDecl(f, d) : r.at = place /\ r.name = d.name

\* textDocument/rename, on a name of this file.
RenameAt(f, place) ==
    LET d == GetDefinitionAt(f, place)
    IN  /\ d # NoDecl
        /\ OccurrenceAt(f, d, place)
        /\ ~IsProtectedFromRename(d)
        /\ edited' = [target |-> d.at, asked |-> f, at |-> place,
                      places |-> CollectRenameLocations(f, d)]
        /\ UNCHANGED <<program, tables, references>>

NamesIn(f) ==
    {d.at : d \in ToSet(Written(f))} \cup {r.at : r \in references[f]}
    \cup {Clause(f, i) : i \in {i \in DOMAIN Classes(f) : Classes(f)[i].inherits # "none"}}

RenameInit == edited = NoRename
RenameNext == \E f \in RenameFiles : \E place \in NamesIn(f) : RenameAt(f, place)

-----------------------------------------------------------------------------
(* What a name means in Pike: the innermost declaration that is seen from  *)
(* there, of this file or the one it inherits; behind a receiver the       *)
(* member of its class, or of what that inherits.                          *)
NoPlace == <<"nowhere", "", 0, 0>>
PlaceOr(p, q) == IF p # NoPlace THEN p ELSE q
FirstNamed(seq, name) ==
    LET hits == {i \in DOMAIN seq : seq[i].name = name} IN IF hits = {} THEN 0 ELSE Min(hits)
TopOf(f, name) ==
    LET class == FirstNamed(Classes(f), name)
        function == FirstNamed(Functions(f), name)
    IN  IF class # 0 THEN <<f, "class", class, 0>>
        ELSE IF function # 0 THEN <<f, "function", function, 0>> ELSE NoPlace
TopSeen(f, name) == PlaceOr(TopOf(f, name), IF f = "app" THEN TopOf("lib", name) ELSE NoPlace)

\* A class of a file, the class it inherits, the class that inherits: at most three.
Parent(class) ==
    LET f == class[1]
        name == Classes(f)[class[2]].inherits
        beside == ClassIndex(f, name)
    IN  IF beside \notin {0, class[2]} THEN <<f, beside>>
        ELSE <<"lib", IF f = "app" THEN ClassIndex("lib", name) ELSE 0>>
MemberMeant(class, name) ==
    LET own(c) == LET js == {j \in DOMAIN Classes(c[1])[c[2]].members :
                               Classes(c[1])[c[2]].members[j] = name}
                  IN  IF js = {} THEN NoPlace ELSE <<c[1], "member", c[2], Min(js)>>
        up[n \in 0..2] == IF n = 0 THEN class
                          ELSE IF up[n - 1][2] = 0 THEN up[n - 1] ELSE Parent(up[n - 1])
        found == {n \in 0..2 : up[n][2] # 0 /\ own(up[n]) # NoPlace}
    IN  IF found = {} THEN NoPlace ELSE own(up[Min(found)])

LocalNamed(f, i, name) ==
    LET j == FirstNamed(Functions(f)[i].locals, name)
    IN  IF j = 0 THEN NoPlace ELSE <<f, "local", i, j>>
ReceiverType(f, i, lhs) ==
    LET v == LocalNamed(f, i, lhs)
    IN  IF v = NoPlace THEN Untyped ELSE Functions(f)[i].locals[v[4]].type
MeansOf(r) ==
    LET f == r.at[1] i == r.at[3]
        class == TopSeen(f, ReceiverType(f, i, r.lhs))
    IN  IF r.lhs # Bare
        THEN IF class[2] # "class" THEN NoPlace
             ELSE MemberMeant(<<class[1], class[3]>>, r.name)
        ELSE PlaceOr(IF r.scope[1] = "class" THEN MemberMeant(<<f, i>>, r.name)
                     ELSE LocalNamed(f, i, r.name),
                     TopSeen(f, r.name))

AllReferences == references["lib"] \cup references["app"]
Occurrences(target) == {target} \cup {r.at : r \in {r \in AllReferences : MeansOf(r) = target}}

(* The filter on receivers sees what the reference means: the receiver is  *)
(* the first variable of its name, its class declares the member itself    *)
(* and is the first class of its file.                                     *)
SeenByTheFilter(r, target) ==
    r.lhs # Bare =>
        /\ FirstReceiver(r.at[1], r.lhs).scope = r.scope
        /\ target[3] = 1
        /\ ReceiverType(r.at[1], r.at[3], r.lhs) = Classes(target[1])[1].name

(* A member of lib that a class of app inherits is found from app only.    *)
AskedWhereSeen == edited.asked = "lib" => \A d \in ToSet(tables["app"]) : d.at # edited.target

(* A rename reaches every occurrence the filter on receivers can judge,    *)
(* whatever shadows the name, edits nothing more than places the table of  *)
(* their file left unresolved, and edits the name it was asked on unless   *)
(* that is behind a receiver: no inherit clause is left dangling by a      *)
(* rename asked on it.                                                     *)
RenameErrsOnTheSafeSide ==
    edited # NoRename =>
        /\ \/ edited.at \in edited.places
           \/ \E r \in AllReferences : r.at = edited.at /\ r.lhs # Bare
        /\ \A r \in AllReferences :
              /\ MeansOf(r) = edited.target /\ AskedWhereSeen /\ SeenByTheFilter(r, edited.target)
                   => r.at \in edited.places
              /\ r.at \in edited.places /\ r.to # NoDecl => MeansOf(r) = edited.target

(* A statement the code does not keep.  isReceiverTypeMatch: "When         *)
(* renaming Dog.bark(), we want to include d->bark where d is a Dog, but   *)
(* exclude c->bark where c is a Cat (even if Cat also has bark())."        *)
RenameReachesItsReceivers ==
    edited # NoRename /\ AskedWhereSeen =>
        \A r \in AllReferences :
            r.lhs # Bare /\ MeansOf(r) = edited.target => r.at \in edited.places
=============================================================================
