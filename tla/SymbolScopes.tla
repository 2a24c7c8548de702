--------------------------- MODULE SymbolScopes ---------------------------
(***************************************************************************)
(* The scopes of a Pike file: the declaration pass that builds them from   *)
(* the syntax tree, wireInheritance, which adds to them the classes of     *)
(* another file, and the two searches that must agree about the result:    *)
(* resolveName for a reference and getSymbolsInScope for completion.       *)
(* Positions are offsets.  A node is [type, name, start, end, children].   *)
(***************************************************************************)
EXTENDS Integers, Sequences, FiniteSets, TLC, SequencesExt

CONSTANTS
    Sources,     \* syntax trees of the file
    Other        \* syntax tree of the file its file scope inherits

VARIABLES
    source,      \* the tree under analysis
    symbols,     \* [nextId, scopes, decls]: the symbol table
    written,     \* state.sortedScopes: the scopes of the file itself, sorted
    wiring,      \* the scope wireInheritance comes to next
    otherTable   \* the symbol table of the other file

scopeVars == <<source, symbols, written, wiring, otherTable>>

None == -1

-----------------------------------------------------------------------------
(* scope-helpers-state.ts: scopes and declarations share one counter.      *)
PushScope(t, parent, n) ==
    [t EXCEPT !.nextId = @ + 1,
              !.scopes = Append(@, [id |-> t.nextId, kind |-> n.type, start |-> n.start,
                                    end |-> n.end, parent |-> parent,
                                    decls |-> <<>>, inherited |-> <<>>])]

AddDeclaration(t, scope, d) ==
    [t EXCEPT !.nextId = @ + 1,
              !.decls = Append(@, d @@ [id |-> t.nextId, scope |-> scope]),
              !.scopes = [i \in DOMAIN @ |->
                            IF @[i].id = scope THEN [@[i] EXCEPT !.decls = Append(@, t.nextId)]
                            ELSE @[i]]]

Declared(n, foreign) ==
    [name |-> n.name, kind |-> n.type, start |-> n.start, end |-> n.end, foreign |-> foreign]

(* collectDeclarations: a class or a function is declared where it stands  *)
(* and opens a scope, a statement with a body only opens one, the rest is  *)
(* declared in the current scope.                                          *)
RECURSIVE Collect(_, _, _)
CollectAll(t, scope, nodes) ==
    FoldLeft(LAMBDA acc, n : Collect(acc, scope, n), t, nodes)
Collect(t, scope, n) ==
    LET named == n.type \in {"class", "function", "variable", "parameter", "inherit"}
        opens == n.type \in {"class", "function", "block", "for"}
        t1 == IF named THEN AddDeclaration(t, scope, Declared(n, FALSE)) ELSE t
    IN  IF opens THEN CollectAll(PushScope(t1, scope, n), t1.nextId, n.children) ELSE t1

DeclarationPass(root) ==
    CollectAll(PushScope([nextId |-> 0, scopes |-> <<>>, decls |-> <<>>], None, root),
               0, root.children)

SortScopesByStart(scopes) == SortSeq(scopes, LAMBDA x, y : x.start < y.start)

Scope(t, id) == t.scopes[CHOOSE i \in DOMAIN t.scopes : t.scopes[i].id = id]
Decl(t, id) == t.decls[CHOOSE i \in DOMAIN t.decls : t.decls[i].id = id]
DeclsOf(t, scope) == [i \in DOMAIN scope.decls |-> Decl(t, scope.decls[i])]
First(seq, Test(_)) == LET hits == SelectSeq(seq, Test) IN IF hits = <<>> THEN None ELSE hits[1].id
ContainsRange(outer, inner) == outer.start <= inner.start /\ inner.end <= outer.end

-----------------------------------------------------------------------------
(* wireLocalInheritance: a class beside the inheriting one, by its name.   *)
(* The answer is the scope's id.                                           *)
ClassScopeOf(t, parent, decl) ==
    First(t.scopes, LAMBDA s : s.kind = "class" /\ s.parent = parent /\ ContainsRange(s, decl))
LocalTarget(t, scope, inherit) ==
    LET beside == DeclsOf(t, Scope(t, scope.parent))
        other(d) == LET id == ClassScopeOf(t, scope.parent, d) IN id # None /\ id # scope.id
        hits == SelectSeq(beside, LAMBDA d : /\ d.kind = "class" /\ d.name = inherit.name
                                             /\ other(d))
    IN  IF hits = <<>> THEN None ELSE ClassScopeOf(t, scope.parent, hits[1])

Inherits(t, scope) == SelectSeq(DeclsOf(t, scope), LAMBDA d : d.kind = "inherit")
AddInherited(t, id, target) ==
    [t EXCEPT !.scopes = [i \in DOMAIN @ |->
        IF @[i].id = id THEN [@[i] EXCEPT !.inherited = Append(@, target)] ELSE @[i]]]

(* A file built and wired on its own.                                      *)
TableOf(root) ==
    LET built == DeclarationPass(root)
        wire(t, i) ==
            LET s == t.scopes[i]
                one(acc, d) == LET id == LocalTarget(acc, s, d)
                               IN  IF id = None THEN acc ELSE AddInherited(acc, s.id, id)
            IN  IF s.kind = "class" THEN FoldLeft(one, t, Inherits(t, s)) ELSE t
    IN  FoldLeft(wire, built, [i \in DOMAIN built.scopes |-> i])

(* findTargetClassScope: the first class of the name, anywhere in the file *)
OtherTarget(name) ==
    LET classes == SelectSeq(otherTable.decls, LAMBDA d : d.kind = "class" /\ d.name = name)
    IN  IF classes = <<>> THEN None
        ELSE ClassScopeOf(otherTable, classes[1].scope, classes[1])

CloneDecls(t, into, from) ==
    FoldLeft(LAMBDA acc, d : AddDeclaration(acc, into, [name |-> d.name, kind |-> d.kind,
                                 start |-> d.start, end |-> d.end, foreign |-> TRUE]),
             t, DeclsOf(otherTable, from))

(* createSyntheticScope: a class scope standing for one of the other file, *)
(* with its declarations and those of the scopes it inherits, and under it *)
(* a scope for each of these in turn.  Its range is the other file's.      *)
RECURSIVE CreateSyntheticScope(_, _, _)
CreateSyntheticScope(t, parent, target) ==
    LET from == Scope(otherTable, target)
        id == t.nextId
        cloned == FoldLeft(LAMBDA acc, s : CloneDecls(acc, id, Scope(otherTable, s)),
                           CloneDecls([t EXCEPT !.nextId = @ + 1], id, from), from.inherited)
        nested == FoldLeft(LAMBDA acc, s : [table |-> CreateSyntheticScope(acc.table, id, s),
                                            ids |-> Append(acc.ids, acc.table.nextId)],
                           [table |-> cloned, ids |-> <<>>], from.inherited)
    IN  [nested.table EXCEPT !.scopes =
            Append(@, [id |-> id, kind |-> "class", start |-> from.start, end |-> from.end,
                       parent |-> parent, inherited |-> nested.ids,
                       decls |-> [i \in 1..(cloned.nextId - id - 1) |-> id + i]])]

(* The body of wireInheritance's loop.  The loop runs over the table it    *)
(* adds scopes to, so it comes to the ones it has added.                   *)
WireOne(t, scope, inherit) ==
    LET here == LocalTarget(t, scope, inherit)
        there == OtherTarget(inherit.name)
    IN  IF here # None THEN AddInherited(t, scope.id, here)
        ELSE IF there = None THEN t
        ELSE AddInherited(CreateSyntheticScope(t, scope.id, there), scope.id, t.nextId)

ScopesBuilt(other) ==
    /\ symbols = DeclarationPass(source)
    /\ written = SortScopesByStart(symbols.scopes)
    /\ wiring = 1
    /\ otherTable = TableOf(other)

ScopesInit == source \in Sources /\ ScopesBuilt(Other)

WireScope ==
    /\ wiring <= Len(symbols.scopes)
    /\ LET s == symbols.scopes[wiring]
       IN  symbols' = IF s.kind # "class" THEN symbols
                      ELSE FoldLeft(LAMBDA acc, d : WireOne(acc, s, d),
                                    symbols, Inherits(symbols, s))
    /\ wiring' = wiring + 1
    /\ UNCHANGED <<source, written, otherTable>>

ScopesNext == WireScope
Wired == wiring > Len(symbols.scopes)

-----------------------------------------------------------------------------
(* findScopeForNode: a binary search for the last scope that starts early  *)
(* enough, then the smallest one before it that reaches far enough.        *)
RECURSIVE LastCandidate(_, _, _, _)
LastCandidate(p, lo, hi, best) ==
    LET mid == (lo + hi) \div 2
    IN  IF lo > hi THEN best
        ELSE IF written[mid].start <= p THEN LastCandidate(p, mid + 1, hi, mid)
        ELSE LastCandidate(p, lo, mid - 1, best)

RangeSize(s) == s.end - s.start
SmallerOldest(s, z) == RangeSize(s) < RangeSize(z) \/ (RangeSize(s) = RangeSize(z) /\ s.id < z.id)
Smaller(s, z) == RangeSize(s) < RangeSize(z) \/ (RangeSize(s) = RangeSize(z) /\ s.id > z.id)
Innermost(S) == IF S = {} THEN None
                ELSE (CHOOSE s \in S : \A z \in S \ {s} : Smaller(s, z)).id
FindScopeForNode(p, e) ==
    Innermost({written[i] : i \in {j \in 1..LastCandidate(p, 1, Len(written), 0) :
                                     written[j].end >= e}})

FirstOf(ids) ==
    LET found == SelectSeq(ids, LAMBDA d : d # None) IN IF found = <<>> THEN None ELSE found[1]

RECURSIVE FindDeclInScope(_, _)
FindDeclInScope(name, id) ==
    LET s == Scope(symbols, id)
    IN  FirstOf(<<First(DeclsOf(symbols, s), LAMBDA d : d.name = name)>>
                \o [i \in DOMAIN s.inherited |-> FindDeclInScope(name, s.inherited[i])])

DeclIsVisible(d, s, p) == s.kind \in {"class", "file"} \/ d.kind = "parameter" \/ d.start <= p

(* The walk both searches make: scope by scope outwards, the declarations  *)
(* of a scope first, then what a class inherits.                           *)
RECURSIVE Outwards(_)
Outwards(id) ==
    IF id = None THEN <<>>
    ELSE LET s == Scope(symbols, id) IN <<s>> \o Outwards(s.parent)
Ids == {s.id : s \in ToSet(symbols.scopes)}
Walk(id, own, inherited) ==
    LET chain == Outwards(id)
        found(s) == FirstOf(<<own[s.id]>> \o IF s.kind # "class" THEN <<>>
                                ELSE [i \in DOMAIN s.inherited |-> inherited[s.inherited[i]]])
    IN  FirstOf([i \in DOMAIN chain |-> found(chain[i])])

ResolveName(name, p) ==
    Walk(FindScopeForNode(p, p + 1),
         [id \in Ids |-> LET s == Scope(symbols, id)
                         IN  First(DeclsOf(symbols, s),
                                   LAMBDA d : d.name = name /\ DeclIsVisible(d, s, p))],
         [id \in Ids |-> FindDeclInScope(name, id)])

FindScopeAtPosition(c) ==
    Innermost({s \in ToSet(symbols.scopes) : s.start <= c /\ c <= s.end})

(* What getSymbolsInScope offers for a name with the cursor at c: inherits *)
(* are no symbols, and an inherited scope is not followed any further.     *)
Offers(name, d) == d.name = name /\ d.kind # "inherit"
Offered(name, c) ==
    Walk(FindScopeAtPosition(c),
         [id \in Ids |-> LET s == Scope(symbols, id)
                         IN  First(DeclsOf(symbols, s),
                                   LAMBDA d : Offers(name, d) /\ DeclIsVisible(d, s, c))],
         [id \in Ids |-> First(DeclsOf(symbols, Scope(symbols, id)), LAMBDA d : Offers(name, d))])

-----------------------------------------------------------------------------
(* What a name means, from the trees' declarations alone.  A class is a    *)
(* scope of this file or of the other one; it inherits the class written   *)
(* beside it, or else the other file's, and all that these inherit.        *)
Beside(scopes, decls, c, name) ==
    {k \in scopes : /\ k.kind = "class" /\ k.parent = c.parent /\ k.id # c.id
                    /\ \E d \in decls : d.kind = "class" /\ d.name = name /\ d.start = k.start}
Here == ToSet(written)
HereDecls == {d \in ToSet(symbols.decls) : ~d.foreign}
There == ToSet(otherTable.scopes)
ThereDecls == ToSet(otherTable.decls)
InheritNames(decls, c) == {d.name : d \in {e \in decls : e.scope = c.id /\ e.kind = "inherit"}}
ParentsThere(c) == UNION {Beside(There, ThereDecls, c, n) : n \in InheritNames(ThereDecls, c)}
AncestorsThere(S) ==
    LET up[n \in 0..Cardinality(There)] ==
            IF n = 0 THEN S ELSE up[n - 1] \cup UNION {ParentsThere(c) : c \in up[n - 1]}
    IN  up[Cardinality(There)]
ParentsHere(c) == UNION {Beside(Here, HereDecls, c, n) : n \in InheritNames(HereDecls, c)}
AncestorsHere(c) ==
    LET up[n \in 0..Cardinality(Here)] ==
            IF n = 0 THEN ParentsHere(c) ELSE up[n - 1] \cup UNION {ParentsHere(k) : k \in up[n - 1]}
    IN  up[Cardinality(Here)]
FromThere(classes) ==
    {k \in There : k.kind = "class" /\ \E c \in classes : \E n \in InheritNames(HereDecls, c) :
        Beside(Here, HereDecls, c, n) = {} /\ \E d \in ThereDecls : d.name = n /\ d.start = k.start}

Named(decls, scopes, name) ==
    {<<d.start, d.kind>> : d \in {e \in decls : e.name = name /\ \E s \in scopes : e.scope = s.id}}
OwnOf(s, name, p) ==
    {<<d.start, d.kind>> : d \in {e \in HereDecls : e.name = name /\ e.scope = s.id
                                                   /\ DeclIsVisible(e, s, p)}}
InheritedOf(s, name) ==
    IF s.kind # "class" THEN [here |-> {}, there |-> {}]
    ELSE [here |-> Named(HereDecls, AncestorsHere(s), name),
          there |-> Named(ThereDecls, AncestorsThere(FromThere({s} \cup AncestorsHere(s))), name)]
IsMeant(d, s, name, p) ==
    IF OwnOf(s, name, p) # {} THEN ~d.foreign /\ <<d.start, d.kind>> \in OwnOf(s, name, p)
    ELSE <<d.start, d.kind>> \in IF d.foreign THEN InheritedOf(s, name).there
                                  ELSE InheritedOf(s, name).here
Means(s, name, p) == \/ OwnOf(s, name, p) # {}
                     \/ InheritedOf(s, name) # [here |-> {}, there |-> {}]

(* A reference is a token of its own: what comes after it is not glued on. *)
References == {p \in source.start..(source.end - 1) :
                 \A n \in Here \cup HereDecls : n.start # p + 1}

(* A reference resolves to what the innermost scope around it that knows   *)
(* the name means by it, its own declarations before inherited ones, and   *)
(* to nothing when no scope knows it: the binary search, the size and tie  *)
(* rules and the cloned classes of the other file lose and add nothing.    *)
NamesResolveInnermost(name) ==
    wiring > Len(symbols.scopes) => \A p \in References :
        LET around == {s \in Here : s.start <= p /\ p + 1 <= s.end}
            knowing == {s \in around : Means(s, name, p)}
            id == ResolveName(name, p)
        IN  IF knowing = {} THEN id = None
            ELSE /\ id # None
                 /\ \E s \in knowing : /\ \A z \in knowing : z.id <= s.id
                                       /\ IsMeant(Decl(symbols, id), s, name, p)

(* Completion right after a name offers the declaration the name resolves  *)
(* to, and nothing under a name that resolves to nothing; what it takes    *)
(* two local inherits to reach it misses.                                  *)
CompletionOffersWhatResolves(name) ==
    wiring > Len(symbols.scopes) => \A p \in References :
        LET id == ResolveName(name, p)
            chain == Outwards(FindScopeForNode(p, p + 1))
            near == UNION {{s.id} \cup ToSet(s.inherited) : s \in ToSet(chain)}
        IN  IF id = None THEN Offered(name, p + 1) = None
            ELSE Decl(symbols, id).scope \in near => Offered(name, p + 1) = id
=============================================================================
