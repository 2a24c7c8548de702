--------------------------- MODULE TypeHierarchy ---------------------------
(***************************************************************************)
(* The type hierarchy over the tables of Rename: which classes a class     *)
(* inherits and which inherit it, found in opposite directions.  A class   *)
(* is <<file, index>>.  The parents of a class are the wired scopes of its *)
(* own file and, by the name of its inherit clause, a class of this file   *)
(* or of one it depends on; its children are the classes wired to it and,  *)
(* by the same name, those of its file and of the dependents.              *)
(***************************************************************************)
EXTENDS Rename

VARIABLE hierarchy      \* the last answer: [of, parents, children], or NoAnswer

hierarchyVars == hierarchy

NoAnswer == [of |-> <<>>, parents |-> {}, children |-> {}]
ClassesOf(f) == {<<f, i>> : i \in DOMAIN Classes(f)}
AllClasses == ClassesOf("lib") \cup ClassesOf("app")
NameOf(c) == Classes(c[1])[c[2]].name
InheritClause(c) == Classes(c[1])[c[2]].inherits
WiredTo(c) == LET to == Inherited(c[1], c[2]) IN IF to[1] = "class" THEN {<<c[1], to[2]>>} ELSE {}
DependsOn(f, g) == f = "app" /\ g = "lib"

(* getSupertypes: the wired class, and for the clause the best-ranked of   *)
(* the first class of its name in each file; the two are one when they are *)
(* at the same place.                                                      *)
CandidatesFor(c) ==
    {d \in AllClasses : d[2] = ClassIndex(d[1], InheritClause(c))}
CollectCrossFileSupertypes(c) ==
    LET own == {d \in CandidatesFor(c) : d[1] = c[1]}
        reached == {d \in CandidatesFor(c) : DependsOn(c[1], d[1])}
    IN  IF own # {} THEN own ELSE reached
GetSupertypes(c) == WiredTo(c) \cup CollectCrossFileSupertypes(c)

(* getSubtypes: by the classes wired to one of this name, where either is  *)
(* of the class's own file, and by the names of the inherit clauses of its *)
(* file and of those that depend on it.                                    *)
CheckInheritedScopesForTarget(c, d) ==
    \E p \in WiredTo(d) : /\ NameOf(p) = NameOf(c) /\ p # d
                          /\ p[1] = c[1] \/ d[1] = c[1]
\* Mutant: every file's clauses, whether it depends on the class's file or not.
CheckInheritDeclarationsAnywhere(c, d) == InheritClause(d) = NameOf(c)
CheckInheritDeclarationsForTarget(c, d) ==
    /\ d[1] = c[1] \/ DependsOn(d[1], c[1])
    /\ InheritClause(d) = NameOf(c)
GetSubtypes(c) ==
    {d \in AllClasses : CheckInheritedScopesForTarget(c, d)
                        \/ CheckInheritDeclarationsForTarget(c, d)}

HierarchyInit == hierarchy = NoAnswer

\* typeHierarchy/supertypes and typeHierarchy/subtypes of one class.
AskHierarchy(c) ==
    /\ hierarchy' = [of |-> c, parents |-> GetSupertypes(c), children |-> GetSubtypes(c)]
    /\ UNCHANGED renameVars

HierarchyNext == \E c \in AllClasses : AskHierarchy(c)

HierarchySpec == HierarchyInit /\ [][HierarchyNext]_<<renameVars, hierarchyVars>>

-----------------------------------------------------------------------------
(* The parent Pike gives a class, if it has one. *)
ParentsOf(c) == {p \in AllClasses : Parent(c) = p}

(* Inherit clauses are followed by name: no class has the name of one of   *)
(* the file it inherits, none inherits its own.                            *)
NamesApart ==
    \A c \in AllClasses : /\ InheritClause(c) # NameOf(c)
                          /\ \A d \in AllClasses : DependsOn(c[1], d[1]) => NameOf(c) # NameOf(d)

(* The two directions agree with each other and with what Pike inherits:   *)
(* parents are the classes a class inherits, children those that inherit   *)
(* it, though one is found by rank and the other by dependents.            *)
HierarchyIsMutual ==
    hierarchy # NoAnswer /\ NamesApart =>
        /\ hierarchy.parents = ParentsOf(hierarchy.of)
        /\ hierarchy.children = {d \in AllClasses : hierarchy.of \in ParentsOf(d)}

(* A statement the code does not keep.  checkInheritDeclarationsForTarget: *)
(* it has to depend on the target, "otherwise a `Dog` inheriting a         *)
(* same-named `Animal` from somewhere else was reported as a subtype of    *)
(* this one."                                                              *)
ChildrenInheritTheClass ==
    \A d \in hierarchy.children : hierarchy.of \in ParentsOf(d)
=============================================================================
