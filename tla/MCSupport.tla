----------------------------- MODULE MCSupport -----------------------------
(***************************************************************************)
(* Seven parts of the server, each in a small instance; the last two share *)
(* the symbol tables of two files.                                         *)
(* A behaviour is one of one part; the others stay where they start.       *)
(***************************************************************************)
EXTENDS TreeCache, CrossFileResolution, SemanticTokens, SymbolScopes, ModuleResolver, TypeHierarchy

VARIABLE part

Parts == {"trees", "resolution", "tokens", "scopes", "modules", "rename", "hierarchy"}
vars == <<part, treeVars, resolutionVars, tokenVars, scopeVars, resolverVars, renameVars, hierarchyVars>>

(* Documents of one and two units, of which the cache takes three. *)
MCBytes == [t \in Texts |-> IF t = "one" THEN 1 ELSE 2]

(* c is the module.pmod of the directory a and b are in. *)
MCDirModule == ("a" :> "c" @@ "b" :> "c" @@ "c" :> "none")
MCTables == [inherits : {<<>>, <<"a">>, <<"b">>, <<"c">>, <<"b", "c">>},
             declares : BOOLEAN]

MCArrays == {<<>>, <<1>>, <<1, 1>>, <<1, 2, 1>>, <<2, 1>>, <<1, 1, 1>>}

(* Three classes in a file that inherits another, in which F inherits G.   *)
(* Two may inherit one before them, themselves, or F; x is declared        *)
(* at any level, also after its uses and in a loop that is the whole body. *)
Node(type, name, start, end, children) ==
    [type |-> type, name |-> name, start |-> start, end |-> end, children |-> children]
Leaf(type, name, start) == Node(type, name, start, start + 1, <<>>)
X(start, on) == IF on THEN <<Leaf("variable", "x", start)>> ELSE <<>>
InheritOf(name, start) == IF name = "none" THEN <<>> ELSE <<Leaf("inherit", name, start)>>
Method(where) ==
    Node("function", "m", 16, 34,
         (IF where = "parameter" THEN <<Leaf("parameter", "x", 17)>> ELSE <<>>)
         \o <<Node("block", "", 20, 30, <<Node("for", "", 20, 30, X(21, where = "loop"))>>)>>
         \o X(32, where = "after"))
MCSources ==
    {Node("file", "", 0, 40, X(0, inFile) \o
        <<Node("class", "A", 2, 6, X(4, TRUE)),
          Node("class", "B", 8, 12, InheritOf(byB, 8) \o X(10, inB)),
          Node("class", "C", 14, 38,
               InheritOf(byC, 14) \o <<Method(inC)>> \o X(36, inC = "member"))>>) :
        inFile \in BOOLEAN, inB \in BOOLEAN,
        byB \in {"none", "A", "B", "F"}, byC \in {"none", "B", "F"},
        inC \in {"none", "parameter", "loop", "after", "member"}}
OtherFileAt(offset) ==
    Node("file", "", 0, offset + 20,
         <<Node("class", "G", offset, offset + 5, X(offset + 2, TRUE)),
           Node("class", "F", offset + 8, offset + 16, InheritOf("G", offset + 9))>>)
(* The other file's classes lie further down than this file reaches, or at *)
(* the same offsets as its method.                                         *)
MCOtherBelow == OtherFileAt(50)
MCOtherAcross == OtherFileAt(12)

(* A workspace ws with a directory module Lib, and the system's modules.   *)
Pike(n) == <<n, "pike">>
Pmod(n) == <<n, "pmod">>
Dir(n) == <<n, "">>
InSys == <<Dir("sys"), Pmod("a-b")>>
InWs == <<Dir("ws"), Pike("a_b")>>
InLib == <<Dir("ws"), Pmod("Lib"), Pike("a-b")>>
MCImporters == {<<Dir("ws"), Pike("main")>>, <<Dir("ws"), Pmod("Lib"), Pike("part")>>}
MCModulePaths == <<<<Dir("ws")>>, <<Dir("sys")>>>>
MCProgramPaths == <<<<Dir("sys")>>, <<Dir("ws")>>>>
MCUnderscored == "a-b" :> "a_b" @@ "Lib" :> "Lib"
MCDisks == {{InSys, InWs, InLib}, {InWs, <<Dir("ws"), Pmod("Lib"), Pmod("module")>>}}
MCRenames == {<<InWs, <<Dir("ws"), Pmod("a-b")>>>>}
MCClauseSets ==
    {{Module(FALSE, <<"a-b">>)},
     {Module(FALSE, <<"Lib", "a-b">>)},
     {[kind |-> "string", relative |-> FALSE, up |-> 0, steps |-> <<Dir("a-b")>>]},
     {[kind |-> "string", relative |-> TRUE, up |-> 1, steps |-> <<Pike("a_b")>>]},
     {[kind |-> "include", relative |-> FALSE, up |-> 0, steps |-> <<Pike("a_b")>>]}}

(* A library with one or two classes that declare m, maybe a function m,   *)
(* and two receivers called d; a file that inherits it, with a class that  *)
(* may inherit Dog and a function that may shadow m.                       *)
ClassOf(name, members, inherits, calls) ==
    [name |-> name, members |-> members, inherits |-> inherits, calls |-> calls]
FunctionOf(name, locals, uses) == [name |-> name, locals |-> locals, uses |-> uses]
Var(name, type) == [name |-> name, type |-> type]
Use(lhs, name) == [lhs |-> lhs, name |-> name]
Maybe(on, item) == IF on THEN <<item>> ELSE <<>>
NoProgram == [f \in RenameFiles |-> [classes |-> <<>>, functions |-> <<>>]]
MCLibrary(classes, top, type) ==
    [classes |-> classes,
     functions |-> Maybe(top, FunctionOf("m", <<>>, <<>>)) \o
         <<FunctionOf("f", <<Var("d", type)>>, <<Use("d", "m"), Use("none", "m")>>),
           FunctionOf("e", <<Var("d", "Cat"), Var("n", "Dog")>>, <<Use("d", "m")>>)>>]
MCApplication(puppy, top, type, shadow) ==
    [classes |-> puppy,
     functions |-> Maybe(top, FunctionOf("m", <<>>, <<>>)) \o
         <<FunctionOf("g", <<Var("c", type)>> \o Maybe(shadow, Var("m", "none")),
                      <<Use("c", "m"), Use("none", "m")>>)>>]
MCLibClasses ==
    {<<ClassOf("Dog", <<"m">>, "none", <<"m">>)>>,
     <<ClassOf("Dog", <<"m">>, "none", <<>>), ClassOf("Cat", <<"m">>, "none", <<"m">>)>>,
     <<ClassOf("Cat", <<"m">>, "none", <<>>), ClassOf("Dog", <<>>, "Cat", <<"m">>)>>}
MCAppClasses ==
    {<<>>} \cup {<<ClassOf("Puppy", members, "Dog", <<"m">>)>> : members \in {<<>>, <<"m">>}}
MCPrograms ==
    {[lib |-> MCLibrary(classes, libTop, libType), app |-> MCApplication(puppy, top, type, shadow)] :
       classes \in MCLibClasses, libTop \in BOOLEAN, libType \in {"Dog", "Cat"},
       puppy \in MCAppClasses, top \in BOOLEAN, shadow \in BOOLEAN,
       type \in {"none", "Dog", "Cat", "Puppy"}}

(* Families of three classes, of which each may inherit any or a stranger, *)
(* in the library, in the application or divided between them.             *)
Family(names, parents) ==
    [i \in DOMAIN names |-> ClassOf(names[i], <<>>, parents[i], <<>>)]
MCParents == {"none", "Cat", "Dog", "Pup", "Cow"}
MCFamilies ==
    {[lib |-> [classes |-> Family(SubSeq(names, 1, n), SubSeq(parents, 1, n)), functions |-> <<>>],
      app |-> [classes |-> Family(SubSeq(names, n + 1, 3), SubSeq(parents, n + 1, 3)),
               functions |-> <<>>]] :
       names \in {<<"Cat", "Dog", "Pup">>, <<"Dog", "Pup", "Dog">>},
       parents \in [1..3 -> MCParents], n \in 1..2}

-----------------------------------------------------------------------------
(* What is not under study is as small as it can be. *)
Init ==
    /\ part \in Parts
    /\ part # "scopes" => source = Node("file", "", 0, 1, <<>>)
    /\ part = "scopes" => source \in Sources
    /\ ScopesBuilt(IF part = "scopes" THEN Other ELSE source)
    /\ part \notin {"rename", "hierarchy"} => program = NoProgram
    /\ part = "rename" => program \in MCPrograms
    /\ part = "hierarchy" => program \in MCFamilies
    /\ TablesBuilt
    /\ RenameInit
    /\ HierarchyInit
    /\ part # "modules" => files = {}
    /\ part = "modules" => files \in Disks
    /\ ResolverInit
    /\ part # "tokens" => tokens = <<>>
    /\ TokensInit
    /\ TreeInit
    /\ part # "resolution" => disk = [f \in Files |-> [inherits |-> <<>>, declares |-> FALSE]]
    /\ part # "resolution" => table = disk
    /\ ResolutionInit
    /\ part # "resolution" => request.qualifier = "all"

Step(p) == part = p /\ UNCHANGED part
NoSymbols == UNCHANGED <<renameVars, hierarchyVars>>
TreesStep ==
    Step("trees") /\ TreeNext
    /\ UNCHANGED <<resolutionVars, tokenVars, scopeVars, resolverVars>> /\ NoSymbols
ResolutionStep ==
    Step("resolution") /\ ResolutionNext
    /\ UNCHANGED <<treeVars, tokenVars, scopeVars, resolverVars>> /\ NoSymbols
TokensStep ==
    Step("tokens") /\ TokensNext
    /\ UNCHANGED <<treeVars, resolutionVars, scopeVars, resolverVars>> /\ NoSymbols
ScopesStep ==
    Step("scopes") /\ ScopesNext
    /\ UNCHANGED <<treeVars, resolutionVars, tokenVars, resolverVars>> /\ NoSymbols
ModulesStep ==
    Step("modules") /\ ResolverNext
    /\ UNCHANGED <<treeVars, resolutionVars, tokenVars, scopeVars>> /\ NoSymbols
SymbolsStep ==
    /\ UNCHANGED <<treeVars, resolutionVars, tokenVars, scopeVars, resolverVars>>
    /\ \/ Step("rename") /\ RenameNext /\ UNCHANGED hierarchyVars
       \/ Step("hierarchy") /\ HierarchyNext

Next ==
    \/ TreesStep
    \/ ResolutionStep
    \/ TokensStep
    \/ ScopesStep
    \/ ModulesStep
    \/ SymbolsStep

Spec == Init /\ [][Next]_vars

-----------------------------------------------------------------------------
(* The scope properties, for the one name declared at every level. *)

(* A reference to x, anywhere, resolves to what the innermost scope around *)
(* it that knows x means by it (resolveName against the tree's own sense). *)
XResolvesInnermost == NamesResolveInnermost("x")

(* A statement the code does not keep.  isWrittenInFile (query.ts): "only  *)
(* queries that ask 'what is written at this position' must exclude        *)
(* clones".  Completion behind an x offers the x that resolveName would    *)
(* give it; findScopeAtPosition takes a clone for the scope at the cursor  *)
(* when their offsets meet.                                                *)
XIsOfferedAsResolved == CompletionOffersWhatResolves("x")
=============================================================================
