------------------------------ MODULE MCDocuments ------------------------------
\* Instances of DocumentIndexing: the files, what they contain and import.
EXTENDS DocumentIndexing

CONSTANTS a, b, c, old, new

OneText == {old}
TwoTexts == {old, new}
Pair == {a, b}
JustA == {a}
Trio == {a, b, c}
\* The instance is the same with the two files swapped.
Swap == Permutations(Pair)

\* a imports b, whatever they contain.
AImportsB == [ft \in Files \X Texts |-> IF ft[1] = a THEN {b} ELSE {}]

\* The new text of a no longer imports b.
ADropsB == [ft \in Files \X Texts |-> IF ft = <<a, old>> THEN {b} ELSE {}]

\* a and b import each other.
Cycle == [ft \in Files \X Texts |-> IF ft[1] = a THEN {b} ELSE {a}]

\* a imports b, which imports c, which imports b.
Chain == [ft \in Files \X Texts |-> CASE ft[1] = a -> {b} [] ft[1] = b -> {c} [] OTHER -> {b}]

\* Bound: how many upserts, resolutions, walks and changed files are under way.
AtMostThree ==
  Cardinality(DOMAIN upserts) + Cardinality(resolving) + Cardinality(DOMAIN closures)
    + Cardinality(DOMAIN watched) + Cardinality(notices) <= 3

(*****************************************************************************)
(* Statements the code does not keep                                         *)
(*****************************************************************************)

\* "For a file the user has open that is not a delay, it is a wrong answer":
\* the index holds every open document, with the text of its buffer.
\* restoreLiveEntries.ts:14-19
RestHoldsBuffer ==
  AtRest => \A f \in Files : IsOpen(f) => Has(ix, f) /\ ix.files[f].text = buffer[f].text

\* "Open documents are authoritative. Returning an older indexed table for the
\* current document lets semantic token ranges from a previous edit get cached
\* under the new version": at rest, an entry of the version of an open document
\* holds its text.  serverContext.ts:411-414
OpenDocumentsAreAuthoritative ==
  AtRest => \A f \in DOMAIN ix.files :
    IsOpen(f) /\ ix.files[f].version = buffer[f].version => ix.files[f].text = buffer[f].text

\* Indexing a file invalidates every dependent built without it: at rest no
\* current entry lacks what an indexed dependency declares.
\* dependentsInvalidator.ts:4-8
RestIsWired ==
  AtRest => \A f \in Files : IsOpen(f) /\ GetSymbolTable(ix, f) # NoTable =>
    \A d \in Imports[<<f, ix.files[f].text>>] :
      GetSymbolTable(ix, d) # NoTable => <<d, ix.files[d].text>> \in GetSymbolTable(ix, f)
================================================================================
