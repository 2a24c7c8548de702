--------------------------- MODULE SemanticTokens ---------------------------
(***************************************************************************)
(* Semantic tokens in full and as deltas (handleSemanticTokensFull and     *)
(* handleSemanticTokensDelta of navigationDocumentFeatures.ts, and         *)
(* semanticTokensDelta.ts).  One document; its text stands for the integer *)
(* array its tokens encode to.  Answers are built after awaits, in any     *)
(* order, and an editor that has asked again drops the answer.             *)
(***************************************************************************)
EXTENDS Integers, Sequences, FiniteSets, SequencesExt

CONSTANTS
    Arrays,     \* the encoded tokens the document may have
    MaxIds,     \* bound: answers
    MaxPending  \* bound: requests under way

ASSUME TokensAssumption ==
    /\ Arrays \subseteq Seq(Int)
    /\ MaxIds \in Nat /\ MaxPending \in Nat

VARIABLES
    tokens,     \* what the text of the document encodes to
    counter,    \* semanticTokensResultCounter
    cached,     \* the document's entry of semanticTokensCache
    asked,      \* the requests the server is building answers to
    client,     \* what the editor shows, and under which id
    sent        \* history: what each id stands for

tokenVars == <<tokens, counter, cached, asked, client, sent>>

NoId == 0
Nowhere == [id |-> NoId, data |-> <<>>]

TokensInit ==
    /\ tokens \in Arrays /\ counter = 0
    /\ cached = Nowhere /\ client = Nowhere
    /\ asked = {} /\ sent = <<>>

-----------------------------------------------------------------------------
(* diffSemanticTokens: one edit between the common prefix and the common   *)
(* suffix of what is left.                                                 *)
CommonPrefix(a, b) == LongestCommonPrefix({a, b})
Rest(a, n) == SubSeq(a, n + 1, Len(a))
DiffOverlapping(a, b) ==
    LET prefix == Len(CommonPrefix(a, b))
        suffix == Len(CommonPrefix(Reverse(a), Reverse(b)))
    IN  IF a = b THEN <<>>
        ELSE <<[start |-> prefix, delete |-> Len(a) - prefix - suffix,
                data |-> SubSeq(b, prefix + 1, Len(b) - suffix)]>>
DiffSemanticTokens(a, b) ==
    LET prefix == Len(CommonPrefix(a, b))
        suffix == Len(CommonPrefix(Reverse(Rest(a, prefix)), Reverse(Rest(b, prefix))))
    IN  IF a = b THEN <<>>
        ELSE <<[start |-> prefix, delete |-> Len(a) - prefix - suffix,
                data |-> SubSeq(b, prefix + 1, Len(b) - suffix)]>>

(* The editor splices the edit into the array it holds. *)
Apply(a, edits) ==
    IF edits = <<>> THEN a
    ELSE SubSeq(a, 1, edits[1].start) \o edits[1].data
           \o SubSeq(a, edits[1].start + edits[1].delete + 1, Len(a))

CanDiff(request) == cached.id # NoId /\ cached.id = request.prev

-----------------------------------------------------------------------------
EditText(a) ==
    /\ a # tokens /\ tokens' = a
    /\ UNCHANGED <<counter, cached, asked, client, sent>>

(* The editor asks, naming the id it holds (a full request names none) and *)
(* dropping whatever it was still waiting for.                             *)
Ask(prev) ==
    /\ prev \in {NoId, client.id}
    /\ Cardinality(asked) < MaxPending /\ counter < MaxIds
    /\ asked' = {[r EXCEPT !.dropped = TRUE] : r \in asked}
                  \cup {[prev |-> prev, dropped |-> FALSE]}
    /\ UNCHANGED <<tokens, counter, cached, client, sent>>

(* The handler after its awaits: the current tokens under a fresh id, as   *)
(* edits when the cache still holds the array the request names.           *)
TokensAnswered(r) ==
    /\ counter < MaxIds
    /\ counter' = counter + 1
    /\ cached' = [id |-> counter', data |-> tokens]
    /\ sent' = Append(sent, tokens)
    /\ asked' = asked \ {r}
    /\ client' = IF r.dropped THEN client
                 ELSE [id |-> counter',
                       data |-> IF CanDiff(r)
                                THEN Apply(client.data, DiffSemanticTokens(cached.data, tokens))
                                ELSE tokens]
    /\ UNCHANGED tokens

(* Cancelled, or ContentModified: the editor keeps what it has. *)
Refused(r) ==
    /\ asked' = asked \ {r}
    /\ UNCHANGED <<tokens, counter, cached, client, sent>>

(* The LRU cache needs the room for other documents. *)
TokensEvicted ==
    /\ cached # Nowhere /\ cached' = Nowhere
    /\ UNCHANGED <<tokens, counter, asked, client, sent>>

TokensNext ==
    \/ \E a \in Arrays : EditText(a)
    \/ \E prev \in 0..MaxIds : Ask(prev)
    \/ \E r \in asked : TokensAnswered(r) \/ Refused(r)
    \/ TokensEvicted

TokensSpec == TokensInit /\ [][TokensNext]_tokenVars

-----------------------------------------------------------------------------
(* However requests overlap, are dropped or refused, and whatever the      *)
(* cache has evicted, the array the editor holds after splicing edits is   *)
(* the one the server computed under that result id.                       *)
ClientHoldsWhatWasSent == client.id # NoId => client.data = sent[client.id]
=============================================================================
