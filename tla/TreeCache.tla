----------------------------- MODULE TreeCache -----------------------------
(***************************************************************************)
(* The parse trees of parser.ts and the LRU cache of util/lruCache.ts that *)
(* owns them.  A tree lives in the WASM heap until somebody deletes it.    *)
(* parse() hands out the cache's own tree; a handler that keeps it over an *)
(* await takes a copy (withBorrowedTree).  The cache's Map is a sequence:  *)
(* insertion order is the order of eviction.                               *)
(***************************************************************************)
EXTENDS Integers, Sequences, FiniteSets, SequencesExt, FiniteSetsExt

CONSTANTS Uris, Texts, Bytes, Handlers, Trees, MaxEntries, MaxBytes, NoText

ASSUME CacheAssumption ==
    /\ Bytes \in [Texts -> Nat]
    /\ MaxEntries \in Nat \ {0}
    /\ MaxBytes \in Nat
    /\ NoText \notin Texts
    /\ Trees \subseteq Nat \ {0}

VARIABLES
    cache,      \* sequence of [uri, text, tree], least recently used first
    total,      \* totalBytes
    live,       \* the trees not yet deleted
    docs,       \* the text of each open document
    borrows,    \* the suspended handlers' trees: Handlers -> Trees or none
    down,       \* shutdown has cleared the cache
    used        \* history: <<u, v>> of cached documents, u last used before v

treeVars == <<cache, total, live, docs, borrows, down, used>>

NoTree == [tree |-> 0, owned |-> FALSE]

TreeInit ==
    /\ cache = <<>> /\ total = 0 /\ live = {}
    /\ docs = [u \in Uris |-> NoText]
    /\ borrows = [h \in Handlers |-> NoTree]
    /\ down = FALSE /\ used = {}

-----------------------------------------------------------------------------
(* The cache as a value: its entries, its running total and the trees      *)
(* its onEvict has deleted.                                                *)
Has(c, u) == \E i \in DOMAIN c.entries : c.entries[i].uri = u
PlaceOf(c, u) == CHOOSE i \in DOMAIN c.entries : c.entries[i].uri = u
EntryOf(c, u) == c.entries[PlaceOf(c, u)]
Without(c, u) == RemoveAt(c.entries, PlaceOf(c, u))
BytesOf(entries) ==
    LET sum[n \in 0..Len(entries)] == IF n = 0 THEN 0 ELSE sum[n - 1] + Bytes[entries[n].text]
    IN  sum[Len(entries)]
Touch(us, u) == {p \in us : u \notin {p[1], p[2]}} \cup ((Uris \ {u}) \X {u})

(* get(): a hit moves to the tail. *)
LruGetInPlace(c, u) == c
LruGet(c, u) == [c EXCEPT !.entries = Append(Without(c, u), EntryOf(c, u))]

(* delete(), whose onEvict deletes the tree. *)
LruDelete(c, u) ==
    IF ~Has(c, u) THEN c
    ELSE [entries |-> Without(c, u),
          total |-> c.total - Bytes[EntryOf(c, u).text],
          freed |-> c.freed \cup {EntryOf(c, u).tree}]

(* evictOne() so many times: the oldest entries go. *)
Evict(c, count) ==
    [entries |-> SubSeq(c.entries, count + 1, Len(c.entries)),
     total |-> c.total - BytesOf(SubSeq(c.entries, 1, count)),
     freed |-> c.freed \cup {c.entries[i].tree : i \in 1..count}]

(* The two eviction loops of set() go on until the new entry fits or there *)
(* is nothing left to evict.                                               *)
Fits(c, count, bytes) ==
    \/ count = Len(c.entries)
    \/ /\ Len(c.entries) - count < MaxEntries
       /\ c.total - BytesOf(SubSeq(c.entries, 1, count)) + bytes <= MaxBytes
EvictFor(c, bytes) == Evict(c, Min({n \in 0..Len(c.entries) : Fits(c, n, bytes)}))

LruSet(c, e) ==
    LET room == EvictFor(LruDelete(c, e.uri), Bytes[e.text])
    IN  [room EXCEPT !.entries = Append(@, e), !.total = @ + Bytes[e.text]]

EvictOldest(c, count) == Evict(c, Min({count, Len(c.entries)}))

LruClear(c) ==
    [entries |-> <<>>, total |-> 0,
     freed |-> c.freed \cup {c.entries[i].tree : i \in DOMAIN c.entries}]

-----------------------------------------------------------------------------
Now == [entries |-> cache, total |-> total, freed |-> {}]
Fresh == CHOOSE t \in Trees \ live : TRUE
Next2 == CHOOSE t \in Trees \ (live \cup {Fresh}) : TRUE

(* parse(): the cached tree as it is when the text is the same; otherwise  *)
(* the old tree is edited in place, the new one parsed from it and stored. *)
Hit(u, text) == Has(Now, u) /\ EntryOf(Now, u).text = text
Parsed(u, text) ==
    IF Hit(u, text)
    THEN [c |-> LruGet(Now, u), tree |-> EntryOf(Now, u).tree, made |-> {}]
    ELSE [c |-> LruSet(IF Has(Now, u) THEN LruGet(Now, u) ELSE Now,
                       [uri |-> u, text |-> text, tree |-> Fresh]),
          tree |-> Fresh, made |-> {Fresh}]

Settle(c, made, us) ==
    /\ used' = {p \in us : Has(c, p[1]) /\ Has(c, p[2])}
    /\ cache' = c.entries
    /\ total' = c.total
    /\ live' = (live \cup made) \ c.freed

(* didOpen and didChange, whose handlers parse at once and drop the tree   *)
(* before their first await, and every other synchronous use.              *)
Edit(u, text) ==
    LET p == Parsed(u, text)
    IN  /\ ~down
        /\ Trees \ live # {}
        /\ docs' = [docs EXCEPT ![u] = text]
        /\ Settle(p.c, p.made, Touch(used, u))
        /\ UNCHANGED <<borrows, down>>

(* withBorrowedTree(parse(doc.getText(), uri), fn): hover, definition,     *)
(* completion, outgoing calls and upsertFile.  The copy is a tree of its   *)
(* own, and fn may be suspended for long.                                  *)
BorrowNoCopy(h, u) ==
    LET p == Parsed(u, docs[u])
    IN  /\ Settle(p.c, p.made, Touch(used, u))
        /\ borrows' = [borrows EXCEPT ![h] = [tree |-> p.tree, owned |-> FALSE]]
Borrow(h, u) ==
    LET p == Parsed(u, docs[u])
        copy == IF p.made = {} THEN Fresh ELSE Next2
    IN  /\ Settle(p.c, p.made \cup {copy}, Touch(used, u))
        /\ borrows' = [borrows EXCEPT ![h] = [tree |-> copy, owned |-> TRUE]]

Request(h, u) ==
    /\ docs[u] # NoText /\ borrows[h] = NoTree
    /\ Trees \ live # {} /\ Trees \ (live \cup {Fresh}) # {}
    /\ Borrow(h, u)
    /\ UNCHANGED <<docs, down>>

(* The finally clause of withBorrowedTree. *)
RequestEnds(h) ==
    /\ borrows[h] # NoTree
    /\ borrows' = [borrows EXCEPT ![h] = NoTree]
    /\ live' = IF borrows[h].owned THEN live \ {borrows[h].tree} ELSE live
    /\ UNCHANGED <<cache, total, docs, down, used>>

(* parse() throws after tree.edit(): no language, or tree-sitter gives up. *)
(* The cached tree stays, under its old text.                              *)
ParseFails(u, text) ==
    /\ ~down /\ Has(Now, u) /\ ~Hit(u, text)
    /\ docs' = [docs EXCEPT ![u] = text]
    /\ Settle(LruGet(Now, u), {}, Touch(used, u))
    /\ UNCHANGED <<borrows, down>>

(* didClose: deleteTree(uri). *)
Close(u) ==
    /\ ~down /\ docs[u] # NoText
    /\ docs' = [docs EXCEPT ![u] = NoText]
    /\ Settle(LruDelete(Now, u), {}, used)
    /\ UNCHANGED <<borrows, down>>

(* relieveMemoryPressure(): the older half goes. *)
TreesRelieved ==
    /\ ~down /\ cache # <<>>
    /\ Settle(EvictOldest(Now, (Len(cache) + 1) \div 2), {}, used)
    /\ UNCHANGED <<docs, borrows, down>>

(* Shutdown clears the cache while handlers may still be suspended, some  *)
(* of which have yet to parse.                                             *)
ShutdownTrees ==
    /\ ~down
    /\ down' = TRUE
    /\ Settle(LruClear(Now), {}, used)
    /\ UNCHANGED <<docs, borrows>>

TreeNext ==
    \/ \E u \in Uris, t \in Texts : Edit(u, t)
    \/ \E h \in Handlers, u \in Uris : Request(h, u)
    \/ \E h \in Handlers : RequestEnds(h)
    \/ \E u \in Uris, t \in Texts : ParseFails(u, t)
    \/ \E u \in Uris : Close(u)
    \/ TreesRelieved
    \/ ShutdownTrees

TreeSpec == TreeInit /\ [][TreeNext]_treeVars

-----------------------------------------------------------------------------
(* No suspended handler finds its tree freed, whatever re-parses, evicts,  *)
(* closes or clears in the meantime, and no tree is forgotten either: each *)
(* has exactly one owner, the cache or a suspended handler.                *)
BorrowedTreesLive ==
    LET held == {h \in Handlers : borrows[h] # NoTree}
        cached == {cache[i].tree : i \in DOMAIN cache}
    IN  /\ \A h \in held : borrows[h].tree \in live
        /\ live = cached \cup {borrows[h].tree : h \in held}
        /\ Cardinality(live) = Len(cache) + Cardinality(held)

(* However hits, edits, closes and sweeps mix, the cache keeps the most    *)
(* recently used documents in the order of their use, its total is that of *)
(* its entries, and it is over neither ceiling unless one entry alone is.  *)
EvictsLeastRecent ==
    /\ \A i, j \in DOMAIN cache : i < j <=> <<cache[i].uri, cache[j].uri>> \in used
    /\ total = BytesOf(cache)
    /\ Len(cache) <= MaxEntries
    /\ total > MaxBytes => Len(cache) = 1
=============================================================================
