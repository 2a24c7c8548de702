--------------------------- MODULE SupportProofs ---------------------------
(****************************************************************************)
(* Four parts of the server for every number of documents, handlers, trees, *)
(* files and answers: what the editor holds after a semantic-tokens delta,  *)
(* who owns the parse trees and which go first, whether the two directions  *)
(* of the type hierarchy agree, and what the search across files finds.     *)
(****************************************************************************)
EXTENDS TreeCache, SemanticTokens, TypeHierarchy, CrossFileResolution,
        SequenceTheorems, FiniteSetTheorems, TLAPS

\* A non-empty set of naturals has a least element.
LEMMA LeastNatural ==
  ASSUME NEW T, T \subseteq Nat, T # {}
  PROVE  \E x \in T : \A y \in T : x <= y
  <1> DEFINE R == {ss \in Nat \X Nat : ss[1] < ss[2]}
  <1>1. IsWellFoundedOn(R, Nat)
    BY NatLessThanWellFounded, Zenon DEF OpToRel
  <1>2. ASSUME NEW x \in Nat, NEW y \in Nat, y < x
        PROVE  <<y, x>> \in R
    <2>1. <<y, x>> \in Nat \X Nat /\ <<y, x>>[1] < <<y, x>>[2]
      BY <1>2
    <2> QED
      BY <2>1, Zenon
  <1> HIDE DEF R
  <1>3. \E x \in T : \A y \in T : ~(<<y, x>> \in R)
    BY <1>1, WFMin, Zenon
  <1>4. \A x, y \in T : ~(<<y, x>> \in R) => x <= y
    BY <1>2
  <1> QED
    BY <1>3, <1>4

-------------------------------------------------------------------------------
(* Deltas. *)

LEMMA PrefixOfSeq ==
  ASSUME NEW S, NEW s \in Seq(S), NEW n \in 0..Len(s)
  PROVE  /\ SubSeq(s, 1, n) \in Seq(S) /\ Len(SubSeq(s, 1, n)) = n
         /\ \A i \in 1..n : SubSeq(s, 1, n)[i] = s[i]
  <1>1. Len(s) \in Nat /\ \A i \in 1..n : s[i] \in S
    OBVIOUS
  <1>2. /\ SubSeq(s, 1, n) \in Seq(S)
        /\ Len(SubSeq(s, 1, n)) = IF 1 <= n THEN n - 1 + 1 ELSE 0
        /\ \A i \in 1..(n - 1 + 1) : SubSeq(s, 1, n)[i] = s[1 + i - 1]
    BY <1>1, SubSeqProperties
  <1>3. n - 1 + 1 = n /\ \A i \in 1..n : 1 + i - 1 = i
    BY <1>1
  <1> QED
    BY <1>1, <1>2, <1>3

\* The longest common prefix is one.
LEMMA PrefixAgrees ==
  ASSUME NEW S, NEW a \in Seq(S), NEW b \in Seq(S)
  PROVE  LET n == Len(CommonPrefix(a, b)) IN
         /\ n \in Nat /\ n <= Len(a) /\ n <= Len(b)
         /\ \A i \in 1..n : a[i] = b[i]
  <1> DEFINE C == CommonPrefixes({a, b})
             c == CommonPrefix(a, b)
  <1>1. ASSUME NEW p \in C
        PROVE  /\ p \in Seq(S) /\ Len(p) \in Nat /\ Len(p) <= Len(a) /\ Len(p) <= Len(b)
               /\ \A i \in 1..Len(p) : a[i] = b[i]
    <2>1. IsPrefix(p, a) /\ IsPrefix(p, b)
      BY DEF CommonPrefixes
    <2>2. PICK s \in {a, b} : p \in Prefixes(s)
      BY DEF CommonPrefixes
    <2>3. PICK l \in 0..Len(s) : p = SubSeq(s, 1, l)
      BY <2>2 DEF Prefixes
    <2>4. s \in Seq(S)
      BY <2>2
    <2>5. p \in Seq(S) /\ Len(p) \in Nat
      BY <2>3, <2>4, PrefixOfSeq
    <2>6. Len(p) <= Len(a) /\ Len(p) <= Len(b) /\ Len(a) \in Nat /\ Len(b) \in Nat
      BY <2>1 DEF IsPrefix
    <2>7. SubSeq(a, 1, Len(p)) = SubSeq(b, 1, Len(p))
      BY <2>1 DEF IsPrefix
    <2>8. Len(p) \in 0..Len(a) /\ Len(p) \in 0..Len(b)
      BY <2>5, <2>6
    <2>9. \A i \in 1..Len(p) : a[i] = SubSeq(a, 1, Len(p))[i] /\ b[i] = SubSeq(b, 1, Len(p))[i]
      BY <2>8, PrefixOfSeq
    <2> QED
      BY <2>5, <2>6, <2>7, <2>9
  <1>2. C # {}
    <2>1. Len(a) \in Nat /\ Len(b) \in Nat
      OBVIOUS
    <2> DEFINE e == SubSeq(a, 1, 0)
    <2>2. e = <<>> /\ e \in Prefixes(a)
      BY <2>1, SubSeqEmpty DEF Prefixes
    <2>3. Len(<<>>) = 0 /\ SubSeq(<<>>, 1, 0) = <<>> /\ SubSeq(b, 1, 0) = <<>>
      BY SubSeqEmpty
    <2>4. IsPrefix(<<>>, a) /\ IsPrefix(<<>>, b)
      BY <2>1, <2>2, <2>3 DEF IsPrefix
    <2> QED
      BY <2>2, <2>4 DEF CommonPrefixes
  <1>c. C = CommonPrefixes({a, b})
    OBVIOUS
  <1> HIDE DEF C
  <1>3. \E p \in C : \A q \in C : Len(q) <= Len(p)
    <2> DEFINE T == {Len(a) - Len(p) : p \in C}
    <2>0. Len(a) \in Nat /\ \A p \in C : Len(p) \in Nat /\ Len(a) - Len(p) \in Nat
      BY <1>1
    <2>1. T \subseteq Nat /\ T # {} /\ Len(a) \in Nat
      BY <1>2, <2>0
    <2>2. PICK m \in T : \A y \in T : m <= y
      BY <2>1, LeastNatural
    <2>3. PICK p \in C : m = Len(a) - Len(p)
      OBVIOUS
    <2>4. ASSUME NEW q \in C
          PROVE  Len(q) <= Len(p)
      <3>1. Len(a) - Len(p) <= Len(a) - Len(q)
        BY <2>2, <2>3
      <3> QED
        BY <2>0, <3>1
    <2> QED
      BY <2>4
  <1>4. c \in C
    BY <1>3, <1>c DEF CommonPrefix, LongestCommonPrefix
  <1> HIDE DEF c
  <1> QED
    BY <1>1, <1>4 DEF c

LEMMA ReverseOfSeq ==
  ASSUME NEW S, NEW s \in Seq(S)
  PROVE  /\ Reverse(s) \in Seq(S) /\ Len(Reverse(s)) = Len(s)
         /\ \A i \in 1..Len(s) : Reverse(s)[i] = s[(Len(s) - i) + 1]
  <1>1. Len(s) \in Nat /\ \A i \in 1..Len(s) : s[(Len(s) - i) + 1] \in S
    OBVIOUS
  <1> QED
    BY <1>1 DEF Reverse

\* What is left of an array behind a prefix.
LEMMA RestOfSeq ==
  ASSUME NEW S, NEW s \in Seq(S), NEW n \in 0..Len(s)
  PROVE  /\ Rest(s, n) \in Seq(S) /\ Len(Rest(s, n)) = Len(s) - n
         /\ \A i \in 1..(Len(s) - n) : Rest(s, n)[i] = s[n + i]
  <1>1. /\ Len(s) \in Nat /\ n + 1 \in Int /\ Len(s) \in Int
        /\ \A i \in (n + 1)..Len(s) : s[i] \in S
    OBVIOUS
  <1>2. /\ SubSeq(s, n + 1, Len(s)) \in Seq(S)
        /\ Len(SubSeq(s, n + 1, Len(s))) = IF n + 1 <= Len(s) THEN Len(s) - (n + 1) + 1 ELSE 0
        /\ \A i \in 1..(Len(s) - (n + 1) + 1) :
             SubSeq(s, n + 1, Len(s))[i] = s[(n + 1) + i - 1]
    BY <1>1, SubSeqProperties
  <1> DEFINE r == SubSeq(s, n + 1, Len(s))
  <1>r. r = SubSeq(s, n + 1, Len(s)) /\ Rest(s, n) = r
    BY DEF Rest
  <1> HIDE DEF r
  <1>3. Len(r) = Len(s) - n
    BY <1>1, <1>2, <1>r
  <1>4. ASSUME NEW i \in 1..(Len(s) - n)
        PROVE  r[i] = s[n + i]
    <2>1. i \in 1..(Len(s) - (n + 1) + 1) /\ (n + 1) + i - 1 = n + i
      BY <1>1
    <2> QED
      BY <1>2, <1>r, <2>1
  <1> QED
    BY <1>2, <1>r, <1>3, <1>4

\* The common suffix is one.
LEMMA SuffixAgrees ==
  ASSUME NEW S, NEW a \in Seq(S), NEW b \in Seq(S)
  PROVE  LET n == Len(CommonPrefix(Reverse(a), Reverse(b))) IN
         /\ n \in Nat /\ n <= Len(a) /\ n <= Len(b)
         /\ \A i \in 1..n : a[Len(a) - i + 1] = b[Len(b) - i + 1]
  <1> DEFINE n == Len(CommonPrefix(Reverse(a), Reverse(b)))
  <1>1. Reverse(a) \in Seq(S) /\ Reverse(b) \in Seq(S) /\ Len(a) \in Nat /\ Len(b) \in Nat
    BY ReverseOfSeq
  <1>2. /\ n \in Nat /\ n <= Len(a) /\ n <= Len(b)
        /\ \A i \in 1..n : Reverse(a)[i] = Reverse(b)[i]
    BY <1>1, PrefixAgrees, ReverseOfSeq
  <1> HIDE DEF n
  <1>3. \A i \in 1..n : i \in 1..Len(a) /\ i \in 1..Len(b)
    BY <1>1, <1>2
  <1>4. \A i \in 1..n : /\ Reverse(a)[i] = a[(Len(a) - i) + 1]
                        /\ Reverse(b)[i] = b[(Len(b) - i) + 1]
    BY <1>3, ReverseOfSeq
  <1> QED
    BY <1>2, <1>4 DEF n

\* Splicing the edit into the old array gives the new one.
LEMMA DiffApplies ==
  ASSUME NEW S, NEW a \in Seq(S), NEW b \in Seq(S)
  PROVE  Apply(a, DiffSemanticTokens(a, b)) = b
  <1> DEFINE p == Len(CommonPrefix(a, b))
             q == Len(CommonPrefix(Reverse(Rest(a, p)), Reverse(Rest(b, p))))
             d == Len(a) - p - q
             new == SubSeq(b, p + 1, Len(b) - q)
             head == SubSeq(a, 1, p)
             tail == SubSeq(a, p + d + 1, Len(a))
             r == (head \o new) \o tail
  <1>1. CASE a = b
    BY <1>1 DEF Apply, DiffSemanticTokens
  <1>2. CASE a # b
    <2>1. Apply(a, DiffSemanticTokens(a, b)) = r
      BY <1>2 DEF Apply, DiffSemanticTokens
    <2>2. /\ Len(a) \in Nat /\ Len(b) \in Nat
          /\ p \in Nat /\ p <= Len(a) /\ p <= Len(b)
          /\ \A i \in 1..p : a[i] = b[i]
      BY PrefixAgrees
    <2> HIDE DEF p
    <2>3. /\ Rest(a, p) \in Seq(S) /\ Len(Rest(a, p)) = Len(a) - p
          /\ \A i \in 1..(Len(a) - p) : Rest(a, p)[i] = a[p + i]
          /\ Rest(b, p) \in Seq(S) /\ Len(Rest(b, p)) = Len(b) - p
          /\ \A i \in 1..(Len(b) - p) : Rest(b, p)[i] = b[p + i]
      BY <2>2, RestOfSeq
    <2>4. /\ q \in Nat /\ q <= Len(a) - p /\ q <= Len(b) - p
          /\ \A i \in 1..q : Rest(a, p)[(Len(a) - p) - i + 1] = Rest(b, p)[(Len(b) - p) - i + 1]
      <3> DEFINE x == Rest(a, p)
                 y == Rest(b, p)
      <3>1. x \in Seq(S) /\ y \in Seq(S) /\ Len(x) = Len(a) - p /\ Len(y) = Len(b) - p
        BY <2>3
      <3>2. q = Len(CommonPrefix(Reverse(x), Reverse(y)))
        OBVIOUS
      <3> HIDE DEF x, y, q
      <3>3. /\ q \in Nat /\ q <= Len(x) /\ q <= Len(y)
            /\ \A i \in 1..q : x[Len(x) - i + 1] = y[Len(y) - i + 1]
        BY <3>1, <3>2, SuffixAgrees
      <3> QED
        BY <3>1, <3>3 DEF x, y
    <2> HIDE DEF q
    <2>5. \A i \in 1..q : a[Len(a) - i + 1] = b[Len(b) - i + 1]
      <3> SUFFICES ASSUME NEW i \in 1..q PROVE a[Len(a) - i + 1] = b[Len(b) - i + 1]
        OBVIOUS
      <3>1. /\ (Len(a) - p) - i + 1 \in 1..(Len(a) - p)
            /\ (Len(b) - p) - i + 1 \in 1..(Len(b) - p)
            /\ p + ((Len(a) - p) - i + 1) = Len(a) - i + 1
            /\ p + ((Len(b) - p) - i + 1) = Len(b) - i + 1
        BY <2>2, <2>4
      <3> QED
        BY <2>3, <2>4, <3>1
    <2>6. /\ head \in Seq(S) /\ Len(head) = p /\ \A i \in 1..p : head[i] = b[i]
      BY <2>2, PrefixOfSeq
    <2>7. /\ new \in Seq(S) /\ Len(new) = Len(b) - q - p
          /\ \A i \in 1..(Len(b) - q - p) : new[i] = b[p + i]
      <3>1. /\ p + 1 \in Int /\ Len(b) - q \in Int
            /\ \A i \in (p + 1)..(Len(b) - q) : b[i] \in S
        BY <2>2, <2>4
      <3>2. /\ new \in Seq(S)
            /\ Len(new) = IF p + 1 <= Len(b) - q THEN (Len(b) - q) - (p + 1) + 1 ELSE 0
            /\ \A i \in 1..((Len(b) - q) - (p + 1) + 1) : new[i] = b[(p + 1) + i - 1]
        BY <3>1, SubSeqProperties
      <3>3. /\ (Len(b) - q) - (p + 1) + 1 = Len(b) - q - p
            /\ \A i \in 1..(Len(b) - q - p) : (p + 1) + i - 1 = p + i
        BY <2>2, <2>4
      <3> HIDE DEF new
      <3>4. Len(new) = Len(b) - q - p
        <4>1. CASE p + 1 <= Len(b) - q
          BY <3>2, <3>3, <4>1
        <4>2. CASE ~(p + 1 <= Len(b) - q)
          <5>1. Len(b) - q - p = 0 /\ Len(new) = 0
            BY <2>2, <2>4, <3>2, <4>2
          <5> QED
            BY <5>1
        <4> QED
          BY <4>1, <4>2
      <3>5. \A i \in 1..(Len(b) - q - p) : new[i] = b[(p + 1) + i - 1]
        BY <3>2, <3>3
      <3> QED
        BY <3>2, <3>3, <3>4, <3>5
    <2>8. /\ tail \in Seq(S) /\ Len(tail) = q
          /\ \A i \in 1..q : tail[i] = b[Len(b) - q + i]
      <3>1. /\ p + d + 1 = Len(a) - q + 1 /\ Len(a) - q + 1 \in Int
            /\ \A i \in (Len(a) - q + 1)..Len(a) : a[i] \in S
        BY <2>2, <2>4
      <3>2. /\ tail \in Seq(S)
            /\ Len(tail) = IF Len(a) - q + 1 <= Len(a) THEN Len(a) - (Len(a) - q + 1) + 1 ELSE 0
            /\ \A i \in 1..(Len(a) - (Len(a) - q + 1) + 1) :
                 tail[i] = a[(Len(a) - q + 1) + i - 1]
        BY <2>2, <3>1, SubSeqProperties
      <3>3. /\ Len(a) - (Len(a) - q + 1) + 1 = q
            /\ \A i \in 1..q : (Len(a) - q + 1) + i - 1 = Len(a) - q + i
        BY <2>2, <2>4
      <3> HIDE DEF tail
      <3>4. \A i \in 1..q : a[Len(a) - q + i] = b[Len(b) - q + i]
        <4> SUFFICES ASSUME NEW i \in 1..q PROVE a[Len(a) - q + i] = b[Len(b) - q + i]
          OBVIOUS
        <4>1. /\ q - i + 1 \in 1..q /\ Len(a) - (q - i + 1) + 1 = Len(a) - q + i
              /\ Len(b) - (q - i + 1) + 1 = Len(b) - q + i
          BY <2>2, <2>4
        <4>2. a[Len(a) - (q - i + 1) + 1] = b[Len(b) - (q - i + 1) + 1]
          BY <2>5, <4>1
        <4> QED
          BY <4>1, <4>2
      <3>5. Len(tail) = q
        BY <2>2, <2>4, <3>2
      <3>6. \A i \in 1..q : tail[i] = a[(Len(a) - q + 1) + i - 1]
        BY <3>2, <3>3
      <3>7. \A i \in 1..q : tail[i] = b[Len(b) - q + i]
        BY <3>3, <3>4, <3>6
      <3> QED
        BY <3>2, <3>5, <3>7
    <2> HIDE DEF d, head, new, tail
    <2>9. /\ head \o new \in Seq(S) /\ Len(head \o new) = Len(head) + Len(new)
          /\ \A i \in 1..(Len(head) + Len(new)) :
               (head \o new)[i] = IF i <= Len(head) THEN head[i] ELSE new[i - Len(head)]
      BY <2>6, <2>7, ConcatProperties
    <2> DEFINE hn == head \o new
    <2>10. r = hn \o tail
      OBVIOUS
    <2> HIDE DEF hn, r
    <2>11. /\ hn \in Seq(S) /\ Len(hn) = Len(b) - q
           /\ \A i \in 1..(Len(b) - q) : hn[i] = b[i]
      <3>1. hn \in Seq(S) /\ Len(hn) = Len(b) - q
        BY <2>2, <2>4, <2>6, <2>7, <2>9 DEF hn
      <3>2. ASSUME NEW i \in 1..(Len(b) - q)
            PROVE  hn[i] = b[i]
        <4>1. CASE i <= p
          BY <2>2, <2>4, <2>6, <2>7, <2>9, <4>1 DEF hn
        <4>2. CASE ~(i <= p)
          <5>1. i - p \in 1..(Len(b) - q - p) /\ p + (i - p) = i
            BY <2>2, <2>4, <4>2
          <5>2. hn[i] = new[i - p]
            BY <2>2, <2>4, <2>6, <2>7, <2>9, <4>2 DEF hn
          <5> QED
            BY <2>7, <5>1, <5>2
        <4> QED
          BY <4>1, <4>2
      <3> QED
        BY <3>1, <3>2
    <2>12. /\ r \in Seq(S) /\ Len(r) = Len(hn) + Len(tail)
           /\ \A i \in 1..(Len(hn) + Len(tail)) :
                r[i] = IF i <= Len(hn) THEN hn[i] ELSE tail[i - Len(hn)]
      BY <2>8, <2>10, <2>11, ConcatProperties
    <2>13. Len(r) = Len(b)
      BY <2>2, <2>4, <2>8, <2>11, <2>12
    <2>14. ASSUME NEW i \in 1..Len(b)
           PROVE  r[i] = b[i]
      <3>1. CASE i <= Len(b) - q
        <4>1. i \in 1..(Len(hn) + Len(tail)) /\ i <= Len(hn) /\ i \in 1..(Len(b) - q)
          BY <2>2, <2>4, <2>8, <2>11, <3>1
        <4> QED
          BY <2>11, <2>12, <4>1
      <3>2. CASE ~(i <= Len(b) - q)
        <4>1. i - (Len(b) - q) \in 1..q /\ (Len(b) - q) + (i - (Len(b) - q)) = i
          BY <2>2, <2>4, <3>2
        <4>2. r[i] = tail[i - (Len(b) - q)]
          BY <2>2, <2>4, <2>8, <2>11, <2>12, <3>2
        <4>3. tail[i - (Len(b) - q)] = b[Len(b) - q + (i - (Len(b) - q))]
          BY <2>8, <4>1
        <4> QED
          BY <4>1, <4>2, <4>3
      <3> QED
        BY <3>1, <3>2
    <2> QED
      BY <2>1, <2>12, <2>13, <2>14, SeqEqual
  <1> QED
    BY <1>1, <1>2

-------------------------------------------------------------------------------
(* The editor and the ids. *)

\* An id the editor or the cache goes by stands for the array it goes with.
Stands(held) == held.id # NoId => held.id \in 1..Len(sent) /\ held.data = sent[held.id]

\* The editor waits for the last answer it has asked for and for no other, and
\* that request names the array the editor still holds.
TokensInv ==
  /\ tokens \in Arrays /\ sent \in Seq(Arrays) /\ counter = Len(sent)
  /\ cached.id \in Nat /\ client.id \in Nat
  /\ asked \subseteq [prev : Nat, dropped : BOOLEAN]
  /\ Stands(cached) /\ Stands(client)
  /\ \A r \in asked : ~r.dropped => r.prev \in {NoId, client.id}
  /\ \A r, q \in asked : ~r.dropped /\ ~q.dropped => r = q

LEMMA AnsweredInv ==
  ASSUME TokensInv, NEW r \in asked, TokensAnswered(r)
  PROVE  TokensInv'
  <1> DEFINE n == Len(sent) + 1
             data == IF CanDiff(r)
                     THEN Apply(client.data, DiffSemanticTokens(cached.data, tokens))
                     ELSE tokens
  <1>1. /\ sent \in Seq(Arrays) /\ tokens \in Arrays /\ tokens \in Seq(Int)
        /\ Len(sent) \in Nat /\ counter = Len(sent)
    BY TokensAssumption DEF TokensInv
  <1>2. /\ sent' \in Seq(Arrays) /\ Len(sent') = n /\ sent'[n] = tokens
        /\ \A i \in 1..Len(sent) : sent'[i] = sent[i]
    <2>1. sent' = Append(sent, tokens)
      BY DEF TokensAnswered
    <2> QED
      BY <1>1, <2>1, AppendProperties
  <1>3. /\ counter' = n /\ tokens' = tokens /\ asked' = asked \ {r}
        /\ cached'.id = n /\ cached'.data = tokens
        /\ r.dropped => client' = client
        /\ ~r.dropped => client'.id = n /\ client'.data = data
    BY <1>1 DEF TokensAnswered
  <1>4. ASSUME ~r.dropped
        PROVE  data = tokens
    <2>1. CASE CanDiff(r)
      <3>1. cached.id # NoId /\ cached.id = client.id
        BY <1>4, <2>1 DEF CanDiff, TokensInv
      <3>2. cached.id \in 1..Len(sent) /\ cached.data = sent[cached.id] /\ client.data = cached.data
        BY <3>1 DEF TokensInv, Stands
      <3>3. cached.data \in Seq(Int)
        <4>1. sent[cached.id] \in Arrays
          BY <1>1, <3>2, ElementOfSeq
        <4> QED
          BY <3>2, <4>1, TokensAssumption
      <3> QED
        BY <1>1, <2>1, <3>2, <3>3, DiffApplies
    <2>2. CASE ~CanDiff(r)
      BY <2>2
    <2> QED
      BY <2>1, <2>2
  <1> HIDE DEF data
  <1>5. n \in Nat /\ n \in 1..n /\ 1..Len(sent) \subseteq 1..n
    BY <1>1
  <1> HIDE DEF n
  <1>6. Stands(cached)'
    BY <1>2, <1>3, <1>5 DEF Stands
  <1>7. Stands(client)' /\ client'.id \in Nat
    <2>1. CASE r.dropped
      <3>1. client' = client /\ Stands(client) /\ client.id \in Nat
        BY <1>3, <2>1 DEF TokensInv
      <3> QED
        BY <1>2, <1>5, <3>1 DEF Stands
    <2>2. CASE ~r.dropped
      BY <1>2, <1>3, <1>4, <1>5, <2>2 DEF Stands
    <2> QED
      BY <2>1, <2>2
  <1>8. /\ asked' \subseteq [prev : Nat, dropped : BOOLEAN]
        /\ \A q \in asked' : ~q.dropped => q.prev \in {NoId, client'.id}
        /\ \A p, q \in asked' : ~p.dropped /\ ~q.dropped => p = q
    BY <1>3 DEF TokensInv
  <1> QED
    BY <1>1, <1>2, <1>3, <1>5, <1>6, <1>7, <1>8 DEF TokensInv

LEMMA AskInv ==
  ASSUME TokensInv, NEW prev, Ask(prev)
  PROVE  TokensInv'
  <1>1. /\ prev \in {NoId, client.id}
        /\ asked' = {[r EXCEPT !.dropped = TRUE] : r \in asked}
                      \cup {[prev |-> prev, dropped |-> FALSE]}
        /\ UNCHANGED <<tokens, counter, cached, client, sent>>
    BY DEF Ask
  <1>2. asked \subseteq [prev : Nat, dropped : BOOLEAN] /\ prev \in Nat
    BY <1>1 DEF TokensInv, NoId
  <1>3. ASSUME NEW q \in asked'
        PROVE  /\ q \in [prev : Nat, dropped : BOOLEAN]
               /\ ~q.dropped => q = [prev |-> prev, dropped |-> FALSE]
    <2>1. CASE q = [prev |-> prev, dropped |-> FALSE]
      BY <1>2, <2>1
    <2>2. CASE q # [prev |-> prev, dropped |-> FALSE]
      <3>1. PICK r \in asked : q = [r EXCEPT !.dropped = TRUE]
        BY <1>1, <2>2
      <3>2. r \in [prev : Nat, dropped : BOOLEAN]
        BY <1>2
      <3> QED
        BY <3>1, <3>2
    <2> QED
      BY <2>1, <2>2
  <1>4. /\ asked' \subseteq [prev : Nat, dropped : BOOLEAN]
        /\ \A q \in asked' : ~q.dropped => q.prev \in {NoId, client'.id}
        /\ \A p, q \in asked' : ~p.dropped /\ ~q.dropped => p = q
    BY <1>1, <1>3
  <1> QED
    BY <1>1, <1>4 DEF TokensInv, Stands

LEMMA TokensNextInv == TokensInv /\ [TokensNext]_tokenVars => TokensInv'
  <1> SUFFICES ASSUME TokensInv, [TokensNext]_tokenVars PROVE TokensInv'
    OBVIOUS
  <1>1. ASSUME NEW a \in Arrays, EditText(a)
        PROVE  TokensInv'
    BY <1>1 DEF EditText, TokensInv, Stands
  <1>2. ASSUME NEW r \in asked, Refused(r)
        PROVE  TokensInv'
    BY <1>2 DEF Refused, TokensInv, Stands
  <1>3. CASE TokensEvicted
    BY <1>3 DEF TokensEvicted, TokensInv, Stands, Nowhere, NoId
  <1>4. CASE UNCHANGED tokenVars
    BY <1>4 DEF tokenVars, TokensInv, Stands
  <1> QED
    BY <1>1, <1>2, <1>3, <1>4, AnsweredInv, AskInv DEF TokensNext

\* Splicing every delta it is sent, the editor holds what the server computed
\* under that id, whatever requests overlap, are dropped or refused, and
\* whatever the cache evicts.
THEOREM DeltasReachTheClient == TokensSpec => []ClientHoldsWhatWasSent
  <1>1. TokensInit => TokensInv
    <2> SUFFICES ASSUME TokensInit PROVE TokensInv
      OBVIOUS
    <2>1. sent \in Seq(Arrays) /\ Len(sent) = 0
      BY EmptySeq DEF TokensInit
    <2> QED
      BY <2>1 DEF TokensInit, TokensInv, Stands, Nowhere, NoId
  <1>2. TokensInv => ClientHoldsWhatWasSent
    BY DEF TokensInv, Stands, ClientHoldsWhatWasSent
  <1> QED
    BY <1>1, <1>2, TokensNextInv, PTL DEF TokensSpec

-------------------------------------------------------------------------------
(* The sequence behind the cache. *)

Entry == [uri : Uris, text : Texts, tree : Trees]
TreesIn(s) == {s[i].tree : i \in DOMAIN s}

\* No tree is in two entries.
Distinct(s) == \A i, j \in DOMAIN s : s[i].tree = s[j].tree => i = j

LEMMA RemoveAtSeq ==
  ASSUME NEW S, NEW s \in Seq(S), NEW k \in DOMAIN s
  PROVE  /\ RemoveAt(s, k) \in Seq(S) /\ Len(RemoveAt(s, k)) = Len(s) - 1
         /\ \A i \in 1..(Len(s) - 1) : RemoveAt(s, k)[i] = IF i < k THEN s[i] ELSE s[i + 1]
  <1> DEFINE a == SubSeq(s, 1, k - 1)
             b == SubSeq(s, k + 1, Len(s))
             r == a \o b
  <1>0. RemoveAt(s, k) = r
    BY DEF RemoveAt
  <1>1. Len(s) \in Nat /\ DOMAIN s = 1..Len(s) /\ k \in 1..Len(s)
    OBVIOUS
  <1>2. a \in Seq(S) /\ Len(a) = k - 1 /\ \A i \in 1..(k - 1) : a[i] = s[i]
    <2>1. k - 1 \in 0..Len(s)
      BY <1>1
    <2> QED
      BY <2>1, PrefixOfSeq
  <1>3. b \in Seq(S) /\ Len(b) = Len(s) - k /\ \A i \in 1..(Len(s) - k) : b[i] = s[k + i]
    <2>1. k \in 0..Len(s)
      BY <1>1
    <2> QED
      BY <2>1, RestOfSeq DEF Rest
  <1> HIDE DEF a, b
  <1>4. /\ r \in Seq(S) /\ Len(r) = (k - 1) + (Len(s) - k)
        /\ \A i \in 1..((k - 1) + (Len(s) - k)) : r[i] = IF i <= k - 1 THEN a[i] ELSE b[i - (k - 1)]
    <2>1. /\ r \in Seq(S) /\ Len(r) = Len(a) + Len(b)
          /\ \A i \in 1..(Len(a) + Len(b)) : r[i] = IF i <= Len(a) THEN a[i] ELSE b[i - Len(a)]
      BY <1>2, <1>3, ConcatProperties
    <2> HIDE DEF r
    <2> QED
      BY <1>2, <1>3, <2>1
  <1> HIDE DEF r
  <1>6. ASSUME NEW i \in 1..(Len(s) - 1)
        PROVE  r[i] = IF i < k THEN s[i] ELSE s[i + 1]
    <2>0. r[i] = IF i <= k - 1 THEN a[i] ELSE b[i - (k - 1)]
      BY <1>1, <1>4
    <2>1. CASE i < k
      <3>1. i <= k - 1 /\ i \in 1..(k - 1)
        BY <1>1, <2>1
      <3> QED
        BY <1>2, <2>0, <2>1, <3>1
    <2>2. CASE ~(i < k)
      <3>1. ~(i <= k - 1) /\ i - (k - 1) \in 1..(Len(s) - k) /\ k + (i - (k - 1)) = i + 1
        BY <1>1, <2>2
      <3> QED
        BY <1>3, <2>0, <2>2, <3>1
    <2> QED
      BY <2>1, <2>2
  <1> QED
    BY <1>0, <1>1, <1>4, <1>6 DEF r

LEMMA RemoveAtTrees ==
  ASSUME NEW s \in Seq(Entry), Distinct(s), NEW k \in DOMAIN s
  PROVE  LET r == RemoveAt(s, k) IN
         /\ r \in Seq(Entry) /\ Distinct(r)
         /\ TreesIn(r) = TreesIn(s) \ {s[k].tree} /\ Len(r) = Len(s) - 1
  <1> DEFINE r == RemoveAt(s, k)
  <1>1. Len(s) \in Nat /\ DOMAIN s = 1..Len(s) /\ k \in 1..Len(s)
    OBVIOUS
  <1>4. r \in Seq(Entry) /\ Len(r) = Len(s) - 1
    BY RemoveAtSeq
  <1>6. ASSUME NEW i \in 1..(Len(s) - 1)
        PROVE  r[i] = IF i < k THEN s[i] ELSE s[i + 1]
    BY RemoveAtSeq
  <1> HIDE DEF r
  <1>5. DOMAIN r = 1..(Len(s) - 1)
    BY <1>1, <1>4
  <1> DEFINE at(i) == IF i < k THEN i ELSE i + 1
  <1>7. ASSUME NEW i \in DOMAIN r
        PROVE  at(i) \in DOMAIN s /\ at(i) # k /\ r[i] = s[at(i)]
    BY <1>1, <1>5, <1>6
  <1>8. \A i, j \in DOMAIN r : at(i) = at(j) => i = j
    BY <1>1, <1>5
  <1>9. ASSUME NEW m \in DOMAIN s, m # k
        PROVE  \E i \in DOMAIN r : r[i] = s[m]
    <2>1. CASE m < k
      <3>1. m \in 1..(Len(s) - 1)
        BY <1>1, <2>1
      <3> QED
        BY <1>5, <1>6, <2>1, <3>1
    <2>2. CASE ~(m < k)
      <3>1. m - 1 \in 1..(Len(s) - 1) /\ ~(m - 1 < k) /\ (m - 1) + 1 = m
        BY <1>1, <1>9, <2>2
      <3> QED
        BY <1>5, <1>6, <3>1
    <2> QED
      BY <2>1, <2>2
  <1> HIDE DEF at
  <1>10. Distinct(r)
    BY <1>7, <1>8 DEF Distinct
  <1>11. TreesIn(r) = TreesIn(s) \ {s[k].tree}
    <2>1. TreesIn(r) \subseteq TreesIn(s) \ {s[k].tree}
      BY <1>7 DEF TreesIn, Distinct
    <2>2. TreesIn(s) \ {s[k].tree} \subseteq TreesIn(r)
      BY <1>9 DEF TreesIn
    <2> QED
      BY <2>1, <2>2
  <1> QED
    BY <1>4, <1>10, <1>11 DEF r

LEMMA AppendTrees ==
  ASSUME NEW s \in Seq(Entry), Distinct(s), NEW e \in Entry, e.tree \notin TreesIn(s)
  PROVE  LET r == Append(s, e) IN
         /\ r \in Seq(Entry) /\ Distinct(r)
         /\ TreesIn(r) = TreesIn(s) \cup {e.tree}
  <1> DEFINE r == Append(s, e)
  <1>1. /\ r \in Seq(Entry) /\ Len(r) = Len(s) + 1 /\ r[Len(s) + 1] = e
        /\ \A i \in 1..Len(s) : r[i] = s[i]
    BY AppendProperties
  <1> HIDE DEF r
  <1>2. /\ Len(s) \in Nat /\ DOMAIN s = 1..Len(s) /\ Len(s) + 1 \notin 1..Len(s)
        /\ DOMAIN r = 1..Len(s) \cup {Len(s) + 1}
    BY <1>1
  <1>3. TreesIn(r) = TreesIn(s) \cup {e.tree}
    BY <1>1, <1>2 DEF TreesIn
  <1>4. Distinct(r)
    BY <1>1, <1>2 DEF Distinct, TreesIn
  <1> QED
    BY <1>1, <1>3, <1>4 DEF r

LEMMA DropTrees ==
  ASSUME NEW s \in Seq(Entry), Distinct(s), NEW n \in 0..Len(s)
  PROVE  LET r == SubSeq(s, n + 1, Len(s)) IN
         /\ r \in Seq(Entry) /\ Distinct(r)
         /\ TreesIn(r) = TreesIn(s) \ {s[i].tree : i \in 1..n}
  <1> DEFINE r == SubSeq(s, n + 1, Len(s))
  <1>1. /\ r \in Seq(Entry) /\ Len(r) = Len(s) - n
        /\ \A i \in 1..(Len(s) - n) : r[i] = s[n + i]
    BY RestOfSeq DEF Rest
  <1> HIDE DEF r
  <1>2. /\ Len(s) \in Nat /\ n \in Nat /\ n <= Len(s) /\ DOMAIN s = 1..Len(s)
        /\ DOMAIN r = 1..(Len(s) - n)
    BY <1>1
  <1>3. \A i \in DOMAIN r : n + i \in DOMAIN s /\ n + i \notin 1..n /\ r[i] = s[n + i]
    BY <1>1, <1>2
  <1>4. \A m \in DOMAIN s : m \notin 1..n => m - n \in DOMAIN r /\ n + (m - n) = m
    BY <1>2
  <1>5. \A i, j \in DOMAIN r : n + i = n + j => i = j
    BY <1>2
  <1>6. Distinct(r)
    BY <1>3, <1>5 DEF Distinct
  <1>7. TreesIn(r) \subseteq TreesIn(s) \ {s[i].tree : i \in 1..n}
    <2> SUFFICES ASSUME NEW i \in DOMAIN r
                 PROVE  r[i].tree \in TreesIn(s) /\ r[i].tree \notin {s[j].tree : j \in 1..n}
      BY DEF TreesIn
    <2>1. n + i \in DOMAIN s /\ n + i \notin 1..n /\ r[i] = s[n + i]
      BY <1>3
    <2>2. \A j \in 1..n : j \in DOMAIN s
      BY <1>2
    <2> QED
      BY <2>1, <2>2 DEF TreesIn, Distinct
  <1>8. TreesIn(s) \ {s[i].tree : i \in 1..n} \subseteq TreesIn(r)
    <2> SUFFICES ASSUME NEW m \in DOMAIN s, m \notin 1..n
                 PROVE  s[m].tree \in TreesIn(r)
      BY DEF TreesIn
    <2>1. m - n \in DOMAIN r /\ r[m - n] = s[m]
      BY <1>3, <1>4
    <2> QED
      BY <2>1 DEF TreesIn
  <1> QED
    BY <1>1, <1>6, <1>7, <1>8 DEF r

-------------------------------------------------------------------------------
(* The operations of the cache. *)

\* c has deleted some of the trees T and holds the others, each once.
Owns(c, T) ==
  /\ c = [entries |-> c.entries, total |-> c.total, freed |-> c.freed]
  /\ c.entries \in Seq(Entry) /\ Distinct(c.entries)
  /\ c.freed \cap TreesIn(c.entries) = {}
  /\ c.freed \cup TreesIn(c.entries) = T

LEMMA PlaceExists ==
  ASSUME NEW c, NEW u, Has(c, u)
  PROVE  PlaceOf(c, u) \in DOMAIN c.entries
  BY DEF Has, PlaceOf

\* A hit moves an entry.
LEMMA GetOwns ==
  ASSUME NEW c, NEW T, Owns(c, T), NEW u, Has(c, u)
  PROVE  Owns(LruGet(c, u), T)
  <1> DEFINE k == PlaceOf(c, u)
             w == RemoveAt(c.entries, k)
             e == c.entries[k]
             s == Append(w, e)
             r == LruGet(c, u)
  <1>1. k \in DOMAIN c.entries /\ c.entries \in Seq(Entry) /\ Distinct(c.entries)
    BY PlaceExists DEF Owns
  <1>2. e \in Entry /\ e.tree \in TreesIn(c.entries)
    BY <1>1, ElementOfSeq DEF TreesIn
  <1>3. r = [entries |-> s, total |-> c.total, freed |-> c.freed]
    <2>1. r = [c EXCEPT !.entries = s]
      BY DEF LruGet, Without, EntryOf
    <2> HIDE DEF r, s
    <2> QED
      BY <2>1 DEF Owns
  <1> HIDE DEF k
  <1>4. w \in Seq(Entry) /\ Distinct(w) /\ TreesIn(w) = TreesIn(c.entries) \ {e.tree}
    BY <1>1, RemoveAtTrees
  <1> HIDE DEF w, e, r
  <1>5. s \in Seq(Entry) /\ Distinct(s) /\ TreesIn(s) = TreesIn(w) \cup {e.tree}
    BY <1>2, <1>4, AppendTrees
  <1> HIDE DEF s
  <1>6. TreesIn(s) = TreesIn(c.entries)
    BY <1>2, <1>4, <1>5
  <1> QED
    BY <1>3, <1>5, <1>6 DEF Owns, r

\* A deletion frees the tree of the entry it removes.
LEMMA DeleteOwns ==
  ASSUME NEW c, NEW T, Owns(c, T), NEW u
  PROVE  Owns(LruDelete(c, u), T)
  <1>1. CASE ~Has(c, u)
    BY <1>1 DEF LruDelete
  <1>2. CASE Has(c, u)
    <2> DEFINE k == PlaceOf(c, u)
               w == RemoveAt(c.entries, k)
               n == c.total - Bytes[c.entries[k].text]
               F == c.freed \cup {c.entries[k].tree}
               r == LruDelete(c, u)
    <2>1. k \in DOMAIN c.entries /\ c.entries \in Seq(Entry) /\ Distinct(c.entries)
      BY <1>2, PlaceExists DEF Owns
    <2>2. r = [entries |-> w, total |-> n, freed |-> F]
      BY <1>2 DEF LruDelete, Without, EntryOf
    <2> HIDE DEF k
    <2>3. w \in Seq(Entry) /\ Distinct(w) /\ TreesIn(w) = TreesIn(c.entries) \ {c.entries[k].tree}
      BY <2>1, RemoveAtTrees
    <2>4. c.entries[k].tree \in TreesIn(c.entries)
      BY <2>1 DEF TreesIn
    <2> HIDE DEF w, n, r
    <2>5. F \cap TreesIn(w) = {} /\ F \cup TreesIn(w) = T
      BY <2>3, <2>4 DEF Owns
    <2> HIDE DEF F
    <2> QED
      BY <2>2, <2>3, <2>5 DEF Owns, r
  <1> QED
    BY <1>1, <1>2

\* An eviction frees the trees of the entries it drops.
LEMMA EvictOwns ==
  ASSUME NEW c, NEW T, Owns(c, T), NEW n \in 0..Len(c.entries)
  PROVE  Owns(Evict(c, n), T)
  <1> DEFINE s == SubSeq(c.entries, n + 1, Len(c.entries))
             t == c.total - BytesOf(SubSeq(c.entries, 1, n))
             F == c.freed \cup {c.entries[i].tree : i \in 1..n}
             r == Evict(c, n)
  <1>1. c.entries \in Seq(Entry) /\ Distinct(c.entries)
    BY DEF Owns
  <1>2. r = [entries |-> s, total |-> t, freed |-> F]
    BY DEF Evict
  <1>3. /\ s \in Seq(Entry) /\ Distinct(s)
        /\ TreesIn(s) = TreesIn(c.entries) \ {c.entries[i].tree : i \in 1..n}
    BY <1>1, DropTrees
  <1>4. {c.entries[i].tree : i \in 1..n} \subseteq TreesIn(c.entries)
    <2>1. Len(c.entries) \in Nat /\ DOMAIN c.entries = 1..Len(c.entries)
      BY <1>1
    <2>2. \A i \in 1..n : i \in DOMAIN c.entries
      BY <2>1
    <2> QED
      BY <2>2 DEF TreesIn
  <1> HIDE DEF s, t, r
  <1>5. F \cap TreesIn(s) = {} /\ F \cup TreesIn(s) = T
    BY <1>3, <1>4 DEF Owns
  <1> HIDE DEF F
  <1> QED
    BY <1>2, <1>3, <1>5 DEF Owns, r

LEMMA EvictForOwns ==
  ASSUME NEW c, NEW T, Owns(c, T), NEW bytes
  PROVE  Owns(EvictFor(c, bytes), T)
  <1> DEFINE S == {n \in 0..Len(c.entries) : Fits(c, n, bytes)}
  <1>1. Len(c.entries) \in Nat
    BY DEF Owns
  <1>2. Len(c.entries) \in S
    BY <1>1 DEF Fits
  <1>3. S \subseteq Nat /\ S \subseteq 0..Len(c.entries) /\ S # {}
    BY <1>1, <1>2
  <1>4. EvictFor(c, bytes) = Evict(c, Min(S))
    BY DEF EvictFor
  <1> HIDE DEF S
  <1>5. Min(S) \in S
    <2>1. \E x \in S : \A y \in S : x <= y
      BY <1>3, LeastNatural
    <2> QED
      BY <2>1 DEF Min
  <1> QED
    BY <1>3, <1>4, <1>5, EvictOwns

LEMMA EvictOldestOwns ==
  ASSUME NEW c, NEW T, Owns(c, T), NEW count \in Nat
  PROVE  Owns(EvictOldest(c, count), T)
  <1> DEFINE S == {count, Len(c.entries)}
             m == Min(S)
  <1>1. Len(c.entries) \in Nat
    BY DEF Owns
  <1>2. m \in S /\ m <= Len(c.entries)
    <2>1. \E x \in S : \A y \in S : x =< y
      BY <1>1
    <2>2. m \in S /\ \A y \in S : m =< y
      BY <2>1 DEF Min
    <2> QED
      BY <2>2
  <1>3. EvictOldest(c, count) = Evict(c, m)
    BY DEF EvictOldest
  <1> HIDE DEF m
  <1>4. m \in 0..Len(c.entries)
    BY <1>1, <1>2
  <1> QED
    BY <1>3, <1>4, EvictOwns

\* A new tree, perhaps after evictions.
LEMMA SetOwns ==
  ASSUME NEW c, NEW T, Owns(c, T), NEW e \in Entry, e.tree \notin T
  PROVE  Owns(LruSet(c, e), T \cup {e.tree})
  <1> DEFINE d == EvictFor(LruDelete(c, e.uri), Bytes[e.text])
             s == Append(d.entries, e)
             n == d.total + Bytes[e.text]
             r == LruSet(c, e)
  <1>1. Owns(d, T)
    BY DeleteOwns, EvictForOwns
  <1>2. r = [d EXCEPT !.entries = Append(@, e), !.total = @ + Bytes[e.text]]
    BY DEF LruSet
  <1> HIDE DEF d, r
  <1>3. r = [entries |-> s, total |-> n, freed |-> d.freed]
    BY <1>1, <1>2 DEF Owns
  <1>4. d.entries \in Seq(Entry) /\ Distinct(d.entries) /\ e.tree \notin TreesIn(d.entries)
    BY <1>1 DEF Owns
  <1>5. s \in Seq(Entry) /\ Distinct(s) /\ TreesIn(s) = TreesIn(d.entries) \cup {e.tree}
    BY <1>4, AppendTrees
  <1> HIDE DEF s, n
  <1>6. /\ d.freed \cap TreesIn(s) = {} /\ d.freed \cup TreesIn(s) = T \cup {e.tree}
    BY <1>1, <1>5 DEF Owns
  <1> QED
    BY <1>3, <1>5, <1>6 DEF Owns, r

LEMMA ClearOwns ==
  ASSUME NEW c, NEW T, Owns(c, T)
  PROVE  Owns(LruClear(c), T)
  <1> DEFINE F == c.freed \cup {c.entries[i].tree : i \in DOMAIN c.entries}
             r == LruClear(c)
  <1>1. r = [entries |-> <<>>, total |-> 0, freed |-> F] /\ F = T
    BY DEF LruClear, Owns, TreesIn
  <1>2. <<>> \in Seq(Entry) /\ DOMAIN <<>> = {}
    OBVIOUS
  <1> HIDE DEF F, r
  <1> QED
    BY <1>1, <1>2 DEF Owns, Distinct, TreesIn, r

-------------------------------------------------------------------------------
(* Who owns the trees. *)

Held == {h \in Handlers : borrows[h] # NoTree}
HeldTrees == {borrows[h].tree : h \in Held}

\* Every tree has one owner: an entry of the cache, or a suspended handler.
TreeInv ==
  /\ Owns(Now, TreesIn(cache))
  /\ docs \in [Uris -> Texts \cup {NoText}]
  /\ borrows \in [Handlers -> [tree : Trees \cup {0}, owned : BOOLEAN]]
  /\ \A h \in Held : borrows[h].owned /\ borrows[h].tree \in Trees
  /\ \A g, h \in Held : borrows[g].tree = borrows[h].tree => g = h
  /\ IsFiniteSet(Held)
  /\ TreesIn(cache) \cap HeldTrees = {}
  /\ live = TreesIn(cache) \cup HeldTrees

\* Whatever the cache did with its own trees and the new ones M, the handlers'
\* trees are alive and nobody else's.
LEMMA SettledTrees ==
  ASSUME TreeInv, NEW c, NEW M, Owns(c, TreesIn(cache) \cup M), M \cap live = {},
         NEW K, K \cap (live \cup M) = {}
  PROVE  /\ (live \cup M \cup K) \ c.freed = TreesIn(c.entries) \cup HeldTrees \cup K
         /\ TreesIn(c.entries) \cap (HeldTrees \cup K) = {}
  BY DEF TreeInv, Owns

\* A handler that settles the cache and borrows nothing.
LEMMA SettleInv ==
  ASSUME TreeInv, NEW c, NEW M, Owns(c, TreesIn(cache) \cup M), M \cap live = {},
         cache' = c.entries, total' = c.total, live' = (live \cup M) \ c.freed,
         docs' \in [Uris -> Texts \cup {NoText}], UNCHANGED borrows
  PROVE  TreeInv'
  <1>1. /\ (live \cup M) \ c.freed = TreesIn(c.entries) \cup HeldTrees
        /\ TreesIn(c.entries) \cap HeldTrees = {}
    BY DEF TreeInv, Owns
  <1>2. Held' = Held /\ HeldTrees' = HeldTrees
    BY DEF Held, HeldTrees
  <1>3. Owns(Now, TreesIn(cache))'
    BY DEF Owns, Now
  <1> QED
    BY <1>1, <1>2, <1>3 DEF TreeInv

\* parse() gives the cache at most one new tree.
LEMMA ParsedOwns ==
  ASSUME TreeInv, NEW u \in Uris, NEW text \in Texts, Trees \ live # {}
  PROVE  LET p == Parsed(u, text) IN
         /\ Owns(p.c, TreesIn(cache) \cup p.made) /\ p.made \in {{}, {Fresh}}
         /\ Fresh \in Trees \ live
  <1>1. Fresh \in Trees \ live
    BY DEF Fresh
  <1>2. Owns(Now, TreesIn(cache)) /\ TreesIn(cache) \subseteq live
    BY DEF TreeInv
  <1>3. CASE Hit(u, text)
    <2>1. Has(Now, u)
      BY <1>3 DEF Hit
    <2>2. Owns(LruGet(Now, u), TreesIn(cache))
      BY <1>2, <2>1, GetOwns
    <2>3. Parsed(u, text).c = LruGet(Now, u) /\ Parsed(u, text).made = {}
      BY <1>3 DEF Parsed
    <2> QED
      BY <1>1, <2>2, <2>3
  <1>4. CASE ~Hit(u, text)
    <2> DEFINE e == [uri |-> u, text |-> text, tree |-> Fresh]
               d == IF Has(Now, u) THEN LruGet(Now, u) ELSE Now
    <2>1. e \in Entry /\ e.tree = Fresh /\ e.tree \notin TreesIn(cache)
      BY <1>1, <1>2 DEF Entry
    <2>2. Owns(d, TreesIn(cache))
      BY <1>2, GetOwns
    <2>3. Parsed(u, text).c = LruSet(d, e) /\ Parsed(u, text).made = {Fresh}
      BY <1>4 DEF Parsed
    <2> HIDE DEF e, d
    <2>4. Owns(LruSet(d, e), TreesIn(cache) \cup {Fresh})
      BY <2>1, <2>2, SetOwns
    <2> QED
      BY <1>1, <2>3, <2>4
  <1> QED
    BY <1>3, <1>4

LEMMA EditInv ==
  ASSUME TreeInv, NEW u \in Uris, NEW text \in Texts, Edit(u, text)
  PROVE  TreeInv'
  <1> DEFINE p == Parsed(u, text)
  <1>1. /\ Owns(p.c, TreesIn(cache) \cup p.made) /\ p.made \in {{}, {Fresh}}
        /\ Fresh \in Trees \ live
    BY ParsedOwns DEF Edit
  <1>2. /\ cache' = p.c.entries /\ total' = p.c.total /\ live' = (live \cup p.made) \ p.c.freed
        /\ docs' = [docs EXCEPT ![u] = text] /\ UNCHANGED borrows
    BY DEF Edit, Settle
  <1> HIDE DEF p
  <1>3. p.made \cap live = {} /\ docs' \in [Uris -> Texts \cup {NoText}]
    BY <1>1, <1>2 DEF TreeInv
  <1> QED
    BY <1>1, <1>2, <1>3, SettleInv

\* The copy a handler takes is nobody else's.
LEMMA RequestInv ==
  ASSUME TreeInv, NEW h \in Handlers, NEW u \in Uris, Request(h, u)
  PROVE  TreeInv'
  <1> DEFINE p == Parsed(u, docs[u])
             copy == IF p.made = {} THEN Fresh ELSE Next2
             b == [tree |-> copy, owned |-> TRUE]
  <1>0. docs[u] \in Texts /\ borrows[h] = NoTree
    BY DEF Request, TreeInv
  <1>1. /\ Owns(p.c, TreesIn(cache) \cup p.made) /\ p.made \in {{}, {Fresh}}
        /\ Fresh \in Trees \ live
    BY <1>0, ParsedOwns DEF Request
  <1>2. Next2 \in Trees \ (live \cup {Fresh})
    BY DEF Request, Next2
  <1>3. /\ cache' = p.c.entries /\ total' = p.c.total
        /\ live' = (live \cup (p.made \cup {copy})) \ p.c.freed
        /\ borrows' = [borrows EXCEPT ![h] = b] /\ UNCHANGED docs
    BY DEF Request, Borrow, Settle
  <1> HIDE DEF p
  <1>4. copy \in Trees /\ copy \notin live \cup p.made /\ p.made \cap live = {}
    BY <1>1, <1>2
  <1>b. b = [tree |-> copy, owned |-> TRUE]
    OBVIOUS
  <1> HIDE DEF copy, b
  <1>5. /\ borrows' \in [Handlers -> [tree : Trees \cup {0}, owned : BOOLEAN]]
        /\ borrows'[h] = b /\ \A g \in Handlers : g # h => borrows'[g] = borrows[g]
        /\ b # NoTree /\ b.owned = TRUE /\ b.tree = copy
    BY <1>3, <1>4, <1>b, CacheAssumption DEF TreeInv, NoTree
  <1>6. Held' = Held \cup {h} /\ h \notin Held
    BY <1>0, <1>5 DEF Held
  <1>7. HeldTrees' = HeldTrees \cup {copy}
    <2>1. HeldTrees' = {borrows'[g].tree : g \in Held'}
      BY DEF HeldTrees
    <2>2. \A g \in Held : borrows'[g] = borrows[g]
      BY <1>5, <1>6 DEF Held
    <2> QED
      BY <1>5, <1>6, <2>1, <2>2 DEF HeldTrees
  <1>8. /\ (live \cup p.made \cup {copy}) \ p.c.freed = TreesIn(p.c.entries) \cup HeldTrees \cup {copy}
        /\ TreesIn(p.c.entries) \cap (HeldTrees \cup {copy}) = {}
    <2>1. {copy} \cap (live \cup p.made) = {}
      BY <1>4
    <2> QED
      BY <1>1, <1>4, <2>1, SettledTrees
  <1>9. /\ \A g \in Held' : borrows'[g].owned /\ borrows'[g].tree \in Trees
        /\ \A f, g \in Held' : borrows'[f].tree = borrows'[g].tree => f = g
    <2>1. \A g \in Held : /\ g # h /\ borrows'[g] = borrows[g] /\ borrows[g].tree \in live
                          /\ borrows[g].owned /\ borrows[g].tree \in Trees
      BY <1>5, <1>6 DEF TreeInv, HeldTrees, Held
    <2>2. \A f, g \in Held : borrows[f].tree = borrows[g].tree => f = g
      BY DEF TreeInv
    <2> QED
      BY <1>4, <1>5, <1>6, <2>1, <2>2
  <1>10. IsFiniteSet(Held')
    BY <1>6, FS_AddElement DEF TreeInv
  <1>11. Owns(Now, TreesIn(cache))'
    BY <1>1, <1>3 DEF Owns, Now
  <1> QED
    BY <1>3, <1>5, <1>7, <1>8, <1>9, <1>10, <1>11 DEF TreeInv

\* A handler gives back its copy and no other tree.
LEMMA RequestEndsInv ==
  ASSUME TreeInv, NEW h \in Handlers, RequestEnds(h)
  PROVE  TreeInv'
  <1>1. /\ h \in Held /\ borrows[h].owned
        /\ borrows' = [borrows EXCEPT ![h] = NoTree]
        /\ live' = live \ {borrows[h].tree}
        /\ UNCHANGED <<cache, total, docs>>
    BY DEF RequestEnds, Held, TreeInv
  <1>2. /\ borrows' \in [Handlers -> [tree : Trees \cup {0}, owned : BOOLEAN]]
        /\ borrows'[h] = NoTree /\ \A g \in Handlers : g # h => borrows'[g] = borrows[g]
    BY <1>1 DEF TreeInv, NoTree
  <1>3. Held' = Held \ {h}
    BY <1>2 DEF Held
  <1>4. HeldTrees' = HeldTrees \ {borrows[h].tree}
    <2>1. \A g \in Held' : borrows'[g] = borrows[g] /\ borrows[g].tree # borrows[h].tree
      BY <1>1, <1>2, <1>3 DEF TreeInv, Held
    <2>2. \A g \in Held : g # h => g \in Held' /\ borrows'[g] = borrows[g]
      BY <1>2, <1>3 DEF Held
    <2> QED
      BY <2>1, <2>2, <1>3 DEF HeldTrees
  <1>5. borrows[h].tree \in HeldTrees /\ borrows[h].tree \notin TreesIn(cache)
    BY <1>1 DEF HeldTrees, TreeInv
  <1>6. /\ \A g \in Held' : borrows'[g].owned /\ borrows'[g].tree \in Trees
        /\ \A f, g \in Held' : borrows'[f].tree = borrows'[g].tree => f = g
    BY <1>2, <1>3 DEF TreeInv, Held
  <1>7. IsFiniteSet(Held')
    BY <1>3, FS_RemoveElement DEF TreeInv
  <1>8. TreesIn(cache)' = TreesIn(cache) /\ Now' = Now /\ Owns(Now, TreesIn(cache))
    BY <1>1 DEF Now, TreeInv
  <1>9. Owns(Now, TreesIn(cache))'
    BY <1>8
  <1> QED
    BY <1>1, <1>2, <1>4, <1>5, <1>6, <1>7, <1>8, <1>9 DEF TreeInv

\* The other handlers settle the cache and make no tree.
LEMMA SettleOwnInv ==
  ASSUME TreeInv, NEW c, Owns(c, TreesIn(cache)), NEW us, Settle(c, {}, us),
         docs' \in [Uris -> Texts \cup {NoText}], UNCHANGED borrows
  PROVE  TreeInv'
  <1>1. Owns(c, TreesIn(cache) \cup {})
    BY DEF Owns
  <1>2. cache' = c.entries /\ total' = c.total /\ live' = (live \cup {}) \ c.freed
    BY DEF Settle
  <1> DEFINE M == {}
  <1>3. M \cap live = {}
    OBVIOUS
  <1> HIDE DEF M
  <1>4. Owns(c, TreesIn(cache) \cup M) /\ live' = (live \cup M) \ c.freed
    BY <1>1, <1>2 DEF M
  <1> QED
    BY <1>2, <1>3, <1>4, SettleInv

LEMMA TreeNextInv == TreeInv /\ [TreeNext]_treeVars => TreeInv'
  <1> SUFFICES ASSUME TreeInv, [TreeNext]_treeVars PROVE TreeInv'
    OBVIOUS
  <1>0. Owns(Now, TreesIn(cache)) /\ docs \in [Uris -> Texts \cup {NoText}]
    BY DEF TreeInv
  <1>1. ASSUME NEW u \in Uris, NEW text \in Texts, ParseFails(u, text)
        PROVE  TreeInv'
    <2>1. Owns(LruGet(Now, u), TreesIn(cache))
      BY <1>0, <1>1, GetOwns DEF ParseFails
    <2>2. /\ Settle(LruGet(Now, u), {}, Touch(used, u)) /\ UNCHANGED borrows
          /\ docs' \in [Uris -> Texts \cup {NoText}]
      BY <1>0, <1>1 DEF ParseFails
    <2> QED
      BY <2>1, <2>2, SettleOwnInv
  <1>2. ASSUME NEW u \in Uris, Close(u)
        PROVE  TreeInv'
    <2>1. Owns(LruDelete(Now, u), TreesIn(cache))
      BY <1>0, DeleteOwns
    <2>2. /\ Settle(LruDelete(Now, u), {}, used) /\ UNCHANGED borrows
          /\ docs' \in [Uris -> Texts \cup {NoText}]
      BY <1>0, <1>2 DEF Close
    <2> QED
      BY <2>1, <2>2, SettleOwnInv
  <1>3. CASE TreesRelieved
    <2> DEFINE n == (Len(cache) + 1) \div 2
    <2>1. n \in Nat
      <3>1. Len(cache) \in Nat
        BY <1>0 DEF Owns, Now
      <3> QED
        BY <3>1
    <2>2. Settle(EvictOldest(Now, n), {}, used) /\ UNCHANGED <<docs, borrows>>
      BY <1>3 DEF TreesRelieved
    <2> HIDE DEF n
    <2> QED
      BY <1>0, <2>1, <2>2, EvictOldestOwns, SettleOwnInv
  <1>4. CASE ShutdownTrees
    <2>1. Owns(LruClear(Now), TreesIn(cache))
      BY <1>0, ClearOwns
    <2>2. Settle(LruClear(Now), {}, used) /\ UNCHANGED <<docs, borrows>>
      BY <1>4 DEF ShutdownTrees
    <2> QED
      BY <1>0, <2>1, <2>2, SettleOwnInv
  <1>5. CASE UNCHANGED treeVars
    <2>1. /\ Now' = Now /\ TreesIn(cache)' = TreesIn(cache) /\ Held' = Held
          /\ HeldTrees' = HeldTrees /\ docs' = docs /\ borrows' = borrows /\ live' = live
          /\ cache' = cache
      BY <1>5 DEF treeVars, Now, TreesIn, Held, HeldTrees
    <2>2. Owns(Now, TreesIn(cache))'
      BY <1>0, <2>1
    <2> QED
      BY <2>1, <2>2 DEF TreeInv
  <1> QED
    BY <1>1, <1>2, <1>3, <1>4, <1>5, EditInv, RequestInv, RequestEndsInv DEF TreeNext

-------------------------------------------------------------------------------
(* Counting. *)

\* Different things have different images, so there are as many of these.
LEMMA ImageCardinality ==
  ASSUME NEW S, IsFiniteSet(S), NEW f, f = [x \in S |-> f[x]],
         \A x, y \in S : f[x] = f[y] => x = y
  PROVE  LET T == {f[x] : x \in S} IN IsFiniteSet(T) /\ Cardinality(T) = Cardinality(S)
  <1> DEFINE T == {f[x] : x \in S}
  <1>1. f \in Bijection(S, T)
    BY DEF Bijection, Injection, Surjection, IsInjective
  <1>2. ExistsBijection(S, T)
    BY <1>1 DEF ExistsBijection
  <1> HIDE DEF T
  <1>3. IsFiniteSet(T) /\ Cardinality(T) = Cardinality(S)
    BY <1>2, FS_Bijection
  <1> QED
    BY <1>3 DEF T

LEMMA TreeInitInv == TreeInit => TreeInv
  <1> SUFFICES ASSUME TreeInit PROVE TreeInv
    OBVIOUS
  <1>1. /\ cache = <<>> /\ total = 0 /\ live = {} /\ <<>> \in Seq(Entry)
        /\ docs = [u \in Uris |-> NoText] /\ borrows = [h \in Handlers |-> NoTree]
    BY DEF TreeInit
  <1>2. Held = {} /\ HeldTrees = {} /\ TreesIn(cache) = {}
    BY <1>1 DEF Held, HeldTrees, TreesIn
  <1>3. Owns(Now, TreesIn(cache))
    BY <1>1, <1>2 DEF Owns, Now, Distinct
  <1> QED
    BY <1>1, <1>2, <1>3, FS_EmptySet DEF TreeInv, NoTree

LEMMA OwnersCounted == TreeInv => BorrowedTreesLive
  <1> SUFFICES ASSUME TreeInv PROVE BorrowedTreesLive
    OBVIOUS
  <1> DEFINE f == [i \in 1..Len(cache) |-> cache[i].tree]
             b == [h \in Held |-> borrows[h].tree]
  <1>1. /\ cache \in Seq(Entry) /\ Distinct(cache) /\ Len(cache) \in Nat
        /\ DOMAIN cache = 1..Len(cache)
    BY DEF TreeInv, Owns, Now
  <1>2. /\ live = TreesIn(cache) \cup HeldTrees /\ TreesIn(cache) \cap HeldTrees = {}
        /\ IsFiniteSet(Held)
    BY DEF TreeInv
  <1>3. IsFiniteSet(TreesIn(cache)) /\ Cardinality(TreesIn(cache)) = Len(cache)
    <2>1. IsFiniteSet(1..Len(cache)) /\ Cardinality(1..Len(cache)) = Len(cache)
      BY <1>1, FS_Interval
    <2>2. /\ f = [i \in 1..Len(cache) |-> f[i]]
          /\ \A i, j \in 1..Len(cache) : f[i] = f[j] => i = j
          /\ {f[i] : i \in 1..Len(cache)} = TreesIn(cache)
      BY <1>1 DEF Distinct, TreesIn
    <2> HIDE DEF f
    <2> DEFINE S == 1..Len(cache)
    <2>3. /\ IsFiniteSet(S) /\ Cardinality(S) = Len(cache) /\ f = [i \in S |-> f[i]]
          /\ \A i, j \in S : f[i] = f[j] => i = j
          /\ {f[i] : i \in S} = TreesIn(cache)
      BY <2>1, <2>2
    <2> HIDE DEF S
    <2> QED
      BY <2>3, ImageCardinality
  <1>4. IsFiniteSet(HeldTrees) /\ Cardinality(HeldTrees) = Cardinality(Held)
    <2>1. /\ b = [h \in Held |-> b[h]]
          /\ \A g, h \in Held : b[g] = b[h] => g = h
          /\ {b[h] : h \in Held} = HeldTrees
      BY DEF TreeInv, HeldTrees
    <2> HIDE DEF b
    <2> QED
      BY <1>2, <2>1, ImageCardinality
  <1>5. Cardinality(live) = Len(cache) + Cardinality(Held)
    <2>1. Cardinality(live) = Cardinality(TreesIn(cache)) + Cardinality(HeldTrees)
                                - Cardinality(TreesIn(cache) \cap HeldTrees)
      BY <1>2, <1>3, <1>4, FS_Union
    <2>2. Cardinality(TreesIn(cache) \cap HeldTrees) = 0 /\ Cardinality(Held) \in Nat
      BY <1>2, FS_EmptySet, FS_CardinalityType
    <2> QED
      BY <1>1, <1>3, <1>4, <2>1, <2>2
  <1> QED
    BY <1>2, <1>5 DEF BorrowedTreesLive, Held, HeldTrees, TreesIn

\* No suspended handler finds its tree freed, whatever is parsed, evicted,
\* closed or cleared meanwhile, and every tree that lives has its one owner.
THEOREM BorrowsSurvive == TreeSpec => []BorrowedTreesLive
  <1> QED
    BY TreeInitInv, OwnersCounted, TreeNextInv, PTL DEF TreeSpec

-------------------------------------------------------------------------------
(* How large the heap can grow. *)

LEMMA GetLen ==
  ASSUME NEW c, NEW T, Owns(c, T), NEW u, Has(c, u)
  PROVE  Len(LruGet(c, u).entries) = Len(c.entries)
  <1> DEFINE k == PlaceOf(c, u)
             w == RemoveAt(c.entries, k)
             s == Append(w, c.entries[k])
  <1>1. k \in DOMAIN c.entries /\ c.entries \in Seq(Entry) /\ Distinct(c.entries)
    BY PlaceExists DEF Owns
  <1>2. LruGet(c, u).entries = s
    BY DEF LruGet, Without, EntryOf, Owns
  <1> HIDE DEF k
  <1>3. w \in Seq(Entry) /\ Len(w) = Len(c.entries) - 1
    BY <1>1, RemoveAtTrees
  <1>4. Len(c.entries) \in Nat
    BY <1>1
  <1> HIDE DEF w
  <1>5. Len(s) = Len(w) + 1
    BY <1>3
  <1> QED
    BY <1>2, <1>3, <1>4, <1>5

LEMMA DeleteLen ==
  ASSUME NEW c, NEW T, Owns(c, T), NEW u
  PROVE  Len(LruDelete(c, u).entries) <= Len(c.entries)
  <1>0. Len(c.entries) \in Nat
    BY DEF Owns
  <1>1. CASE ~Has(c, u)
    BY <1>0, <1>1 DEF LruDelete
  <1>2. CASE Has(c, u)
    <2> DEFINE k == PlaceOf(c, u)
    <2>1. k \in DOMAIN c.entries /\ c.entries \in Seq(Entry) /\ Distinct(c.entries)
      BY <1>2, PlaceExists DEF Owns
    <2>2. LruDelete(c, u).entries = RemoveAt(c.entries, k)
      BY <1>2 DEF LruDelete, Without
    <2> HIDE DEF k
    <2>3. Len(RemoveAt(c.entries, k)) = Len(c.entries) - 1
      BY <2>1, RemoveAtTrees
    <2> QED
      BY <1>0, <2>2, <2>3
  <1> QED
    BY <1>1, <1>2

LEMMA EvictLen ==
  ASSUME NEW c, NEW T, Owns(c, T), NEW n \in 0..Len(c.entries)
  PROVE  Len(Evict(c, n).entries) = Len(c.entries) - n
  <1>1. c.entries \in Seq(Entry)
    BY DEF Owns
  <1>2. Len(SubSeq(c.entries, n + 1, Len(c.entries))) = Len(c.entries) - n
    BY <1>1, RestOfSeq DEF Rest
  <1> QED
    BY <1>2 DEF Evict

\* The loops of set() stop at the first count of evictions that makes room.
LEMMA EvictForLen ==
  ASSUME NEW c, NEW T, Owns(c, T), NEW bytes
  PROVE  Len(EvictFor(c, bytes).entries) < MaxEntries
  <1> DEFINE S == {n \in 0..Len(c.entries) : Fits(c, n, bytes)}
             m == Min(S)
  <1>1. Len(c.entries) \in Nat
    BY DEF Owns
  <1>2. Len(c.entries) \in S
    BY <1>1 DEF Fits
  <1>3. S \subseteq Nat /\ S # {} /\ \A n \in S : n \in 0..Len(c.entries) /\ Fits(c, n, bytes)
    BY <1>1, <1>2
  <1>4. EvictFor(c, bytes) = Evict(c, m)
    BY DEF EvictFor
  <1> HIDE DEF S
  <1>5. m \in S
    <2>1. \E x \in S : \A y \in S : x <= y
      BY <1>3, LeastNatural
    <2> QED
      BY <2>1 DEF Min
  <1> HIDE DEF m
  <1>6. Len(Evict(c, m).entries) = Len(c.entries) - m
    BY <1>3, <1>5, EvictLen
  <1>7. m = Len(c.entries) \/ Len(c.entries) - m < MaxEntries
    BY <1>3, <1>5 DEF Fits
  <1> QED
    BY <1>1, <1>3, <1>4, <1>5, <1>6, <1>7, CacheAssumption

LEMMA EvictOldestLen ==
  ASSUME NEW c, NEW T, Owns(c, T), NEW count \in Nat
  PROVE  Len(EvictOldest(c, count).entries) <= Len(c.entries)
  <1> DEFINE S == {count, Len(c.entries)}
             m == Min(S)
  <1>1. Len(c.entries) \in Nat
    BY DEF Owns
  <1>2. m \in S /\ m <= Len(c.entries)
    <2>1. \E x \in S : \A y \in S : x =< y
      BY <1>1
    <2>2. m \in S /\ \A y \in S : m =< y
      BY <2>1 DEF Min
    <2> QED
      BY <2>2
  <1>3. EvictOldest(c, count) = Evict(c, m)
    BY DEF EvictOldest
  <1> HIDE DEF m
  <1>4. m \in 0..Len(c.entries)
    BY <1>1, <1>2
  <1>5. Len(Evict(c, m).entries) = Len(c.entries) - m
    BY <1>4, EvictLen
  <1> QED
    BY <1>1, <1>3, <1>4, <1>5

LEMMA SetLen ==
  ASSUME NEW c, NEW T, Owns(c, T), NEW e \in Entry, e.tree \notin T
  PROVE  Len(LruSet(c, e).entries) <= MaxEntries
  <1> DEFINE d == EvictFor(LruDelete(c, e.uri), Bytes[e.text])
  <1>1. Owns(d, T) /\ Len(d.entries) < MaxEntries
    BY DeleteOwns, EvictForOwns, EvictForLen
  <1>2. LruSet(c, e) = [d EXCEPT !.entries = Append(@, e), !.total = @ + Bytes[e.text]]
    BY DEF LruSet
  <1> HIDE DEF d
  <1>3. LruSet(c, e).entries = Append(d.entries, e)
    BY <1>1, <1>2 DEF Owns
  <1>4. d.entries \in Seq(Entry) /\ Len(d.entries) \in Nat
    BY <1>1 DEF Owns
  <1>5. Len(Append(d.entries, e)) = Len(d.entries) + 1
    BY <1>4
  <1> QED
    BY <1>1, <1>3, <1>4, <1>5, CacheAssumption

\* parse() hands the cache back within its ceiling.
LEMMA ParsedLen ==
  ASSUME TreeInv, Len(cache) <= MaxEntries, NEW u \in Uris, NEW text \in Texts, Trees \ live # {}
  PROVE  Len(Parsed(u, text).c.entries) <= MaxEntries
  <1>1. Fresh \in Trees \ live
    BY DEF Fresh
  <1>2. Owns(Now, TreesIn(cache)) /\ TreesIn(cache) \subseteq live /\ Now.entries = cache
    BY DEF TreeInv, Now
  <1>3. CASE Hit(u, text)
    <2>1. Has(Now, u)
      BY <1>3 DEF Hit
    <2>2. Len(LruGet(Now, u).entries) = Len(cache)
      BY <1>2, <2>1, GetLen
    <2>3. Parsed(u, text).c = LruGet(Now, u)
      BY <1>3 DEF Parsed
    <2> QED
      BY <2>2, <2>3
  <1>4. CASE ~Hit(u, text)
    <2> DEFINE e == [uri |-> u, text |-> text, tree |-> Fresh]
               d == IF Has(Now, u) THEN LruGet(Now, u) ELSE Now
    <2>1. e \in Entry /\ e.tree \notin TreesIn(cache)
      BY <1>1, <1>2 DEF Entry
    <2>2. Owns(d, TreesIn(cache))
      BY <1>2, GetOwns
    <2>3. Parsed(u, text).c = LruSet(d, e)
      BY <1>4 DEF Parsed
    <2> HIDE DEF e, d
    <2> QED
      BY <2>1, <2>2, <2>3, SetLen
  <1> QED
    BY <1>3, <1>4

LEMMA HeapNext ==
  ASSUME TreeInv, Len(cache) <= MaxEntries, [TreeNext]_treeVars
  PROVE  (Len(cache) <= MaxEntries)'
  <1>0. /\ Owns(Now, TreesIn(cache)) /\ Now.entries = cache /\ Len(cache) \in Nat
        /\ MaxEntries \in Nat
    BY CacheAssumption DEF TreeInv, Owns, Now
  <1>1. ASSUME NEW u \in Uris, NEW text \in Texts, Edit(u, text)
        PROVE  Len(cache') <= MaxEntries
    BY <1>1, ParsedLen DEF Edit, Settle
  <1>2. ASSUME NEW h \in Handlers, NEW u \in Uris, Request(h, u)
        PROVE  Len(cache') <= MaxEntries
    <2>1. docs[u] \in Texts
      BY <1>2 DEF Request, TreeInv
    <2> QED
      BY <1>2, <2>1, ParsedLen DEF Request, Borrow, Settle
  <1>3. ASSUME NEW u \in Uris, NEW text \in Texts, ParseFails(u, text)
        PROVE  Len(cache') <= MaxEntries
    <2>1. Len(LruGet(Now, u).entries) = Len(cache)
      BY <1>0, <1>3, GetLen DEF ParseFails
    <2> QED
      BY <1>3, <2>1 DEF ParseFails, Settle
  <1>4. ASSUME NEW u \in Uris, Close(u)
        PROVE  Len(cache') <= MaxEntries
    <2>1. Len(LruDelete(Now, u).entries) <= Len(cache)
      BY <1>0, DeleteLen
    <2>2. cache' = LruDelete(Now, u).entries /\ Owns(LruDelete(Now, u), TreesIn(cache))
      BY <1>0, <1>4, DeleteOwns DEF Close, Settle
    <2>3. Len(cache') \in Nat
      BY <2>2 DEF Owns
    <2> QED
      BY <1>0, <2>1, <2>2, <2>3
  <1>5. CASE TreesRelieved
    <2> DEFINE n == (Len(cache) + 1) \div 2
    <2>1. n \in Nat
      BY <1>0
    <2>2. cache' = EvictOldest(Now, n).entries
      BY <1>5 DEF TreesRelieved, Settle
    <2> HIDE DEF n
    <2>3. Len(EvictOldest(Now, n).entries) <= Len(cache) /\ Owns(EvictOldest(Now, n), TreesIn(cache))
      BY <1>0, <2>1, EvictOldestLen, EvictOldestOwns
    <2>4. Len(cache') \in Nat
      BY <2>2, <2>3 DEF Owns
    <2> QED
      BY <1>0, <2>2, <2>3, <2>4
  <1>6. CASE ShutdownTrees
    <2>1. cache' = <<>>
      BY <1>6 DEF ShutdownTrees, Settle, LruClear
    <2> QED
      BY <1>0, <2>1
  <1>7. CASE (\E h \in Handlers : RequestEnds(h)) \/ UNCHANGED treeVars
    BY <1>0, <1>7 DEF RequestEnds, treeVars
  <1> QED
    BY <1>1, <1>2, <1>3, <1>4, <1>5, <1>6, <1>7 DEF TreeNext

WithinCeiling == Len(cache) <= MaxEntries
HeapBounded ==
  Cardinality(live) <= MaxEntries + Cardinality({h \in Handlers : borrows[h] # NoTree})

\* The WASM heap never holds more trees than the cache may have entries and
\* handlers are suspended, however texts, evictions and awaits mix.
THEOREM HeapIsBounded == TreeSpec => []HeapBounded
  <1>1. TreeInit => TreeInv /\ WithinCeiling
    BY TreeInitInv, CacheAssumption DEF TreeInit, WithinCeiling
  <1>2. TreeInv /\ WithinCeiling /\ [TreeNext]_treeVars => TreeInv' /\ WithinCeiling'
    BY TreeNextInv, HeapNext DEF WithinCeiling
  <1>3. TreeInv /\ WithinCeiling => HeapBounded
    <2> SUFFICES ASSUME TreeInv, WithinCeiling PROVE HeapBounded
      OBVIOUS
    <2>1. Cardinality(live) = Len(cache) + Cardinality({h \in Handlers : borrows[h] # NoTree})
      BY OwnersCounted DEF BorrowedTreesLive
    <2>2. Len(cache) \in Nat /\ MaxEntries \in Nat /\ IsFiniteSet(Held)
      BY CacheAssumption DEF TreeInv, Owns, Now
    <2>3. Cardinality({h \in Handlers : borrows[h] # NoTree}) \in Nat
      BY <2>2, FS_CardinalityType DEF Held
    <2> QED
      BY <2>1, <2>2, <2>3 DEF HeapBounded, WithinCeiling
  <1> QED
    BY <1>1, <1>2, <1>3, PTL DEF TreeSpec

-------------------------------------------------------------------------------
(* The bytes of a cache. *)

IsSum(g, s) == g = [n \in 0..Len(s) |-> IF n = 0 THEN 0 ELSE g[n - 1] + Bytes[s[n].text]]
\* G counts the bytes of the entries of s one by one.
Counts(G, s) == G[0] = 0 /\ \A i \in 1..Len(s) : G[i] = G[i - 1] + Bytes[s[i].text]

LEMMA SumOf ==
  ASSUME NEW s, Len(s) \in Nat, NEW G, Counts(G, s)
  PROVE  BytesOf(s) = G[Len(s)]
  <1> DEFINE N == Len(s)
             sum[n \in 0..N] == IF n = 0 THEN 0 ELSE sum[n - 1] + Bytes[s[n].text]
  <1>1. BytesOf(s) = sum[N]
    BY DEF BytesOf
  <1>2. \E g : IsSum(g, s)
    <2> DEFINE g == [n \in 0..N |-> G[n]]
    <2>1. ASSUME NEW n \in 0..N
          PROVE  g[n] = IF n = 0 THEN 0 ELSE g[n - 1] + Bytes[s[n].text]
      <3>1. CASE n = 0
        BY <3>1 DEF Counts
      <3>2. CASE n # 0
        <4>1. n \in 1..N /\ n - 1 \in 0..N
          BY <3>2
        <4> QED
          BY <3>2, <4>1 DEF Counts
      <3> QED
        BY <3>1, <3>2
    <2>2. g = [n \in 0..N |-> g[n]]
      OBVIOUS
    <2> HIDE DEF g
    <2>3. g = [n \in 0..N |-> IF n = 0 THEN 0 ELSE g[n - 1] + Bytes[s[n].text]]
      BY <2>1, <2>2
    <2> QED
      BY <2>3 DEF IsSum
  <1>3. IsSum(sum, s)
    <2>1. sum = [n \in 0..N |-> IF n = 0 THEN 0 ELSE sum[n - 1] + Bytes[s[n].text]]
      BY <1>2 DEF IsSum
    <2> QED
      BY <2>1 DEF IsSum
  <1>4. ASSUME NEW n \in 0..N
        PROVE  sum[n] = IF n = 0 THEN 0 ELSE sum[n - 1] + Bytes[s[n].text]
    <2> HIDE DEF sum
    <2> QED
      BY <1>3 DEF IsSum
  <1> HIDE DEF sum
  <1>5. \A n \in 0..N : sum[n] = G[n]
    <2> DEFINE D == {n \in 0..N : sum[n] # G[n]}
    <2> SUFFICES ASSUME D # {} PROVE FALSE
      OBVIOUS
    <2>1. PICK k \in D : \A n \in D : k <= n
      <3>1. D \subseteq Nat
        OBVIOUS
      <3> HIDE DEF D
      <3> QED
        BY <3>1, LeastNatural
    <2>2. k \in 0..N /\ k # 0
      BY <1>4, <2>1 DEF Counts
    <2>3. k - 1 \in 0..N /\ k \in 1..N /\ ~(k <= k - 1)
      BY <2>2
    <2>4. sum[k - 1] = G[k - 1]
      BY <2>1, <2>3
    <2> QED
      BY <1>4, <2>1, <2>2, <2>3, <2>4 DEF Counts
  <1> QED
    BY <1>1, <1>5

LEMMA CountsExist ==
  ASSUME NEW s \in Seq(Entry)
  PROVE  \E G : Counts(G, s) /\ \A n \in 0..Len(s) : G[n] \in Nat
  <1> DEFINE N == Len(s)
             Upto(m) == \E G : /\ G[0] = 0 /\ \A i \in 1..m : G[i] = G[i - 1] + Bytes[s[i].text]
                               /\ \A n \in 0..m : G[n] \in Nat
  <1>0. N \in Nat /\ \A i \in 1..N : Bytes[s[i].text] \in Nat
    <2>1. Len(s) \in Nat /\ \A i \in 1..Len(s) : s[i] \in Entry
      OBVIOUS
    <2>2. \A x \in Entry : x.text \in Texts
      BY DEF Entry
    <2> QED
      BY <2>1, <2>2, CacheAssumption
  <1>1. Upto(N)
    <2> DEFINE D == {m \in 0..N : ~Upto(m)}
    <2> SUFFICES ASSUME D # {} PROVE FALSE
      BY <1>0
    <2>0. D \subseteq Nat
      OBVIOUS
    <2>1. PICK k \in D : \A n \in D : k <= n
      <3> HIDE DEF D
      <3> QED
        BY <2>0, LeastNatural
    <2>2. CASE k = 0
      <3> DEFINE G == [n \in {0} |-> 0]
      <3>1. G[0] = 0 /\ \A n \in 0..0 : G[n] \in Nat
        OBVIOUS
      <3>2. \A i \in 1..0 : FALSE
        OBVIOUS
      <3> HIDE DEF G
      <3>3. Upto(0)
        BY <3>1, <3>2
      <3> QED
        BY <2>1, <2>2, <3>3
    <2>3. CASE k # 0
      <3>1. k \in 1..N /\ k - 1 \in 0..N /\ ~(k <= k - 1)
        BY <1>0, <2>1, <2>3
      <3>2. Upto(k - 1)
        BY <2>1, <3>1
      <3>3. PICK G : /\ G[0] = 0 /\ \A i \in 1..(k - 1) : G[i] = G[i - 1] + Bytes[s[i].text]
                     /\ \A n \in 0..(k - 1) : G[n] \in Nat
        BY <3>2
      <3> DEFINE H == [n \in 0..k |-> IF n = k THEN G[k - 1] + Bytes[s[k].text] ELSE G[n]]
      <3>4. H[0] = 0 /\ H[k] = G[k - 1] + Bytes[s[k].text] /\ \A n \in 0..(k - 1) : H[n] = G[n]
        BY <3>1, <3>3
      <3> HIDE DEF H
      <3>5. ASSUME NEW i \in 1..k
            PROVE  H[i] = H[i - 1] + Bytes[s[i].text]
        <4>1. i - 1 \in 0..(k - 1) /\ (i = k \/ i \in 1..(k - 1)) /\ (i # k => i \in 0..(k - 1))
          BY <3>1
        <4> QED
          BY <3>3, <3>4, <4>1
      <3>6. ASSUME NEW n \in 0..k
            PROVE  H[n] \in Nat
        <4>1. (n = k \/ n \in 0..(k - 1)) /\ k - 1 \in 0..(k - 1)
          BY <3>1
        <4>2. H[k] \in Nat
          BY <1>0, <3>1, <3>3, <3>4, <4>1
        <4> QED
          BY <3>3, <3>4, <4>1, <4>2
      <3>7. Upto(k)
        BY <3>4, <3>5, <3>6
      <3> QED
        BY <2>1, <3>7
    <2> QED
      BY <2>2, <2>3
  <1> QED
    BY <1>1 DEF Counts

LEMMA AppendBytes ==
  ASSUME NEW s \in Seq(Entry), NEW e \in Entry
  PROVE  BytesOf(Append(s, e)) = BytesOf(s) + Bytes[e.text] /\ BytesOf(s) \in Nat
  <1> DEFINE N == Len(s)
             r == Append(s, e)
             b == Bytes[e.text]
  <1>1. /\ N \in Nat /\ Len(r) = N + 1 /\ r[N + 1] = e /\ \A i \in 1..N : r[i] = s[i]
    BY AppendProperties
  <1>2. PICK G : Counts(G, s) /\ \A n \in 0..N : G[n] \in Nat
    BY CountsExist
  <1> DEFINE H == [n \in 0..(N + 1) |-> IF n = N + 1 THEN G[N] + b ELSE G[n]]
  <1>3. H[N + 1] = G[N] + b /\ \A n \in 0..N : H[n] = G[n]
    BY <1>1
  <1> HIDE DEF H, r, b
  <1>4. Counts(H, r)
    <2>1. H[0] = 0
      BY <1>1, <1>2, <1>3 DEF Counts
    <2>2. ASSUME NEW i \in 1..(N + 1)
          PROVE  H[i] = H[i - 1] + Bytes[r[i].text]
      <3>1. CASE i = N + 1
        <4>1. i - 1 \in 0..N /\ i - 1 = N
          BY <1>1, <3>1
        <4> QED
          BY <1>1, <1>3, <3>1, <4>1 DEF b
      <3>2. CASE i # N + 1
        <4>1. i \in 1..N /\ i \in 0..N /\ i - 1 \in 0..N
          BY <1>1, <3>2
        <4> QED
          BY <1>1, <1>2, <1>3, <4>1 DEF Counts
      <3> QED
        BY <3>1, <3>2
    <2> QED
      BY <1>1, <2>1, <2>2 DEF Counts
  <1>5. BytesOf(r) = H[N + 1]
    <2>1. Len(r) \in Nat /\ Len(r) = N + 1
      BY <1>1
    <2> QED
      BY <1>4, <2>1, SumOf
  <1>6. BytesOf(s) = G[N] /\ G[N] \in Nat
    <2>1. N \in 0..N
      BY <1>1
    <2> QED
      BY <1>1, <1>2, <2>1, SumOf
  <1> QED
    BY <1>3, <1>5, <1>6 DEF r, b

LEMMA SplitBytes ==
  ASSUME NEW s \in Seq(Entry), NEW n \in 0..Len(s)
  PROVE  LET p == SubSeq(s, 1, n)
             q == SubSeq(s, n + 1, Len(s)) IN
         /\ BytesOf(s) = BytesOf(p) + BytesOf(q)
         /\ BytesOf(p) \in Nat /\ BytesOf(q) \in Nat
  <1> DEFINE N == Len(s)
             p == SubSeq(s, 1, n)
             q == SubSeq(s, n + 1, Len(s))
  <1>1. p \in Seq(Entry) /\ Len(p) = n /\ \A i \in 1..n : p[i] = s[i]
    BY PrefixOfSeq
  <1>2. q \in Seq(Entry) /\ Len(q) = N - n /\ \A i \in 1..(N - n) : q[i] = s[n + i]
    BY RestOfSeq DEF Rest
  <1>3. N \in Nat /\ n \in Nat /\ n <= N /\ N - n \in Nat
    OBVIOUS
  <1> HIDE DEF p, q
  <1>4. PICK G : Counts(G, s) /\ \A i \in 0..N : G[i] \in Nat
    BY CountsExist
  <1>5. BytesOf(p) = G[n]
    <2>1. \A i \in 1..n : i \in 1..N
      BY <1>3
    <2>2. Counts(G, p)
      BY <1>1, <1>4, <2>1 DEF Counts
    <2> QED
      BY <1>1, <1>3, <2>2, SumOf
  <1> DEFINE H == [i \in 0..(N - n) |-> G[n + i] - G[n]]
  <1>6. \A i \in 0..(N - n) : H[i] = G[n + i] - G[n] /\ n + i \in 0..N
    BY <1>3
  <1>7. Counts(H, q)
    <2>0. n \in 0..N /\ 0 \in 0..(N - n) /\ n + 0 = n
      BY <1>3
    <2>1. H[0] = 0
      BY <1>4, <1>6, <2>0
    <2>2. ASSUME NEW i \in 1..(N - n)
          PROVE  H[i] = H[i - 1] + Bytes[q[i].text]
      <3>1. i \in 0..(N - n) /\ i - 1 \in 0..(N - n) /\ n + i \in 1..N /\ n + (i - 1) = (n + i) - 1
        BY <1>3
      <3>2. G[n + i] = G[(n + i) - 1] + Bytes[s[n + i].text]
        BY <1>4, <3>1 DEF Counts
      <3>3. H[i] = G[n + i] - G[n] /\ H[i - 1] = G[(n + i) - 1] - G[n]
        BY <1>6, <3>1
      <3>4. G[n] \in Nat /\ G[(n + i) - 1] \in Nat /\ G[n + i] \in Nat
        BY <1>4, <1>6, <2>0, <3>1
      <3>5. Bytes[s[n + i].text] \in Nat
        <4>1. s[n + i] \in Entry
          BY <3>1
        <4>2. s[n + i].text \in Texts
          BY <4>1 DEF Entry
        <4> QED
          BY <4>2, CacheAssumption
      <3>6. q[i] = s[n + i]
        BY <1>2
      <3>7. G[n + i] - G[n] = (G[(n + i) - 1] - G[n]) + Bytes[s[n + i].text]
        <4> DEFINE x == G[n + i]
                   y == G[(n + i) - 1]
                   z == G[n]
                   w == Bytes[s[n + i].text]
        <4>1. x = y + w /\ x \in Nat /\ y \in Nat /\ z \in Nat /\ w \in Nat
          BY <3>2, <3>4, <3>5
        <4> HIDE DEF x, y, z, w
        <4>2. x - z = (y - z) + w
          BY <4>1
        <4> QED
          BY <4>2 DEF x, y, z, w
      <3> HIDE DEF H
      <3> QED
        BY <3>3, <3>6, <3>7, Zenon
    <2> HIDE DEF H
    <2> QED
      BY <1>2, <2>1, <2>2 DEF Counts
  <1>8. BytesOf(q) = G[N] - G[n]
    <2> HIDE DEF H
    <2>1. BytesOf(q) = H[N - n]
      BY <1>2, <1>3, <1>7, SumOf
    <2>2. N - n \in 0..(N - n) /\ n + (N - n) = N
      BY <1>3
    <2> QED
      BY <1>6, <2>1, <2>2
  <1>9. BytesOf(s) = G[N] /\ G[N] \in Nat /\ G[n] \in Nat
    <2>1. N \in 0..N /\ n \in 0..N
      BY <1>3
    <2> QED
      BY <1>3, <1>4, <2>1, SumOf
  <1>10. BytesOf(q) \in Nat
    <2>1. \E K : Counts(K, q) /\ \A i \in 0..Len(q) : K[i] \in Nat
      BY <1>2, CountsExist
    <2>2. PICK K : Counts(K, q) /\ \A i \in 0..Len(q) : K[i] \in Nat
      BY <2>1
    <2>3. Len(q) \in Nat /\ Len(q) \in 0..Len(q)
      BY <1>2, <1>3
    <2> QED
      BY <2>2, <2>3, SumOf
  <1> QED
    BY <1>5, <1>8, <1>9, <1>10 DEF p, q

LEMMA RemoveBytes ==
  ASSUME NEW s \in Seq(Entry), NEW k \in DOMAIN s
  PROVE  /\ BytesOf(RemoveAt(s, k)) = BytesOf(s) - Bytes[s[k].text]
         /\ BytesOf(RemoveAt(s, k)) \in Nat
  <1> DEFINE N == Len(s)
             r == RemoveAt(s, k)
             b == Bytes[s[k].text]
  <1>1. /\ r \in Seq(Entry) /\ Len(r) = N - 1
        /\ \A i \in 1..(N - 1) : r[i] = IF i < k THEN s[i] ELSE s[i + 1]
    BY RemoveAtSeq
  <1>2. N \in Nat /\ k \in 1..N /\ N - 1 \in Nat
    OBVIOUS
  <1> HIDE DEF r
  <1>3. PICK G : Counts(G, s) /\ \A i \in 0..N : G[i] \in Nat
    BY CountsExist
  <1>4. \A i \in 1..N : Bytes[s[i].text] \in Nat
    <2>1. \A i \in 1..N : s[i] \in Entry
      OBVIOUS
    <2>2. \A x \in Entry : x.text \in Texts
      BY DEF Entry
    <2> QED
      BY <2>1, <2>2, CacheAssumption
  <1> DEFINE H == [i \in 0..(N - 1) |-> IF i < k THEN G[i] ELSE G[i + 1] - b]
  <1>5. \A i \in 0..(N - 1) : H[i] = IF i < k THEN G[i] ELSE G[i + 1] - b
    OBVIOUS
  <1> HIDE DEF H, b
  <1>6. G[k] = G[k - 1] + b /\ b \in Nat /\ G[k] \in Nat /\ G[k - 1] \in Nat
    <2>1. k \in 0..N /\ k - 1 \in 0..N
      BY <1>2
    <2> QED
      BY <1>2, <1>3, <1>4, <2>1 DEF b, Counts
  <1>7. Counts(H, r)
    <2>1. H[0] = 0
      <3>1. 0 \in 0..(N - 1) /\ 0 < k
        BY <1>2
      <3> QED
        BY <1>3, <1>5, <3>1 DEF Counts
    <2>2. ASSUME NEW i \in 1..(N - 1)
          PROVE  H[i] = H[i - 1] + Bytes[r[i].text]
      <3>1. i \in 0..(N - 1) /\ i - 1 \in 0..(N - 1) /\ i \in 1..N /\ i + 1 \in 1..N /\ (i + 1) - 1 = i
            /\ i \in 0..N /\ i + 1 \in 0..N /\ i - 1 \in 0..N /\ (i - 1) + 1 = i
        BY <1>2
      <3>2. CASE i < k
        <4>1. i - 1 < k
          BY <1>2, <3>2
        <4>2. H[i] = G[i] /\ H[i - 1] = G[i - 1] /\ r[i] = s[i]
          BY <1>1, <1>5, <3>1, <3>2, <4>1
        <4> QED
          BY <1>3, <3>1, <4>2 DEF Counts
      <3>3. CASE i = k
        <4>1. H[i] = G[i + 1] - b /\ H[i - 1] = G[i - 1] /\ r[i] = s[i + 1]
          <5>1. ~(i < k) /\ i - 1 < k
            BY <1>2, <3>3
          <5> QED
            BY <1>1, <1>5, <3>1, <5>1
        <4>2. G[i + 1] = G[i] + Bytes[s[i + 1].text] /\ Bytes[s[i + 1].text] \in Nat
          BY <1>3, <1>4, <3>1 DEF Counts
        <4> QED
          BY <1>6, <3>3, <4>1, <4>2
      <3>4. CASE i > k
        <4>1. H[i] = G[i + 1] - b /\ H[i - 1] = G[i] - b /\ r[i] = s[i + 1]
          <5>1. ~(i < k) /\ ~(i - 1 < k)
            BY <1>2, <3>4
          <5> QED
            BY <1>1, <1>5, <3>1, <5>1
        <4>2. G[i + 1] = G[i] + Bytes[s[i + 1].text] /\ Bytes[s[i + 1].text] \in Nat /\ G[i] \in Nat
          BY <1>3, <1>4, <3>1 DEF Counts
        <4> QED
          BY <1>6, <4>1, <4>2
      <3> QED
        BY <1>2, <3>2, <3>3, <3>4
    <2> QED
      BY <1>1, <2>1, <2>2 DEF Counts
  <1>8. BytesOf(r) = H[N - 1]
    BY <1>1, <1>2, <1>7, SumOf
  <1>9. H[N - 1] = G[N] - b
    <2>1. N - 1 \in 0..(N - 1) /\ (N - 1) + 1 = N
      BY <1>2
    <2>2. CASE N = k
      BY <1>2, <1>5, <1>6, <2>1, <2>2
    <2>3. CASE N # k
      BY <1>2, <1>5, <2>1, <2>3
    <2> QED
      BY <2>2, <2>3
  <1>10. BytesOf(s) = G[N]
    BY <1>2, <1>3, SumOf
  <1>11. BytesOf(r) \in Nat
    <2>1. PICK K : Counts(K, r) /\ \A i \in 0..Len(r) : K[i] \in Nat
      BY <1>1, CountsExist
    <2>2. Len(r) \in Nat /\ Len(r) \in 0..Len(r)
      BY <1>1, <1>2
    <2> QED
      BY <2>1, <2>2, SumOf
  <1> QED
    BY <1>8, <1>9, <1>10, <1>11 DEF r, b

-------------------------------------------------------------------------------
(* The order of use. *)

\* The entries are in the order of their last use.
Ordered(s, us) == \A i, j \in DOMAIN s : i < j <=> <<s[i].uri, s[j].uri>> \in us

LEMMA OrderedUris ==
  ASSUME NEW s \in Seq(Entry), NEW us, Ordered(s, us), NEW i \in DOMAIN s, NEW j \in DOMAIN s,
         s[i].uri = s[j].uri
  PROVE  i = j
  <1>1. i \in Nat /\ j \in Nat
    OBVIOUS
  <1>2. ~(<<s[i].uri, s[i].uri>> \in us)
    <2>1. ~(i < i)
      BY <1>1
    <2> QED
      BY <2>1 DEF Ordered
  <1>3. ~(i < j) /\ ~(j < i)
    BY <1>2 DEF Ordered
  <1> QED
    BY <1>1, <1>3

LEMMA RemoveOrdered ==
  ASSUME NEW s \in Seq(Entry), NEW us, Ordered(s, us), NEW k \in DOMAIN s
  PROVE  Ordered(RemoveAt(s, k), us) /\ \A i \in DOMAIN RemoveAt(s, k) : RemoveAt(s, k)[i].uri # s[k].uri
  <1> DEFINE r == RemoveAt(s, k)
             at(i) == IF i < k THEN i ELSE i + 1
  <1>1. /\ r \in Seq(Entry) /\ Len(r) = Len(s) - 1
        /\ \A i \in 1..(Len(s) - 1) : r[i] = IF i < k THEN s[i] ELSE s[i + 1]
    BY RemoveAtSeq
  <1> HIDE DEF r
  <1>2. Len(s) \in Nat /\ DOMAIN s = 1..Len(s) /\ DOMAIN r = 1..(Len(s) - 1)
    BY <1>1
  <1>3. \A i \in DOMAIN r : at(i) \in DOMAIN s /\ r[i] = s[at(i)] /\ at(i) # k
    BY <1>1, <1>2
  <1>4. \A i, j \in DOMAIN r : i < j <=> at(i) < at(j)
    BY <1>2
  <1> HIDE DEF at
  <1>5. Ordered(r, us)
    BY <1>3, <1>4 DEF Ordered
  <1>6. \A i \in DOMAIN r : r[i].uri # s[k].uri
    BY <1>3, OrderedUris
  <1> QED
    BY <1>5, <1>6 DEF r

LEMMA AppendOrdered ==
  ASSUME NEW s \in Seq(Entry), NEW us, Ordered(s, us), NEW e \in Entry,
         \A i \in DOMAIN s : s[i].uri # e.uri
  PROVE  Ordered(Append(s, e), Touch(us, e.uri))
  <1> DEFINE r == Append(s, e)
             N == Len(s)
  <1>1. /\ Len(r) = N + 1 /\ r[N + 1] = e /\ \A i \in 1..N : r[i] = s[i]
        /\ r \in Seq(Entry) /\ N \in Nat
    BY AppendProperties
  <1>2. DOMAIN s = 1..N /\ DOMAIN r = 1..(N + 1)
    BY <1>1
  <1> HIDE DEF r, N
  <1>3. ASSUME NEW i \in DOMAIN r, NEW j \in DOMAIN r
        PROVE  i < j <=> <<r[i].uri, r[j].uri>> \in Touch(us, e.uri)
    <2>1. CASE j = N + 1 /\ i # N + 1
      <3>1. i \in DOMAIN s /\ r[i] = s[i] /\ i < j /\ r[j] = e
        BY <1>1, <1>2, <2>1
      <3>2. s[i].uri \in Uris \ {e.uri}
        <4>1. s[i] \in Entry
          BY <3>1
        <4> QED
          BY <3>1, <4>1 DEF Entry
      <3> QED
        BY <3>1, <3>2 DEF Touch
    <2>2. CASE i = N + 1
      <3>1. ~(i < j) /\ r[i].uri = e.uri
        BY <1>1, <1>2, <2>2
      <3>2. <<e.uri, r[j].uri>> \notin Touch(us, e.uri)
        BY DEF Touch
      <3> QED
        BY <3>1, <3>2
    <2>3. CASE i # N + 1 /\ j # N + 1
      <3>1. i \in DOMAIN s /\ r[i] = s[i] /\ j \in DOMAIN s /\ r[j] = s[j]
        BY <1>1, <1>2, <2>3
      <3>2. s[i].uri # e.uri /\ s[j].uri # e.uri
        BY <3>1
      <3>3. <<s[i].uri, s[j].uri>> \in Touch(us, e.uri) <=> <<s[i].uri, s[j].uri>> \in us
        BY <3>2 DEF Touch
      <3> QED
        BY <3>1, <3>3 DEF Ordered
    <2> QED
      BY <2>1, <2>2, <2>3
  <1> QED
    BY <1>3 DEF Ordered, r

LEMMA DropOrdered ==
  ASSUME NEW s \in Seq(Entry), NEW us, Ordered(s, us), NEW n \in 0..Len(s)
  PROVE  Ordered(SubSeq(s, n + 1, Len(s)), us)
  <1> DEFINE r == SubSeq(s, n + 1, Len(s))
  <1>1. /\ r \in Seq(Entry) /\ Len(r) = Len(s) - n
        /\ \A i \in 1..(Len(s) - n) : r[i] = s[n + i]
    BY RestOfSeq DEF Rest
  <1> HIDE DEF r
  <1>2. /\ Len(s) \in Nat /\ n \in Nat /\ DOMAIN s = 1..Len(s) /\ DOMAIN r = 1..(Len(s) - n)
    BY <1>1
  <1>3. \A i \in DOMAIN r : n + i \in DOMAIN s /\ r[i] = s[n + i]
    BY <1>1, <1>2
  <1>4. \A i, j \in DOMAIN r : i < j <=> n + i < n + j
    BY <1>2
  <1> QED
    BY <1>3, <1>4 DEF Ordered, r

-------------------------------------------------------------------------------
(* What the operations keep. *)

\* The order of the entries is that of their use, the total is their sum.
LruOK(c, us) == Ordered(c.entries, us) /\ c.total = BytesOf(c.entries) /\ c.total \in Nat
\* Neither ceiling is broken, unless by one entry alone.
Within(c) == Len(c.entries) <= MaxEntries /\ (c.total > MaxBytes => Len(c.entries) = 1)

LEMMA NoBytes == BytesOf(<<>>) = 0 /\ Ordered(<<>>, {}) /\ Len(<<>>) = 0
  <1>1. Counts([n \in {0} |-> 0], <<>>)
    BY DEF Counts
  <1>2. BytesOf(<<>>) = [n \in {0} |-> 0][0]
    BY <1>1, SumOf
  <1> QED
    BY <1>2 DEF Ordered

\* A hit makes its document the last one used.
LEMMA GetLru ==
  ASSUME NEW c, NEW T, Owns(c, T), NEW us, LruOK(c, us), NEW u, Has(c, u)
  PROVE  /\ LruOK(LruGet(c, u), Touch(us, u))
         /\ Within(c) => Within(LruGet(c, u))
  <1> DEFINE k == PlaceOf(c, u)
             w == RemoveAt(c.entries, k)
             e == c.entries[k]
             s == Append(w, e)
             r == LruGet(c, u)
  <1>1. k \in DOMAIN c.entries /\ c.entries \in Seq(Entry)
    BY PlaceExists DEF Owns
  <1>2. e \in Entry /\ e.uri = u
    BY <1>1, ElementOfSeq DEF Has, PlaceOf
  <1>3. r.entries = s /\ r.total = c.total
    BY DEF LruGet, Without, EntryOf, Owns
  <1> HIDE DEF k, r
  <1>4. w \in Seq(Entry)
    BY <1>1, RemoveAtSeq
  <1>5. Ordered(w, us) /\ \A i \in DOMAIN w : w[i].uri # u
    BY <1>1, <1>2, RemoveOrdered DEF LruOK
  <1>6. BytesOf(w) = c.total - Bytes[e.text]
    BY <1>1, RemoveBytes DEF LruOK
  <1> HIDE DEF w, e
  <1>7. Ordered(s, Touch(us, u))
    BY <1>2, <1>4, <1>5, AppendOrdered
  <1>8. BytesOf(s) = BytesOf(w) + Bytes[e.text] /\ BytesOf(w) \in Nat
    BY <1>2, <1>4, AppendBytes
  <1>9. e.text \in Texts /\ Bytes[e.text] \in Nat
    BY <1>2, CacheAssumption DEF Entry
  <1> HIDE DEF s
  <1>10. BytesOf(s) = c.total
    BY <1>6, <1>8, <1>9 DEF LruOK
  <1>11. Len(r.entries) = Len(c.entries)
    BY GetLen DEF r
  <1> QED
    BY <1>3, <1>7, <1>10, <1>11 DEF LruOK, Within, r

\* A deletion leaves no entry of the document, and keeps what is kept.
LEMMA DeleteLru ==
  ASSUME NEW c, NEW T, Owns(c, T), NEW us, LruOK(c, us), NEW u
  PROVE  /\ LruOK(LruDelete(c, u), us)
         /\ \A i \in DOMAIN LruDelete(c, u).entries : LruDelete(c, u).entries[i].uri # u
         /\ Within(c) => Within(LruDelete(c, u))
  <1>1. CASE ~Has(c, u)
    BY <1>1 DEF LruDelete, Has
  <1>2. CASE Has(c, u)
    <2> DEFINE k == PlaceOf(c, u)
               w == RemoveAt(c.entries, k)
               b == Bytes[c.entries[k].text]
               r == LruDelete(c, u)
    <2>1. k \in DOMAIN c.entries /\ c.entries \in Seq(Entry) /\ c.entries[k].uri = u
      BY <1>2, PlaceExists DEF Owns, Has, PlaceOf
    <2>2. r.entries = w /\ r.total = c.total - b
      BY <1>2 DEF LruDelete, Without, EntryOf
    <2> HIDE DEF k, r
    <2>3. Ordered(w, us) /\ \A i \in DOMAIN w : w[i].uri # u
      BY <2>1, RemoveOrdered DEF LruOK
    <2>4. BytesOf(w) = c.total - b /\ BytesOf(w) \in Nat
      BY <2>1, RemoveBytes DEF LruOK
    <2>5. Len(w) = Len(c.entries) - 1 /\ w \in Seq(Entry)
      BY <2>1, RemoveAtSeq
    <2>6. b \in Nat
      <3>1. c.entries[k] \in Entry
        BY <2>1, ElementOfSeq
      <3>2. c.entries[k].text \in Texts
        BY <3>1 DEF Entry
      <3> QED
        BY <3>2, CacheAssumption
    <2> HIDE DEF w, b
    <2>7. LruOK(r, us)
      BY <2>2, <2>3, <2>4 DEF LruOK
    <2>8. ASSUME Within(c)
          PROVE  Within(r)
      <3>1. Len(c.entries) \in Nat /\ MaxEntries \in Nat /\ MaxBytes \in Nat /\ c.total \in Nat
        BY <2>1, CacheAssumption DEF LruOK
      <3>2. Len(r.entries) <= MaxEntries
        BY <2>2, <2>5, <2>8, <3>1 DEF Within
      <3>3. CASE c.total > MaxBytes
        <4>1. Len(w) = 0
          BY <2>5, <2>8, <3>3 DEF Within
        <4>2. w = <<>>
          BY <2>5, <4>1, EmptySeq
        <4>3. r.total = 0
          BY <2>2, <2>4, <4>2, NoBytes
        <4>4. ~(r.total > MaxBytes)
          BY <3>1, <4>3
        <4> QED
          BY <3>2, <4>4 DEF Within
      <3>4. CASE ~(c.total > MaxBytes)
        <4>1. ~(r.total > MaxBytes)
          BY <2>2, <2>6, <3>1, <3>4
        <4> QED
          BY <3>2, <4>1 DEF Within
      <3> QED
        BY <3>3, <3>4
    <2> QED
      BY <2>2, <2>3, <2>7, <2>8 DEF r
  <1> QED
    BY <1>1, <1>2

\* Evictions take the documents that were used least recently.
LEMMA EvictLru ==
  ASSUME NEW c, NEW T, Owns(c, T), NEW us, LruOK(c, us), NEW n \in 0..Len(c.entries)
  PROVE  /\ LruOK(Evict(c, n), us)
         /\ \A i \in DOMAIN Evict(c, n).entries : \E j \in DOMAIN c.entries :
              Evict(c, n).entries[i] = c.entries[j]
         /\ Within(c) => Within(Evict(c, n))
  <1> DEFINE p == SubSeq(c.entries, 1, n)
             s == SubSeq(c.entries, n + 1, Len(c.entries))
             r == Evict(c, n)
  <1>1. c.entries \in Seq(Entry) /\ Len(c.entries) \in Nat
    BY DEF Owns
  <1>2. r.entries = s /\ r.total = c.total - BytesOf(p)
    BY DEF Evict
  <1>3. BytesOf(c.entries) = BytesOf(p) + BytesOf(s) /\ BytesOf(p) \in Nat /\ BytesOf(s) \in Nat
    BY <1>1, SplitBytes
  <1>4. Ordered(s, us)
    BY <1>1, DropOrdered DEF LruOK
  <1>5. /\ s \in Seq(Entry) /\ Len(s) = Len(c.entries) - n
        /\ \A i \in 1..(Len(c.entries) - n) : s[i] = c.entries[n + i]
    BY <1>1, RestOfSeq DEF Rest
  <1> HIDE DEF p, s, r
  <1>6. LruOK(r, us)
    BY <1>2, <1>3, <1>4 DEF LruOK
  <1>7. \A i \in DOMAIN s : \E j \in DOMAIN c.entries : s[i] = c.entries[j]
    <2>1. \A i \in DOMAIN s : i \in 1..(Len(c.entries) - n) /\ n + i \in DOMAIN c.entries
      BY <1>1, <1>5
    <2> QED
      BY <1>5, <2>1
  <1>8. ASSUME Within(c)
        PROVE  Within(r)
    <2>1. MaxEntries \in Nat /\ MaxBytes \in Nat /\ c.total \in Nat
      BY CacheAssumption DEF LruOK
    <2>2. Len(s) <= MaxEntries
      BY <1>1, <1>5, <1>8, <2>1 DEF Within
    <2>3. CASE c.total > MaxBytes /\ n = 1
      <3>1. Len(s) = 0
        BY <1>5, <1>8, <2>3 DEF Within
      <3>2. s = <<>>
        BY <1>5, <3>1, EmptySeq
      <3>3. r.total = 0
        BY <1>2, <1>6, <3>2, NoBytes DEF LruOK
      <3>4. ~(r.total > MaxBytes)
        BY <2>1, <3>3
      <3> QED
        BY <1>2, <2>2, <3>4 DEF Within
    <2>4. CASE c.total > MaxBytes /\ n # 1
      <3>0. Len(c.entries) = 1
        BY <1>8, <2>4 DEF Within
      <3>1. n = 0 /\ Len(s) = 1
        BY <1>5, <2>4, <3>0
      <3> QED
        BY <1>2, <2>2, <3>1 DEF Within
    <2>5. CASE ~(c.total > MaxBytes)
      <3>1. ~(r.total > MaxBytes)
        BY <1>2, <1>3, <2>1, <2>5
      <3> QED
        BY <1>2, <2>2, <3>1 DEF Within
    <2> QED
      BY <2>3, <2>4, <2>5
  <1> QED
    BY <1>2, <1>6, <1>7, <1>8 DEF r

\* The loops of set() stop when the new entry fits or nothing is left.
LEMMA EvictForLru ==
  ASSUME NEW c, NEW T, Owns(c, T), NEW us, LruOK(c, us), NEW bytes \in Nat
  PROVE  LET d == EvictFor(c, bytes) IN
         /\ LruOK(d, us)
         /\ \A i \in DOMAIN d.entries : \E j \in DOMAIN c.entries : d.entries[i] = c.entries[j]
         /\ Len(d.entries) = 0 \/ d.total + bytes <= MaxBytes
  <1> DEFINE S == {n \in 0..Len(c.entries) : Fits(c, n, bytes)}
             m == Min(S)
             d == Evict(c, m)
  <1>1. Len(c.entries) \in Nat
    BY DEF Owns
  <1>2. Len(c.entries) \in S
    BY <1>1 DEF Fits
  <1>3. S \subseteq Nat /\ S # {} /\ \A n \in S : n \in 0..Len(c.entries) /\ Fits(c, n, bytes)
    BY <1>1, <1>2
  <1>4. EvictFor(c, bytes) = d
    BY DEF EvictFor
  <1> HIDE DEF S
  <1>5. m \in S
    <2>1. \E x \in S : \A y \in S : x <= y
      BY <1>3, LeastNatural
    <2> QED
      BY <2>1 DEF Min
  <1> HIDE DEF m
  <1>6. m \in 0..Len(c.entries) /\ Fits(c, m, bytes)
    BY <1>3, <1>5
  <1>7. /\ LruOK(d, us)
        /\ \A i \in DOMAIN d.entries : \E j \in DOMAIN c.entries : d.entries[i] = c.entries[j]
    BY <1>6, EvictLru
  <1>8. Len(d.entries) = Len(c.entries) - m
    BY <1>6, EvictLen
  <1>9. d.total = c.total - BytesOf(SubSeq(c.entries, 1, m))
    BY DEF Evict
  <1> HIDE DEF d
  <1>10. Len(d.entries) = 0 \/ d.total + bytes <= MaxBytes
    <2>1. m = Len(c.entries) \/ c.total - BytesOf(SubSeq(c.entries, 1, m)) + bytes <= MaxBytes
      BY <1>6 DEF Fits
    <2> QED
      BY <1>1, <1>8, <1>9, <2>1
  <1> QED
    BY <1>4, <1>7, <1>10

\* set() puts its document last and keeps to the ceilings.
LEMMA SetLru ==
  ASSUME NEW c, NEW T, Owns(c, T), NEW us, LruOK(c, us), NEW e \in Entry, e.tree \notin T
  PROVE  LruOK(LruSet(c, e), Touch(us, e.uri)) /\ Within(LruSet(c, e))
  <1> DEFINE b == Bytes[e.text]
             a == LruDelete(c, e.uri)
             d == EvictFor(a, b)
             s == Append(d.entries, e)
             r == LruSet(c, e)
  <1>0. b \in Nat
    <2>1. e.text \in Texts
      BY DEF Entry
    <2> QED
      BY <2>1, CacheAssumption
  <1>1. /\ Owns(a, T) /\ LruOK(a, us) /\ \A i \in DOMAIN a.entries : a.entries[i].uri # e.uri
    BY DeleteOwns, DeleteLru
  <1>2. r = [d EXCEPT !.entries = Append(@, e), !.total = @ + b]
    BY DEF LruSet
  <1> HIDE DEF a, b, r
  <1>3. Owns(d, T)
    BY <1>1, EvictForOwns
  <1>4. /\ LruOK(d, us) /\ (Len(d.entries) = 0 \/ d.total + b <= MaxBytes)
        /\ \A i \in DOMAIN d.entries : \E j \in DOMAIN a.entries : d.entries[i] = a.entries[j]
    BY <1>0, <1>1, EvictForLru
  <1> HIDE DEF d
  <1>5. \A i \in DOMAIN d.entries : d.entries[i].uri # e.uri
    BY <1>1, <1>4
  <1>6. r.entries = s /\ r.total = d.total + b
    BY <1>2, <1>3 DEF Owns
  <1>7. d.entries \in Seq(Entry) /\ Len(d.entries) \in Nat
    BY <1>3 DEF Owns
  <1>8. Ordered(s, Touch(us, e.uri))
    BY <1>4, <1>5, <1>7, AppendOrdered DEF LruOK
  <1>9. BytesOf(s) = BytesOf(d.entries) + b
    BY <1>7, AppendBytes DEF b
  <1>10. Len(s) = Len(d.entries) + 1
    BY <1>7
  <1> HIDE DEF s
  <1>11. LruOK(r, Touch(us, e.uri))
    BY <1>0, <1>4, <1>6, <1>8, <1>9 DEF LruOK
  <1>12. Len(r.entries) <= MaxEntries
    BY SetLen DEF r
  <1>13. r.total > MaxBytes => Len(r.entries) = 1
    <2>1. MaxBytes \in Nat /\ d.total \in Nat
      BY <1>4, CacheAssumption DEF LruOK
    <2> QED
      BY <1>0, <1>4, <1>6, <1>10, <2>1
  <1> QED
    BY <1>11, <1>12, <1>13 DEF Within, r

LEMMA EvictOldestLru ==
  ASSUME NEW c, NEW T, Owns(c, T), NEW us, LruOK(c, us), NEW count \in Nat, Within(c)
  PROVE  LruOK(EvictOldest(c, count), us) /\ Within(EvictOldest(c, count))
  <1> DEFINE S == {count, Len(c.entries)}
             m == Min(S)
  <1>1. Len(c.entries) \in Nat
    BY DEF Owns
  <1>2. m \in S /\ m <= Len(c.entries)
    <2>1. \E x \in S : \A y \in S : x =< y
      BY <1>1
    <2>2. m \in S /\ \A y \in S : m =< y
      BY <2>1 DEF Min
    <2> QED
      BY <2>2
  <1>3. EvictOldest(c, count) = Evict(c, m)
    BY DEF EvictOldest
  <1> HIDE DEF m
  <1>4. m \in 0..Len(c.entries)
    BY <1>1, <1>2
  <1> QED
    BY <1>3, <1>4, EvictLru

LEMMA TouchAgain == \A us, u : Touch(Touch(us, u), u) = Touch(us, u)
  BY DEF Touch

\* parse() uses its document last, from the cache or anew.
LEMMA ParsedLru ==
  ASSUME TreeInv, NEW us, LruOK(Now, us), Within(Now), NEW u \in Uris, NEW text \in Texts,
         Trees \ live # {}
  PROVE  LruOK(Parsed(u, text).c, Touch(us, u)) /\ Within(Parsed(u, text).c)
  <1>1. Fresh \in Trees \ live
    BY DEF Fresh
  <1>2. Owns(Now, TreesIn(cache)) /\ TreesIn(cache) \subseteq live
    BY DEF TreeInv
  <1>3. CASE Hit(u, text)
    <2>1. Has(Now, u)
      BY <1>3 DEF Hit
    <2>2. Parsed(u, text).c = LruGet(Now, u)
      BY <1>3 DEF Parsed
    <2> QED
      BY <1>2, <2>1, <2>2, GetLru
  <1>4. CASE ~Hit(u, text)
    <2> DEFINE e == [uri |-> u, text |-> text, tree |-> Fresh]
               d == IF Has(Now, u) THEN LruGet(Now, u) ELSE Now
    <2>1. e \in Entry /\ e.tree \notin TreesIn(cache) /\ e.uri = u
      BY <1>1, <1>2 DEF Entry
    <2>2. Parsed(u, text).c = LruSet(d, e)
      BY <1>4 DEF Parsed
    <2>3. Owns(d, TreesIn(cache))
      BY <1>2, GetOwns
    <2>4. LruOK(d, IF Has(Now, u) THEN Touch(us, u) ELSE us)
      BY <1>2, GetLru
    <2> HIDE DEF e, d
    <2>5. CASE Has(Now, u)
      <3>1. LruOK(d, Touch(us, u))
        BY <2>4, <2>5
      <3>2. LruOK(LruSet(d, e), Touch(Touch(us, u), u)) /\ Within(LruSet(d, e))
        BY <2>1, <2>3, <3>1, SetLru
      <3> QED
        BY <2>2, <3>2, TouchAgain
    <2>6. CASE ~Has(Now, u)
      <3>1. LruOK(d, us)
        BY <2>4, <2>6
      <3> QED
        BY <2>1, <2>2, <2>3, <3>1, SetLru
    <2> QED
      BY <2>5, <2>6
  <1> QED
    BY <1>3, <1>4

\* What is forgotten of the documents that are not cached orders no entry.
LEMMA SettleLru ==
  ASSUME NEW c, NEW M, NEW us, Settle(c, M, us), LruOK(c, us), Within(c)
  PROVE  (LruOK(Now, used) /\ Within(Now))'
  <1>1. cache' = c.entries /\ total' = c.total /\ used' = {p \in us : Has(c, p[1]) /\ Has(c, p[2])}
    BY DEF Settle
  <1>2. Ordered(c.entries, used')
    <2>1. \A i \in DOMAIN c.entries : Has(c, c.entries[i].uri)
      BY DEF Has
    <2> QED
      BY <1>1, <2>1 DEF LruOK, Ordered
  <1> QED
    BY <1>1, <1>2 DEF LruOK, Within, Now, Ordered, BytesOf

CacheInv == TreeInv /\ LruOK(Now, used) /\ Within(Now)

LEMMA CacheNext == CacheInv /\ [TreeNext]_treeVars => CacheInv'
  <1> SUFFICES ASSUME CacheInv, [TreeNext]_treeVars PROVE (LruOK(Now, used) /\ Within(Now))'
    BY TreeNextInv DEF CacheInv
  <1>0. TreeInv /\ LruOK(Now, used) /\ Within(Now) /\ Owns(Now, TreesIn(cache))
    BY DEF CacheInv, TreeInv
  <1>1. ASSUME NEW u \in Uris, NEW text \in Texts, Edit(u, text)
        PROVE  (LruOK(Now, used) /\ Within(Now))'
    <2>1. Settle(Parsed(u, text).c, Parsed(u, text).made, Touch(used, u)) /\ Trees \ live # {}
      BY <1>1 DEF Edit
    <2>2. LruOK(Parsed(u, text).c, Touch(used, u)) /\ Within(Parsed(u, text).c)
      BY <1>0, <2>1, ParsedLru
    <2> QED
      BY <2>1, <2>2, SettleLru
  <1>2. ASSUME NEW h \in Handlers, NEW u \in Uris, Request(h, u)
        PROVE  (LruOK(Now, used) /\ Within(Now))'
    <2>1. docs[u] \in Texts /\ Trees \ live # {}
      BY <1>0, <1>2 DEF Request, TreeInv
    <2>2. \E M : Settle(Parsed(u, docs[u]).c, M, Touch(used, u))
      BY <1>2 DEF Request, Borrow
    <2>3. LruOK(Parsed(u, docs[u]).c, Touch(used, u)) /\ Within(Parsed(u, docs[u]).c)
      BY <1>0, <2>1, ParsedLru
    <2> QED
      BY <2>2, <2>3, SettleLru
  <1>3. ASSUME NEW u \in Uris, NEW text \in Texts, ParseFails(u, text)
        PROVE  (LruOK(Now, used) /\ Within(Now))'
    <2>1. Has(Now, u) /\ Settle(LruGet(Now, u), {}, Touch(used, u))
      BY <1>3 DEF ParseFails
    <2>2. LruOK(LruGet(Now, u), Touch(used, u)) /\ Within(LruGet(Now, u))
      BY <1>0, <2>1, GetLru
    <2> QED
      BY <2>1, <2>2, SettleLru
  <1>4. ASSUME NEW u \in Uris, Close(u)
        PROVE  (LruOK(Now, used) /\ Within(Now))'
    <2>1. Settle(LruDelete(Now, u), {}, used)
      BY <1>4 DEF Close
    <2>2. LruOK(LruDelete(Now, u), used) /\ Within(LruDelete(Now, u))
      BY <1>0, DeleteLru
    <2> QED
      BY <2>1, <2>2, SettleLru
  <1>5. CASE TreesRelieved
    <2> DEFINE n == (Len(cache) + 1) \div 2
    <2>1. n \in Nat
      <3>1. Len(cache) \in Nat
        BY <1>0 DEF Owns, Now
      <3> QED
        BY <3>1
    <2>2. Settle(EvictOldest(Now, n), {}, used)
      BY <1>5 DEF TreesRelieved
    <2> HIDE DEF n
    <2>3. LruOK(EvictOldest(Now, n), used) /\ Within(EvictOldest(Now, n))
      BY <1>0, <2>1, EvictOldestLru
    <2> QED
      BY <2>2, <2>3, SettleLru
  <1>6. CASE ShutdownTrees
    <2>1. Settle(LruClear(Now), {}, used)
      BY <1>6 DEF ShutdownTrees
    <2>2. LruClear(Now).entries = <<>> /\ LruClear(Now).total = 0
      BY DEF LruClear
    <2>3. LruOK(LruClear(Now), used)
      BY <2>2, NoBytes DEF LruOK, Ordered
    <2>4. Within(LruClear(Now))
      BY <2>2, NoBytes, CacheAssumption DEF Within
    <2> QED
      BY <2>1, <2>3, <2>4, SettleLru
  <1>7. CASE (\E h \in Handlers : RequestEnds(h)) \/ UNCHANGED treeVars
    <2>1. cache' = cache /\ total' = total /\ used' = used
      BY <1>7 DEF RequestEnds, treeVars
    <2> QED
      BY <1>0, <2>1 DEF LruOK, Within, Now, Ordered, BytesOf
  <1> QED
    BY <1>1, <1>2, <1>3, <1>4, <1>5, <1>6, <1>7 DEF TreeNext

\* However hits, edits, failed parses, closes, sweeps and shutdown mix, the
\* order in which set() evicts is that of the last uses, the running total of
\* LRUCache is the sum of its entries, and neither ceiling is exceeded but by
\* one entry that is alone too large.
THEOREM CacheEvictsLeastRecent == TreeSpec => []EvictsLeastRecent
  <1>1. TreeInit => CacheInv
    <2> SUFFICES ASSUME TreeInit PROVE CacheInv
      OBVIOUS
    <2>1. TreeInv /\ Now.entries = <<>> /\ Now.total = 0 /\ used = {}
      BY TreeInitInv DEF TreeInit, Now
    <2> QED
      BY <2>1, NoBytes, CacheAssumption DEF CacheInv, LruOK, Within
  <1>2. CacheInv => EvictsLeastRecent
    BY DEF CacheInv, LruOK, Within, Ordered, Now, EvictsLeastRecent
  <1> QED
    BY <1>1, <1>2, CacheNext, PTL DEF TreeSpec

-------------------------------------------------------------------------------
(* The two directions of the type hierarchy. *)

\* Classes are numbered from one, and no two of a file have one name.
WellNamed ==
  \A f \in RenameFiles :
    /\ DOMAIN Classes(f) \subseteq Nat \ {0}
    /\ \A i, j \in DOMAIN Classes(f) : Classes(f)[i].name = Classes(f)[j].name => i = j

LEMMA ClassIndexFinds ==
  ASSUME WellNamed, NEW f \in RenameFiles, NEW name
  PROVE  LET k == ClassIndex(f, name) IN
         /\ k = 0 => \A i \in DOMAIN Classes(f) : Classes(f)[i].name # name
         /\ k # 0 => k \in DOMAIN Classes(f) /\ Classes(f)[k].name = name
         /\ \A i \in DOMAIN Classes(f) : Classes(f)[i].name = name => i = k
  <1> DEFINE hits == {i \in DOMAIN Classes(f) : Classes(f)[i].name = name}
             k == ClassIndex(f, name)
  <1>1. k = IF hits = {} THEN 0 ELSE Min(hits)
    BY DEF ClassIndex
  <1>2. hits \subseteq Nat /\ 0 \notin hits
    BY DEF WellNamed
  <1>3. hits # {} => Min(hits) \in hits
    <2> SUFFICES ASSUME hits # {} PROVE Min(hits) \in hits
      OBVIOUS
    <2> HIDE DEF hits
    <2>1. \E x \in hits : \A y \in hits : x <= y
      BY <1>2, LeastNatural
    <2> QED
      BY <2>1 DEF Min
  <1> HIDE DEF k
  <1>4. k = 0 => hits = {}
    BY <1>1, <1>2, <1>3
  <1>5. k # 0 => k \in hits
    BY <1>1, <1>3
  <1>6. \A i, j \in hits : i = j
    BY DEF WellNamed
  <1>7. hits # {} => k # 0
    BY <1>4
  <1> QED
    BY <1>4, <1>5, <1>6, <1>7 DEF k

\* What a class is, and what its clause names in its file and in the library.
LEMMA ClassPlaces ==
  /\ \A c \in AllClasses : c = <<c[1], c[2]>> /\ c[1] \in RenameFiles /\ c[2] \in DOMAIN Classes(c[1])
  /\ \A f \in RenameFiles : \A i \in DOMAIN Classes(f) : <<f, i>> \in AllClasses
  BY DEF AllClasses, ClassesOf, RenameFiles

\* The parent of a class, when names are apart.
LEMMA ParentIsNamed ==
  ASSUME WellNamed, NamesApart, NEW c \in AllClasses, NEW p \in AllClasses
  PROVE  Parent(c) = p <=>
           /\ NameOf(p) = InheritClause(c)
           /\ p[1] = c[1] \/ DependsOn(c[1], p[1])
  <1> DEFINE f == c[1]
             name == Classes(c[1])[c[2]].inherits
             beside == ClassIndex(f, name)
             above == ClassIndex("lib", name)
  <1>1. /\ c = <<f, c[2]>> /\ f \in {"lib", "app"} /\ c[2] \in DOMAIN Classes(f)
        /\ p = <<p[1], p[2]>> /\ p[1] \in {"lib", "app"} /\ p[2] \in DOMAIN Classes(p[1])
    BY ClassPlaces DEF RenameFiles
  <1>2. 0 \notin DOMAIN Classes(f) /\ 0 \notin DOMAIN Classes(p[1])
    BY <1>1 DEF WellNamed, RenameFiles
  <1>3. /\ beside = 0 => \A i \in DOMAIN Classes(f) : Classes(f)[i].name # name
        /\ beside # 0 => beside \in DOMAIN Classes(f) /\ Classes(f)[beside].name = name
        /\ \A i \in DOMAIN Classes(f) : Classes(f)[i].name = name => i = beside
    BY <1>1, ClassIndexFinds DEF RenameFiles
  <1>4. /\ above # 0 => above \in DOMAIN Classes("lib") /\ Classes("lib")[above].name = name
        /\ \A i \in DOMAIN Classes("lib") : Classes("lib")[i].name = name => i = above
    BY ClassIndexFinds DEF RenameFiles
  <1>5. Parent(c) = IF beside \notin {0, c[2]} THEN <<f, beside>>
                    ELSE <<"lib", IF f = "app" THEN above ELSE 0>>
    BY DEF Parent
  <1>6. beside # c[2]
    <2>1. name # Classes(f)[c[2]].name
      BY DEF NamesApart, InheritClause, NameOf
    <2> QED
      BY <1>1, <1>2, <1>3, <2>1
  <1>7. NameOf(p) = Classes(p[1])[p[2]].name /\ InheritClause(c) = name
    BY DEF NameOf, InheritClause
  <1>8. ASSUME f = "app", p[1] = "lib", Classes(p[1])[p[2]].name = name
        PROVE  beside = 0
    <2> SUFFICES ASSUME beside # 0 PROVE FALSE
      OBVIOUS
    <2>1. <<f, beside>> \in AllClasses /\ Classes(f)[beside].name = name
      BY <1>1, <1>3, ClassPlaces DEF RenameFiles
    <2>2. NameOf(<<f, beside>>) = name
      BY <2>1 DEF NameOf
    <2>3. DependsOn(<<f, beside>>[1], p[1])
      BY <1>8 DEF DependsOn
    <2> QED
      BY <1>7, <1>8, <2>1, <2>2, <2>3 DEF NamesApart
  <1> HIDE DEF beside, above, name
  <1>9. CASE beside # 0
    <2>1. Parent(c) = <<f, beside>>
      BY <1>5, <1>6, <1>9
    <2>2. Parent(c) = p <=> p[1] = f /\ p[2] = beside
      BY <1>1, <2>1
    <2>3. ~(DependsOn(f, p[1]) /\ NameOf(p) = name)
      BY <1>7, <1>8, <1>9 DEF DependsOn
    <2> QED
      BY <1>1, <1>3, <1>7, <1>9, <2>2, <2>3
  <1>10. CASE beside = 0
    <2>1. Parent(c) = <<"lib", IF f = "app" THEN above ELSE 0>>
      BY <1>5, <1>10
    <2>2. Parent(c) = p <=> p[1] = "lib" /\ p[2] = IF f = "app" THEN above ELSE 0
      BY <1>1, <2>1
    <2>3. ~(p[1] = f /\ NameOf(p) = name)
      BY <1>1, <1>3, <1>7, <1>10
    <2> QED
      BY <1>1, <1>2, <1>4, <1>7, <2>2, <2>3 DEF DependsOn
  <1> QED
    BY <1>9, <1>10

\* getSupertypes finds the parent, wired or by name.
LEMMA SupertypesAreParents ==
  ASSUME WellNamed, NamesApart, NEW c \in AllClasses
  PROVE  GetSupertypes(c) = ParentsOf(c)
  <1> DEFINE f == c[1]
             name == InheritClause(c)
             own == {d \in CandidatesFor(c) : d[1] = c[1]}
             reached == {d \in CandidatesFor(c) : DependsOn(c[1], d[1])}
  <1>1. \A d \in AllClasses : d[2] = ClassIndex(d[1], name) <=> NameOf(d) = name
    <2> SUFFICES ASSUME NEW d \in AllClasses
                 PROVE  d[2] = ClassIndex(d[1], name) <=> NameOf(d) = name
      OBVIOUS
    <2>1. d[1] \in RenameFiles /\ d[2] \in DOMAIN Classes(d[1]) /\ d[2] # 0
      BY ClassPlaces DEF WellNamed
    <2> QED
      BY <2>1, ClassIndexFinds DEF NameOf
  <1>2. /\ own = {d \in AllClasses : NameOf(d) = name /\ d[1] = f}
        /\ reached = {d \in AllClasses : NameOf(d) = name /\ DependsOn(f, d[1])}
    BY <1>1 DEF CandidatesFor
  <1>3. ParentsOf(c) = own \cup reached
    BY <1>2, ParentIsNamed DEF ParentsOf
  <1>4. own = {} \/ reached = {}
    <2>1. ASSUME NEW d \in own, NEW e \in reached
          PROVE  FALSE
      <3>1. /\ d \in AllClasses /\ e \in AllClasses /\ NameOf(d) = name /\ NameOf(e) = name
            /\ DependsOn(d[1], e[1])
        BY <1>2, <2>1
      <3> QED
        BY <3>1 DEF NamesApart
    <2> QED
      BY <2>1
  <1>5. CollectCrossFileSupertypes(c) = own \cup reached
    BY <1>4 DEF CollectCrossFileSupertypes
  <1>6. WiredTo(c) \subseteq own
    <2> SUFFICES ASSUME NEW p \in WiredTo(c) PROVE p \in own
      OBVIOUS
    <2> DEFINE beside == ClassIndex(f, name)
    <2>1. f \in RenameFiles /\ name = Classes(f)[c[2]].inherits
      BY ClassPlaces DEF InheritClause
    <2>2. p = <<f, beside>> /\ beside # 0
      BY DEF WiredTo, Inherited, InheritClause
    <2>3. beside \in DOMAIN Classes(f) /\ Classes(f)[beside].name = name
      BY <2>1, <2>2, ClassIndexFinds
    <2> HIDE DEF beside, own
    <2>4. p \in AllClasses /\ p[1] = f /\ NameOf(p) = name
      BY <2>1, <2>2, <2>3, ClassPlaces DEF NameOf
    <2> QED
      BY <1>2, <2>4
  <1> QED
    BY <1>3, <1>5, <1>6 DEF GetSupertypes

\* getSubtypes finds the classes of which a class is the parent.
LEMMA SubtypesAreChildren ==
  ASSUME WellNamed, NamesApart, NEW c \in AllClasses
  PROVE  GetSubtypes(c) = {d \in AllClasses : c \in ParentsOf(d)}
  <1> SUFFICES ASSUME NEW d \in AllClasses
               PROVE  (CheckInheritedScopesForTarget(c, d) \/ CheckInheritDeclarationsForTarget(c, d))
                        <=> c \in ParentsOf(d)
    BY DEF GetSubtypes
  <1>1. c \in ParentsOf(d) <=>
          NameOf(c) = InheritClause(d) /\ (c[1] = d[1] \/ DependsOn(d[1], c[1]))
    BY ParentIsNamed DEF ParentsOf
  <1>2. CheckInheritDeclarationsForTarget(c, d) <=> c \in ParentsOf(d)
    BY <1>1 DEF CheckInheritDeclarationsForTarget
  <1>3. ASSUME CheckInheritedScopesForTarget(c, d)
        PROVE  c \in ParentsOf(d)
    <2>1. PICK p \in WiredTo(d) : NameOf(p) = NameOf(c) /\ (p[1] = c[1] \/ d[1] = c[1])
      BY <1>3 DEF CheckInheritedScopesForTarget
    <2>2. p \in ParentsOf(d)
      BY <2>1, SupertypesAreParents DEF GetSupertypes
    <2>3. p \in AllClasses /\ NameOf(p) = InheritClause(d)
      BY <2>2, ParentIsNamed DEF ParentsOf
    <2>4. p[1] = d[1]
      BY <2>1 DEF WiredTo
    <2>5. c[1] = d[1]
      BY <2>1, <2>4
    <2> QED
      BY <1>1, <2>1, <2>3, <2>5
  <1> QED
    BY <1>2, <1>3

\* Asked of any class of any two files in which names are unique, the type
\* hierarchy's two directions are those of what Pike inherits.
THEOREM HierarchyAgrees == HierarchySpec /\ WellNamed => []HierarchyIsMutual
  <1>1. HierarchyInit => HierarchyIsMutual
    BY DEF HierarchyInit, HierarchyIsMutual
  <1>2. ASSUME WellNamed, HierarchyIsMutual, [HierarchyNext]_<<renameVars, hierarchyVars>>
        PROVE  WellNamed' /\ HierarchyIsMutual'
    <2>1. UNCHANGED renameVars
      BY <1>2 DEF HierarchyNext, AskHierarchy
    <2>2. program' = program
      BY <2>1 DEF renameVars
    <2>3. WellNamed'
      BY <1>2, <2>2 DEF WellNamed, Classes
    <2>4. NamesApart' <=> NamesApart
      BY <2>2 DEF NamesApart, AllClasses, ClassesOf, NameOf, InheritClause, Classes
    <2>5. AllClasses' = AllClasses /\ \A d : Parent(d)' = Parent(d)
      BY <2>2 DEF AllClasses, ClassesOf, Classes, Parent, ClassIndex
    <2>6. ASSUME NEW c \in AllClasses, AskHierarchy(c), NamesApart
          PROVE  /\ hierarchy'.parents = ParentsOf(hierarchy'.of)
                 /\ hierarchy'.children = {d \in AllClasses : hierarchy'.of \in ParentsOf(d)}
      BY <1>2, <2>6, SupertypesAreParents, SubtypesAreChildren DEF AskHierarchy
    <2>7. ASSUME NEW x PROVE ParentsOf(x)' = ParentsOf(x)
      BY <2>5 DEF ParentsOf
    <2>8. ASSUME UNCHANGED hierarchyVars, hierarchy' # NoAnswer, NamesApart
          PROVE  /\ hierarchy'.parents = ParentsOf(hierarchy'.of)
                 /\ hierarchy'.children = {d \in AllClasses : hierarchy'.of \in ParentsOf(d)}
      BY <1>2, <2>8 DEF HierarchyIsMutual, hierarchyVars
    <2>9. CASE hierarchy' # NoAnswer /\ NamesApart
      <3>1. /\ hierarchy'.parents = ParentsOf(hierarchy'.of)
            /\ hierarchy'.children = {d \in AllClasses : hierarchy'.of \in ParentsOf(d)}
        <4>1. (\E c \in AllClasses : AskHierarchy(c)) \/ UNCHANGED hierarchyVars
          BY <1>2 DEF HierarchyNext
        <4> QED
          BY <2>6, <2>8, <2>9, <4>1
      <3>2. ParentsOf(hierarchy.of)' = ParentsOf(hierarchy'.of)
        BY <2>5 DEF ParentsOf
      <3>3. /\ {d \in AllClasses : hierarchy.of \in ParentsOf(d)}'
                = {d \in AllClasses : hierarchy'.of \in ParentsOf(d)}
        BY <2>5, <2>7
      <3> QED
        BY <2>3, <3>1, <3>2, <3>3 DEF HierarchyIsMutual
    <2> QED
      BY <2>3, <2>4, <2>9 DEF HierarchyIsMutual
  <1> QED
    BY <1>1, <1>2, PTL DEF HierarchySpec

-------------------------------------------------------------------------------
(* What a search reaches. *)

Hops(w, S) ==
  S \cup UNION {(ToSet(Seen(f).inherits) \ w) \cup Modules(f) : f \in S \ {request.file}}
IsChain(w, g, m) ==
  g = [n \in 0..m |-> IF n = 0 THEN FirstHops(w) ELSE Hops(w, g[n - 1])]

\* The hops can be followed any number of times.
LEMMA ChainExists == ASSUME NEW w, NEW m \in Nat PROVE \E g : IsChain(w, g, m)
  <1> DEFINE D == {n \in Nat : ~\E g : IsChain(w, g, n)}
  <1> SUFFICES ASSUME D # {} PROVE FALSE
    OBVIOUS
  <1>1. PICK k \in D : \A n \in D : k <= n
    <2> HIDE DEF D
    <2>1. D \subseteq Nat
      BY DEF D
    <2> QED
      BY <2>1, LeastNatural
  <1>2. CASE k = 0
    <2>1. [n \in 0..0 |-> FirstHops(w)] = [n \in 0..0 |-> IF n = 0 THEN FirstHops(w)
                                           ELSE Hops(w, [i \in 0..0 |-> FirstHops(w)][n - 1])]
      OBVIOUS
    <2> QED
      BY <1>1, <1>2, <2>1 DEF IsChain
  <1>3. CASE k # 0
    <2>1. k - 1 \in Nat /\ k - 1 \notin D
      BY <1>1, <1>3
    <2>2. PICK g : IsChain(w, g, k - 1)
      BY <2>1
    <2> DEFINE h == [n \in 0..k |-> IF n = k THEN Hops(w, g[k - 1]) ELSE g[n]]
    <2>3. ASSUME NEW n \in 0..k
          PROVE  h[n] = IF n = 0 THEN FirstHops(w) ELSE Hops(w, h[n - 1])
      <3>1. CASE n = k
        <4>1. k - 1 \in 0..k /\ k - 1 # k
          BY <1>3
        <4> QED
          BY <1>3, <3>1, <4>1
      <3>2. CASE n # k
        <4>1. n \in 0..(k - 1) /\ h[n] = g[n]
          BY <3>2
        <4>2. g[n] = IF n = 0 THEN FirstHops(w) ELSE Hops(w, g[n - 1])
          BY <2>2, <4>1 DEF IsChain
        <4>3. n # 0 => n - 1 \in 0..k /\ n - 1 # k
          BY <3>2
        <4> QED
          BY <4>1, <4>2, <4>3
      <3> QED
        BY <3>1, <3>2
    <2>4. h = [n \in 0..k |-> h[n]]
      OBVIOUS
    <2> HIDE DEF h
    <2>5. h = [n \in 0..k |-> IF n = 0 THEN FirstHops(w) ELSE Hops(w, h[n - 1])]
      BY <2>3, <2>4
    <2> QED
      BY <1>1, <2>5 DEF IsChain
  <1> QED
    BY <1>2, <1>3

LEMMA ReachableByHops ==
  ASSUME NEW w, IsFiniteSet(Files)
  PROVE  \E g : IsChain(w, g, Cardinality(Files)) /\ Reachable(w) = g[Cardinality(Files)]
  <1> DEFINE N == Cardinality(Files)
             hops(S) == S \cup UNION {(ToSet(Seen(f).inherits) \ w) \cup Modules(f) : f \in S \ {request.file}}
             reach[n \in 0..N] == IF n = 0 THEN FirstHops(w) ELSE hops(reach[n - 1])
  <1>1. N \in Nat
    BY FS_CardinalityType
  <1>2. Reachable(w) = reach[N]
    BY DEF Reachable
  <1>3. \E g : g = [n \in 0..N |-> IF n = 0 THEN FirstHops(w) ELSE hops(g[n - 1])]
    <2>1. PICK g : IsChain(w, g, N)
      BY <1>1, ChainExists
    <2> HIDE DEF N
    <2>2. g = [n \in 0..N |-> IF n = 0 THEN FirstHops(w) ELSE Hops(w, g[n - 1])]
      BY <2>1 DEF IsChain
    <2>3. \A S : Hops(w, S) = hops(S)
      BY DEF Hops
    <2> HIDE DEF hops
    <2>4. g = [n \in 0..N |-> IF n = 0 THEN FirstHops(w) ELSE hops(g[n - 1])]
      BY <2>2, <2>3
    <2> QED
      BY <2>4
  <1>4. reach = [n \in 0..N |-> IF n = 0 THEN FirstHops(w) ELSE hops(reach[n - 1])]
    BY <1>3
  <1>5. IsChain(w, reach, N)
    BY <1>4 DEF IsChain, Hops
  <1> QED
    BY <1>2, <1>5

\* What an index leads to from a file in one step of the search, but for what
\* the inherits to w hide.
Inherits(f) == InheritsReachableBy(request.qualifier, disk[f], IF f = request.file THEN 0 ELSE 1)
ThroughModule(f) == f # request.file \/ request.qualifier = "all"
Module(n, f) == IF DirModule[f] # NoFile /\ n[DirModule[f]] # NoTable THEN {DirModule[f]} ELSE {}
OutOf(n, w, f) == (ToSet(Inherits(f)) \ w) \cup {m \in Module(n, f) : ThroughModule(f)}
Closed(n, w, S) == \A f \in S \cup {request.file} : OutOf(n, w, f) \subseteq S

TableType == [inherits : Seq(Files), declares : BOOLEAN]
Frames == [file : Files, depth : Nat, module : BOOLEAN, rest : Seq(Files)]
Searches ==
  [stack : Seq(Frames), seen : SUBSET Files, state : {"running", "done"},
   found : Files \cup {NoFile}, snap : Nat, tries : {1, 2}]

\* An index holds no other table of a file than the one on demand.
IndexOK(n) ==
  /\ disk \in [Files -> TableType]
  /\ n \in [Files -> TableType \cup {NoTable}]
  /\ \A f \in Files : n[f] \in {NoTable, disk[f]}
  /\ request \in [file : {Asking}, qualifier : Files \cup {"all"}]

LEMMA SequenceElements ==
  ASSUME NEW X, NEW s \in Seq(X)
  PROVE  ToSet(s) \subseteq X /\ ToSet(s) = {s[i] : i \in 1..Len(s)}
  BY DEF ToSet

LEMMA InheritsTyped ==
  ASSUME NEW n, IndexOK(n), NEW t \in TableType, NEW d \in Nat
  PROVE  InheritsReachableBy(request.qualifier, t, d) \in Seq(Files)
  <1> DEFINE q == request.qualifier
             k == Cardinality({j \in DOMAIN t.inherits : t.inherits[j] = q})
  <1>1. CASE d > 0 \/ q = "all"
    BY <1>1 DEF InheritsReachableBy, TableType
  <1>2. CASE ~(d > 0 \/ q = "all")
    <2>1. q \in Files
      BY <1>2 DEF IndexOK
    <2>2. k \in Nat
      <3>1. t.inherits \in Seq(Files)
        BY DEF TableType
      <3>2. IsFiniteSet(1..Len(t.inherits)) /\ DOMAIN t.inherits = 1..Len(t.inherits)
        BY <3>1, FS_Interval
      <3> QED
        BY <3>2, FS_Subset, FS_CardinalityType
    <2> HIDE DEF k
    <2>3. [i \in 1..k |-> q] \in Seq(Files)
      BY <2>1, <2>2
    <2> QED
      BY <1>2, <2>3 DEF InheritsReachableBy, k
  <1> QED
    BY <1>1, <1>2

LEMMA OutOfTyped ==
  ASSUME NEW w, IndexOK(table), NEW f \in Files
  PROVE  /\ Seen(f) = disk[f] /\ disk[f] \in TableType
         /\ Inherits(f) \in Seq(Files)
         /\ ToSet(Inherits(f)) \subseteq Files /\ Modules(f) = Module(table, f) /\ Modules(f) \subseteq Files
         /\ OutOf(table, w, f) \subseteq Files
  <1>1. disk[f] \in TableType /\ Seen(f) = disk[f]
    BY DEF IndexOK, Seen
  <1>2. Inherits(f) \in Seq(Files)
    BY <1>1, InheritsTyped DEF Inherits
  <1>3. ToSet(Inherits(f)) \subseteq Files
    BY <1>2, SequenceElements
  <1>4. Modules(f) = Module(table, f) /\ Modules(f) \subseteq Files
    BY ResolutionAssumption DEF Modules, Module
  <1> QED
    BY <1>1, <1>2, <1>3, <1>4 DEF OutOf

\* The model's reference definition in these terms.
LEMMA HopsOfOut ==
  ASSUME NEW w, IndexOK(table)
  PROVE  /\ FirstHops(w) = OutOf(table, w, request.file) /\ request.file \in Files
         /\ \A S \in SUBSET Files : Hops(w, S) = S \cup UNION {OutOf(table, w, f) : f \in S \ {request.file}}
  <1>1. request.file \in Files
    BY ResolutionAssumption DEF IndexOK
  <1>2. FirstHops(w) = OutOf(table, w, request.file)
    BY <1>1, OutOfTyped DEF FirstHops, OutOf, Inherits, ThroughModule
  <1>3. ASSUME NEW f \in Files, f # request.file
        PROVE  (ToSet(Seen(f).inherits) \ w) \cup Modules(f) = OutOf(table, w, f)
    <2>1. Inherits(f) = disk[f].inherits /\ ThroughModule(f)
      BY <1>3 DEF Inherits, ThroughModule, InheritsReachableBy
    <2> QED
      BY <2>1, OutOfTyped DEF OutOf
  <1>4. ASSUME NEW S \in SUBSET Files
        PROVE  Hops(w, S) = S \cup UNION {OutOf(table, w, f) : f \in S \ {request.file}}
    <2>1. {(ToSet(Seen(f).inherits) \ w) \cup Modules(f) : f \in S \ {request.file}}
            = {OutOf(table, w, f) : f \in S \ {request.file}}
      BY <1>3
    <2> QED
      BY <2>1 DEF Hops
  <1> QED
    BY <1>1, <1>2, <1>4

\* The reachable files are a closed set, and within every closed set.
LEMMA ReachableIsLeast ==
  ASSUME NEW w, IndexOK(table), IsFiniteSet(Files)
  PROVE  /\ Reachable(w) \subseteq Files /\ Closed(table, w, Reachable(w))
         /\ \A S \in SUBSET Files : Closed(table, w, S) => Reachable(w) \subseteq S
  <1> DEFINE N == Cardinality(Files)
  <1>0. N \in Nat
    BY FS_CardinalityType
  <1>1. PICK g : IsChain(w, g, N) /\ Reachable(w) = g[N]
    BY ReachableByHops
  <1>2. /\ g[0] = OutOf(table, w, request.file)
        /\ \A n \in 0..N : n # 0 =>
             (g[n - 1] \subseteq Files =>
                g[n] = g[n - 1] \cup UNION {OutOf(table, w, f) : f \in g[n - 1] \ {request.file}})
    <2>1. \A n \in 0..N : g[n] = IF n = 0 THEN FirstHops(w) ELSE Hops(w, g[n - 1])
      BY <1>1 DEF IsChain
    <2> QED
      BY <1>0, <2>1, HopsOfOut
  <1>3. request.file \in Files /\ \A f \in Files : OutOf(table, w, f) \subseteq Files
    BY HopsOfOut, OutOfTyped
  <1> HIDE DEF N
  <1> DEFINE Good(n) == /\ g[n] \subseteq Files
                        /\ OutOf(table, w, request.file) \subseteq g[n]
                        /\ Closed(table, w, g[n]) \/ Cardinality(g[n]) >= n
                        /\ \A S \in SUBSET Files : Closed(table, w, S) => g[n] \subseteq S
  <1>4. Good(0)
    <2>1. g[0] \subseteq Files
      BY <1>2, <1>3
    <2>2. Cardinality(g[0]) \in Nat
      BY <2>1, FS_Subset, FS_CardinalityType
    <2>3. \A S \in SUBSET Files : Closed(table, w, S) => g[0] \subseteq S
      BY <1>2 DEF Closed
    <2> QED
      BY <1>2, <2>1, <2>2, <2>3
  <1>5. ASSUME NEW n \in 0..N, n # 0, Good(n - 1)
        PROVE  Good(n)
    <2> DEFINE P == g[n - 1]
    <2>1. g[n] = P \cup UNION {OutOf(table, w, f) : f \in P \ {request.file}} /\ P \subseteq Files
      BY <1>2, <1>5
    <2>2. OutOf(table, w, request.file) \subseteq P
      BY <1>5
    <2>3. g[n] \subseteq Files
      BY <1>3, <2>1
    <2>4. ASSUME NEW S \in SUBSET Files, Closed(table, w, S)
          PROVE  g[n] \subseteq S
      <3>1. P \subseteq S
        BY <1>5, <2>4
      <3> QED
        BY <2>1, <2>4, <3>1 DEF Closed
    <2>5. CASE Closed(table, w, P)
      <3>1. g[n] = P
        BY <2>1, <2>5 DEF Closed
      <3> QED
        BY <1>5, <2>3, <2>4, <2>5, <3>1
    <2>6. CASE ~Closed(table, w, P)
      <3>1. P # g[n]
        <4>1. PICK f \in P \cup {request.file} : ~(OutOf(table, w, f) \subseteq P)
          BY <2>6 DEF Closed
        <4>2. f \in P \ {request.file}
          BY <2>2, <4>1
        <4> QED
          BY <2>1, <4>1, <4>2
      <3>2. IsFiniteSet(g[n]) /\ IsFiniteSet(P)
        BY <2>1, <2>3, FS_Subset
      <3>3. Cardinality(P) < Cardinality(g[n])
        <4>1. P \in SUBSET g[n] /\ P # g[n]
          BY <2>1, <3>1
        <4>2. Cardinality(P) <= Cardinality(g[n]) /\ Cardinality(P) # Cardinality(g[n])
          BY <3>2, <4>1, FS_Subset
        <4>3. Cardinality(P) \in Nat /\ Cardinality(g[n]) \in Nat
          BY <3>2, FS_CardinalityType
        <4> QED
          BY <4>2, <4>3
      <3>4. Cardinality(P) >= n - 1 /\ Cardinality(P) \in Nat /\ Cardinality(g[n]) \in Nat
        BY <1>5, <2>6, <3>2, FS_CardinalityType
      <3>5. Cardinality(g[n]) >= n
        BY <1>0, <3>3, <3>4
      <3> QED
        BY <2>1, <2>2, <2>3, <2>4, <3>5
    <2> QED
      BY <2>5, <2>6
  <1>6. Good(N)
    <2> DEFINE D == {n \in 0..N : ~Good(n)}
    <2> SUFFICES ASSUME D # {} PROVE FALSE
      BY <1>0
    <2> HIDE DEF Good
    <2>1. PICK k \in D : \A n \in D : k <= n
      <3> HIDE DEF D
      <3>1. D \subseteq Nat
        BY <1>0 DEF D
      <3> QED
        BY <3>1, LeastNatural
    <2>2. k \in 0..N /\ k # 0 /\ ~Good(k)
      BY <1>4, <2>1
    <2>3. k - 1 \in 0..N /\ ~(k <= k - 1)
      BY <1>0, <2>2
    <2>4. Good(k - 1)
      BY <2>1, <2>3
    <2> QED
      BY <1>5, <2>2, <2>4
  <1>7. Closed(table, w, g[N])
    <2> SUFFICES ASSUME Cardinality(g[N]) >= N PROVE Closed(table, w, g[N])
      BY <1>6
    <2>1. g[N] \subseteq Files /\ IsFiniteSet(g[N])
      BY <1>6, FS_Subset
    <2>2. g[N] = Files
      <3> SUFFICES ASSUME g[N] # Files PROVE FALSE
        OBVIOUS
      <3>1. Cardinality(g[N]) < Cardinality(Files) /\ Cardinality(g[N]) \in Nat
        BY <2>1, FS_Subset, FS_CardinalityType
      <3> QED
        BY <1>0, <3>1 DEF N
    <2> QED
      BY <1>3, <2>2 DEF Closed
  <1> QED
    BY <1>1, <1>6, <1>7

-------------------------------------------------------------------------------
(* What the search keeps, in an index n that holds still. *)

Silent(s) == {f \in s.seen : ~disk[f].declares}
OnStack(s, f) == \E k \in DOMAIN s.stack : s.stack[k].file = f

\* A frame still has to follow some of what its file leads to.
FrameOK(x, k, seen) ==
  /\ x.depth = k - 1 /\ x.file \in seen
  /\ ToSet(x.rest) \subseteq ToSet(Inherits(x.file))
  /\ x.module => ThroughModule(x.file)

\* Whatever was seen or found can be reached.
Sound(n, s) ==
  /\ s \in Searches /\ request.file \in s.seen
  /\ \A k \in DOMAIN s.stack : FrameOK(s.stack[k], k, s.seen)
  /\ \A S \in SUBSET Files : Closed(n, {}, S) =>
       s.seen \subseteq S \cup {request.file} /\ s.found \in S \cup {NoFile}
  /\ s.found # NoFile => disk[s.found].declares /\ s.stack = <<>>

\* Until something is found, what was left behind leads nowhere else: what a
\* frame has followed, and what a file that left the stack leads to, was seen
\* and does not declare the name, but for the files F that are next.
FrameDone(n, w, x, N) ==
  /\ ToSet(Inherits(x.file)) \ w \subseteq N \cup ToSet(x.rest)
  /\ ThroughModule(x.file) /\ ~x.module => Module(n, x.file) \subseteq N
Thorough(n, w, s, F) ==
  s.found = NoFile =>
    /\ IsFiniteSet(s.seen) /\ Len(s.stack) <= Cardinality(s.seen)
    /\ \A f \in s.seen \ {request.file} : ~disk[f].declares
    /\ \A f \in s.seen : OnStack(s, f) \/ OutOf(n, w, f) \subseteq Silent(s) \cup F
    /\ \A k \in DOMAIN s.stack : FrameDone(n, w, s.stack[k], Silent(s) \cup F)

\* No chain is cut off: few enough files can be reached at all.
Near(C) ==
  /\ IsFiniteSet(C) /\ Cardinality(C) <= MaxDepth + 1 /\ Asking \in C
  /\ \A f \in C : ToSet(disk[f].inherits) \cup ({DirModule[f]} \cap Files) \subseteq C
Shallow == \E C \in SUBSET Files : Near(C)

LEMMA NearIsClosed ==
  ASSUME NEW n, IndexOK(n), NEW C \in SUBSET Files, Near(C)
  PROVE  Closed(n, {}, C) /\ request.file \in C
  <1>1. request.file = Asking /\ request.file \in C
    BY DEF IndexOK, Near
  <1>2. ASSUME NEW f \in C
        PROVE  ToSet(Inherits(f)) \subseteq ToSet(disk[f].inherits)
    <2> DEFINE t == disk[f]
               q == request.qualifier
               J == {j \in DOMAIN t.inherits : t.inherits[j] = q}
               k == Cardinality(J)
    <2>1. t \in TableType /\ t.inherits \in Seq(Files)
      BY DEF IndexOK, TableType
    <2>2. CASE Inherits(f) = t.inherits
      BY <2>2
    <2>3. CASE Inherits(f) = [i \in 1..k |-> q]
      <3>1. IsFiniteSet(J) /\ k \in Nat
        <4>1. IsFiniteSet(1..Len(t.inherits)) /\ DOMAIN t.inherits = 1..Len(t.inherits)
          BY <2>1, FS_Interval
        <4> QED
          BY <4>1, FS_Subset, FS_CardinalityType
      <3>2. ASSUME NEW x \in ToSet(Inherits(f))
            PROVE  x \in ToSet(t.inherits)
        <4>1. x = q /\ k # 0
          <5> HIDE DEF k
          <5>1. \E i \in 1..k : x = q
            BY <2>3, <3>1, <3>2 DEF ToSet
          <5> QED
            BY <3>1, <5>1
        <4>2. J # {}
          BY <4>1, FS_EmptySet
        <4> QED
          BY <2>1, <4>1, <4>2 DEF ToSet
      <3> QED
        BY <3>2
    <2> QED
      BY <2>2, <2>3 DEF Inherits, InheritsReachableBy
  <1>3. ASSUME NEW f \in C
        PROVE  Module(n, f) \subseteq C
    BY <1>3, ResolutionAssumption DEF Near, Module
  <1>4. ASSUME NEW f \in C
        PROVE  OutOf(n, {}, f) \subseteq C
    BY <1>2, <1>3, <1>4 DEF OutOf, Near
  <1> QED
    BY <1>1, <1>4 DEF Closed

\* A file is marked, and gets a frame unless it is too deep.
EnteredAs(s, f, x) == [s EXCEPT !.seen = @ \cup {f}, !.stack = Append(@, x)]

LEMMA FrameOf ==
  ASSUME NEW n, IndexOK(n), NEW f \in Files, f # request.file, NEW d \in Nat \ {0}
  PROVE  LET x == [file |-> f, depth |-> d, module |-> d > 0 \/ request.qualifier = "all",
                   rest |-> InheritsReachableBy(request.qualifier, disk[f], d)] IN
         /\ x \in Frames /\ x = [file |-> f, depth |-> d, module |-> TRUE, rest |-> Inherits(f)]
         /\ ThroughModule(f)
  <1>1. Inherits(f) = InheritsReachableBy(request.qualifier, disk[f], d)
    BY DEF Inherits, InheritsReachableBy
  <1>2. InheritsReachableBy(request.qualifier, disk[f], d) \in Seq(Files)
    <2>1. disk[f] \in TableType
      BY DEF IndexOK
    <2> QED
      BY <2>1, InheritsTyped
  <1>3. d > 0
    OBVIOUS
  <1> QED
    BY <1>1, <1>2, <1>3 DEF Frames, ThroughModule

LEMMA MarkSound ==
  ASSUME NEW n, NEW s, Sound(n, s), s.found = NoFile, NEW f \in Files,
         \A S \in SUBSET Files : Closed(n, {}, S) => f \in S
  PROVE  Sound(n, [s EXCEPT !.seen = @ \cup {f}])
  <1> DEFINE r == [s EXCEPT !.seen = @ \cup {f}]
  <1>1. /\ r \in Searches /\ r.seen = s.seen \cup {f} /\ r.stack = s.stack /\ r.found = s.found
    BY DEF Sound, Searches
  <1> HIDE DEF r
  <1>2. \A k \in DOMAIN r.stack : FrameOK(r.stack[k], k, r.seen)
    BY <1>1 DEF Sound, FrameOK
  <1> QED
    BY <1>1, <1>2 DEF Sound, r

LEMMA PushSound ==
  ASSUME NEW n, NEW s, Sound(n, s), s.found = NoFile, NEW f \in Files,
         \A S \in SUBSET Files : Closed(n, {}, S) => f \in S,
         NEW x \in Frames, FrameOK(x, Len(s.stack) + 1, s.seen \cup {f})
  PROVE  Sound(n, EnteredAs(s, f, x))
  <1> DEFINE r == EnteredAs(s, f, x)
             fr == Append(s.stack, x)
  <1>0. s \in Searches /\ s.stack \in Seq(Frames)
    BY DEF Sound, Searches
  <1>1. /\ fr \in Seq(Frames) /\ DOMAIN fr = 1..(Len(s.stack) + 1)
        /\ fr[Len(s.stack) + 1] = x /\ \A k \in 1..Len(s.stack) : fr[k] = s.stack[k]
    BY <1>0, AppendProperties
  <1>2. r = [s EXCEPT !.seen = s.seen \cup {f}, !.stack = fr]
    BY DEF EnteredAs
  <1>3. r \in Searches /\ r.seen = s.seen \cup {f} /\ r.stack = fr /\ r.found = s.found
    <2>1. s.seen \cup {f} \in SUBSET Files
      BY <1>0 DEF Searches
    <2> HIDE DEF fr, r
    <2> QED
      BY <1>0, <1>1, <1>2, <2>1 DEF Searches
  <1> HIDE DEF r, fr
  <1>4. ASSUME NEW k \in DOMAIN fr
        PROVE  FrameOK(fr[k], k, r.seen)
    <2>1. CASE k = Len(s.stack) + 1
      BY <1>1, <1>3, <2>1
    <2>2. CASE k # Len(s.stack) + 1
      <3>1. k \in 1..Len(s.stack) /\ k \in DOMAIN s.stack
        BY <1>0, <1>1, <2>2
      <3>2. FrameOK(s.stack[k], k, s.seen)
        BY <3>1 DEF Sound
      <3> QED
        BY <1>1, <1>3, <3>1, <3>2 DEF FrameOK
    <2> QED
      BY <2>1, <2>2
  <1> QED
    BY <1>3, <1>4 DEF Sound, r

LEMMA EnterSound ==
  ASSUME NEW n, IndexOK(n), NEW s, Sound(n, s), s.found = NoFile, s.stack # <<>>, NEW f \in Files,
         \A S \in SUBSET Files : Closed(n, {}, S) => f \in S
  PROVE  Sound(n, Enter(s, f, disk[f], Len(s.stack)))
  <1> DEFINE d == Len(s.stack)
             x == [file |-> f, depth |-> d, module |-> d > 0 \/ request.qualifier = "all",
                   rest |-> InheritsReachableBy(request.qualifier, disk[f], d)]
  <1>1. CASE Entered(s, f)
    BY <1>1 DEF Enter
  <1>2. CASE ~Entered(s, f) /\ d > MaxDepth
    BY <1>2, MarkSound DEF Enter
  <1>3. CASE ~Entered(s, f) /\ ~(d > MaxDepth)
    <2>1. s.stack \in Seq(Frames) /\ d \in Nat \ {0} /\ f # request.file
      BY <1>3 DEF Sound, Searches, Entered
    <2>2. /\ x \in Frames /\ x = [file |-> f, depth |-> d, module |-> TRUE, rest |-> Inherits(f)]
          /\ ThroughModule(f)
      BY <2>1, FrameOf
    <2>3. Enter(s, f, disk[f], d) = EnteredAs(s, f, x)
      BY <1>3 DEF Enter, EnteredAs
    <2> HIDE DEF x
    <2>4. FrameOK(x, d + 1, s.seen \cup {f})
      BY <2>1, <2>2 DEF FrameOK
    <2>5. Sound(n, EnteredAs(s, f, x))
      BY <2>2, <2>4, PushSound
    <2> QED
      BY <2>3, <2>5
  <1> QED
    BY <1>1, <1>2, <1>3

\* Looking into a file keeps what was found reachable.
LEMMA VisitSound ==
  ASSUME NEW n, IndexOK(n), NEW s, Sound(n, s), s.found = NoFile, s.stack # <<>>, NEW f \in Files,
         \A S \in SUBSET Files : Closed(n, {}, S) => f \in S
  PROVE  Sound(n, Visit(s, f, disk[f], Len(s.stack)))
  <1>1. CASE disk[f].declares
    <2> DEFINE r == Found(s, f)
    <2>1. /\ r \in Searches /\ r.seen = s.seen /\ r.stack = <<>> /\ r.found = f
      <3>1. <<>> \in Seq(Frames)
        OBVIOUS
      <3> QED
        BY <3>1 DEF Found, Sound, Searches
    <2>2. Visit(s, f, disk[f], Len(s.stack)) = r
      BY <1>1 DEF Visit
    <2> HIDE DEF r
    <2> QED
      BY <1>1, <2>1, <2>2 DEF Sound
  <1>2. CASE ~disk[f].declares
    BY <1>2, EnterSound DEF Visit
  <1> QED
    BY <1>1, <1>2

\* While few enough files can be reached, a new one is never too deep.
LEMMA NeverTooDeep ==
  ASSUME NEW n, IndexOK(n), NEW s, Sound(n, s), Shallow, NEW f \in Files, f \notin s.seen,
         \A S \in SUBSET Files : Closed(n, {}, S) => f \in S,
         IsFiniteSet(s.seen), Len(s.stack) <= Cardinality(s.seen)
  PROVE  ~(Len(s.stack) > MaxDepth) /\ Len(s.stack) + 1 <= Cardinality(s.seen \cup {f})
  <1>1. PICK C \in SUBSET Files : Near(C)
    BY DEF Shallow
  <1>2. Closed(n, {}, C) /\ request.file \in C
    BY <1>1, NearIsClosed
  <1>3. s.seen \cup {f} \subseteq C
    BY <1>2 DEF Sound
  <1>4. /\ Cardinality(s.seen \cup {f}) = Cardinality(s.seen) + 1
        /\ Cardinality(s.seen) \in Nat /\ IsFiniteSet(s.seen \cup {f})
    BY FS_AddElement, FS_CardinalityType
  <1>5. Cardinality(s.seen \cup {f}) <= Cardinality(C) /\ Cardinality(C) \in Nat
    BY <1>1, <1>3, FS_Subset, FS_CardinalityType DEF Near
  <1>6. Len(s.stack) \in Nat /\ MaxDepth \in Nat
    BY ResolutionAssumption DEF Sound, Searches
  <1> QED
    BY <1>1, <1>4, <1>5, <1>6 DEF Near

LEMMA PushThorough ==
  ASSUME NEW n, NEW w, NEW s, Sound(n, s), s.found = NoFile, NEW f \in Files, f \notin s.seen,
         f # request.file, ~disk[f].declares, Thorough(n, w, s, {f}),
         NEW x \in Frames, x.file = f, x.module, x.rest = Inherits(f),
         Len(s.stack) + 1 <= Cardinality(s.seen \cup {f})
  PROVE  Thorough(n, w, EnteredAs(s, f, x), {})
  <1> DEFINE r == EnteredAs(s, f, x)
             fr == Append(s.stack, x)
  <1>0. s \in Searches /\ s.stack \in Seq(Frames) /\ Len(s.stack) \in Nat
    BY DEF Sound, Searches
  <1>1. /\ fr \in Seq(Frames) /\ DOMAIN fr = 1..(Len(s.stack) + 1) /\ Len(fr) = Len(s.stack) + 1
        /\ fr[Len(s.stack) + 1] = x /\ \A k \in 1..Len(s.stack) : fr[k] = s.stack[k]
    BY <1>0, AppendProperties
  <1>2. r.seen = s.seen \cup {f} /\ r.stack = fr /\ r.found = NoFile
    BY <1>0 DEF EnteredAs, Searches
  <1> HIDE DEF r, fr
  <1>3. Silent(r) = Silent(s) \cup {f}
    BY <1>2 DEF Silent
  <1>4. IsFiniteSet(r.seen) /\ Len(r.stack) <= Cardinality(r.seen)
    BY <1>1, <1>2, FS_AddElement DEF Thorough
  <1>5. \A g \in r.seen \ {request.file} : ~disk[g].declares
    BY <1>2 DEF Thorough
  <1>6. ASSUME NEW g \in r.seen
        PROVE  OnStack(r, g) \/ OutOf(n, w, g) \subseteq Silent(r)
    <2>1. CASE g = f
      BY <1>0, <1>1, <1>2, <2>1 DEF OnStack
    <2>2. CASE g # f /\ OnStack(s, g)
      <3>1. PICK k \in DOMAIN s.stack : s.stack[k].file = g
        BY <2>2 DEF OnStack
      <3>2. k \in 1..Len(s.stack) /\ k \in DOMAIN fr
        BY <1>0, <1>1, <3>1
      <3> QED
        BY <1>1, <1>2, <3>1, <3>2 DEF OnStack
    <2>3. CASE g # f /\ ~OnStack(s, g)
      BY <1>2, <1>3, <2>3 DEF Thorough
    <2> QED
      BY <2>1, <2>2, <2>3
  <1>7. ASSUME NEW k \in DOMAIN r.stack
        PROVE  FrameDone(n, w, r.stack[k], Silent(r))
    <2>1. CASE k = Len(s.stack) + 1
      <3>1. r.stack[k] = x
        BY <1>1, <1>2, <2>1
      <3> QED
        BY <3>1 DEF FrameDone
    <2>2. CASE k # Len(s.stack) + 1
      <3>1. k \in DOMAIN s.stack /\ r.stack[k] = s.stack[k]
        BY <1>0, <1>1, <1>2, <2>2
      <3>2. FrameDone(n, w, s.stack[k], Silent(s) \cup {f})
        BY <3>1 DEF Thorough
      <3> QED
        BY <1>3, <3>1, <3>2
    <2> QED
      BY <2>1, <2>2
  <1>8. Silent(r) \cup {} = Silent(r)
    OBVIOUS
  <1> QED
    BY <1>4, <1>5, <1>6, <1>7, <1>8 DEF Thorough, r

\* Looking into a file that was next leaves nothing next.
LEMMA VisitThorough ==
  ASSUME NEW n, NEW w, IndexOK(n), NEW s, Sound(n, s), s.found = NoFile, s.stack # <<>>, NEW f \in Files,
         \A S \in SUBSET Files : Closed(n, {}, S) => f \in S,
         Thorough(n, w, s, {f}), Shallow
  PROVE  Thorough(n, w, Visit(s, f, disk[f], Len(s.stack)), {})
  <1> DEFINE d == Len(s.stack)
             x == [file |-> f, depth |-> d, module |-> d > 0 \/ request.qualifier = "all",
                   rest |-> InheritsReachableBy(request.qualifier, disk[f], d)]
  <1>1. CASE disk[f].declares
    <2>1. Visit(s, f, disk[f], d).found = f
      BY <1>1 DEF Visit, Found, Sound, Searches
    <2> QED
      BY <2>1, ResolutionAssumption DEF Thorough
  <1>2. CASE ~disk[f].declares /\ f \in s.seen
    <2>1. Visit(s, f, disk[f], d) = s
      BY <1>2 DEF Visit, Enter, Entered
    <2>2. Silent(s) \cup {f} = Silent(s) \cup {}
      BY <1>2 DEF Silent
    <2> QED
      BY <2>1, <2>2 DEF Thorough
  <1>3. CASE ~disk[f].declares /\ f \notin s.seen
    <2>1. ~(d > MaxDepth) /\ d + 1 <= Cardinality(s.seen \cup {f})
      BY <1>3, NeverTooDeep DEF Thorough
    <2>2. d \in Nat \ {0} /\ f # request.file
      BY <1>3 DEF Sound, Searches
    <2>3. x \in Frames /\ x = [file |-> f, depth |-> d, module |-> TRUE, rest |-> Inherits(f)]
      BY <2>2, FrameOf
    <2>4. Visit(s, f, disk[f], d) = EnteredAs(s, f, x)
      BY <1>3, <2>1 DEF Visit, Enter, Entered, EnteredAs
    <2> HIDE DEF x
    <2>5. x.file = f /\ x.module /\ x.rest = Inherits(f)
      BY <2>3
    <2>6. Len(s.stack) + 1 <= Cardinality(s.seen \cup {f})
      BY <2>1
    <2>7. x \in Frames
      BY <2>3
    <2> HIDE DEF d
    <2>8. Thorough(n, w, EnteredAs(s, f, x), {})
      BY <1>3, <2>2, <2>5, <2>6, <2>7, PushThorough
    <2> QED
      BY <2>4, <2>8 DEF d
  <1> QED
    BY <1>1, <1>2, <1>3

LEMMA FrontAndLast ==
  ASSUME NEW X, NEW s \in Seq(X), s # <<>>
  PROVE  /\ Len(s) \in Nat \ {0} /\ DOMAIN s = 1..Len(s) /\ Last(s) = s[Len(s)] /\ Last(s) \in X
         /\ Front(s) \in Seq(X) /\ Len(Front(s)) = Len(s) - 1
         /\ \A i \in 1..(Len(s) - 1) : Front(s)[i] = s[i]
         /\ \A y \in X : /\ Append(Front(s), y) \in Seq(X)
                         /\ Len(Append(Front(s), y)) = Len(s)
                         /\ Append(Front(s), y)[Len(s)] = y
                         /\ \A i \in 1..(Len(s) - 1) : Append(Front(s), y)[i] = s[i]
  <1>1. Len(s) \in Nat \ {0} /\ DOMAIN s = 1..Len(s)
    BY EmptySeq
  <1>2. Last(s) = s[Len(s)] /\ Last(s) \in X
    BY <1>1 DEF Last
  <1>3. /\ Front(s) \in Seq(X) /\ Len(Front(s)) = Len(s) - 1
        /\ \A i \in 1..(Len(s) - 1) : Front(s)[i] = s[i]
    <2>1. \A i \in 1..(Len(s) - 1) : i \in 1..Len(s)
      BY <1>1
    <2>2. Len(s) - 1 \in Nat
      BY <1>1
    <2> QED
      BY <1>1, <2>1, <2>2, SubSeqProperties DEF Front
  <1>4. ASSUME NEW y \in X
        PROVE  /\ Append(Front(s), y) \in Seq(X)
               /\ Len(Append(Front(s), y)) = Len(s)
               /\ Append(Front(s), y)[Len(s)] = y
               /\ \A i \in 1..(Len(s) - 1) : Append(Front(s), y)[i] = s[i]
    <2> DEFINE w == Front(s)
    <2> HIDE DEF w
    <2>1. w \in Seq(X) /\ Len(w) = Len(s) - 1 /\ \A i \in 1..(Len(s) - 1) : w[i] = s[i]
      BY <1>3 DEF w
    <2>2. /\ Append(w, y) \in Seq(X) /\ Len(Append(w, y)) = Len(w) + 1
          /\ Append(w, y)[Len(w) + 1] = y /\ \A i \in 1..Len(w) : Append(w, y)[i] = w[i]
      BY <2>1, AppendProperties
    <2> QED
      BY <1>1, <2>1, <2>2 DEF w
  <1> QED
    BY <1>1, <1>2, <1>3, <1>4

\* The frame on top goes on.
LEMMA TopFields ==
  ASSUME NEW n, NEW s, Sound(n, s), s.stack # <<>>, NEW y \in Frames
  PROVE  LET r == WithTop(s, y) IN
         /\ r \in Searches /\ r.seen = s.seen /\ r.found = s.found /\ r.stack # <<>>
         /\ Len(r.stack) = Len(s.stack) /\ DOMAIN r.stack = DOMAIN s.stack
         /\ r.stack[Len(s.stack)] = y /\ Len(s.stack) \in DOMAIN s.stack
         /\ \A k \in DOMAIN s.stack : k # Len(s.stack) => r.stack[k] = s.stack[k]
         /\ Silent(r) = Silent(s)
  <1> DEFINE r == WithTop(s, y)
             fr == Append(Front(s.stack), y)
  <1>1. s \in Searches /\ s.stack \in Seq(Frames)
    BY DEF Sound, Searches
  <1>2. /\ fr \in Seq(Frames) /\ Len(fr) = Len(s.stack) /\ fr[Len(s.stack)] = y
        /\ \A i \in 1..(Len(s.stack) - 1) : fr[i] = s.stack[i]
        /\ Len(s.stack) \in Nat \ {0} /\ DOMAIN s.stack = 1..Len(s.stack)
    BY <1>1, FrontAndLast
  <1>3. r = [s EXCEPT !.stack = fr]
    BY DEF WithTop
  <1> HIDE DEF fr, r
  <1>4. r \in Searches /\ r.seen = s.seen /\ r.found = s.found /\ r.stack = fr
    BY <1>1, <1>2, <1>3 DEF Searches
  <1>5. DOMAIN fr = 1..Len(s.stack) /\ fr # <<>>
    BY <1>2
  <1>6. \A k \in DOMAIN s.stack : k # Len(s.stack) => k \in 1..(Len(s.stack) - 1)
    BY <1>2
  <1> QED
    BY <1>2, <1>4, <1>5, <1>6 DEF r, Silent

LEMMA TopSound ==
  ASSUME NEW n, NEW s, Sound(n, s), s.stack # <<>>, NEW y \in Frames,
         FrameOK(y, Len(s.stack), s.seen)
  PROVE  Sound(n, WithTop(s, y))
  <1> DEFINE r == WithTop(s, y)
  <1>1. /\ r \in Searches /\ r.seen = s.seen /\ r.found = s.found /\ r.stack # <<>>
        /\ DOMAIN r.stack = DOMAIN s.stack /\ r.stack[Len(s.stack)] = y
        /\ \A k \in DOMAIN s.stack : k # Len(s.stack) => r.stack[k] = s.stack[k]
    BY TopFields
  <1> HIDE DEF r
  <1>2. \A k \in DOMAIN r.stack : FrameOK(r.stack[k], k, r.seen)
    BY <1>1 DEF Sound
  <1> QED
    BY <1>1, <1>2 DEF Sound, r

LEMMA TopThorough ==
  ASSUME NEW n, NEW w, NEW s, Sound(n, s), s.stack # <<>>, NEW y \in Frames, NEW F,
         y.file = Last(s.stack).file, Thorough(n, w, s, F), s.found = NoFile,
         FrameDone(n, w, y, Silent(s) \cup F)
  PROVE  Thorough(n, w, WithTop(s, y), F)
  <1> DEFINE r == WithTop(s, y)
  <1>1. /\ r \in Searches /\ r.seen = s.seen /\ r.found = s.found /\ Silent(r) = Silent(s)
        /\ DOMAIN r.stack = DOMAIN s.stack /\ r.stack[Len(s.stack)] = y
        /\ Len(r.stack) = Len(s.stack) /\ Len(s.stack) \in DOMAIN s.stack
        /\ \A k \in DOMAIN s.stack : k # Len(s.stack) => r.stack[k] = s.stack[k]
    BY TopFields
  <1> HIDE DEF r
  <1>2. \A k \in DOMAIN s.stack : r.stack[k].file = s.stack[k].file
    BY <1>1 DEF Last
  <1>3. \A g : OnStack(s, g) => OnStack(r, g)
    BY <1>1, <1>2 DEF OnStack
  <1>4. \A k \in DOMAIN r.stack : FrameDone(n, w, r.stack[k], Silent(r) \cup F)
    BY <1>1 DEF Thorough
  <1> QED
    BY <1>1, <1>3, <1>4 DEF Thorough, r

\* The frame on top is done with.
LEMMA PopKeeps ==
  ASSUME NEW n, NEW w, NEW s, Sound(n, s), Thorough(n, w, s, {}), s.found = NoFile, s.stack # <<>>,
         Last(s.stack).rest = <<>>, ~Last(s.stack).module
  PROVE  Sound(n, Popped(s)) /\ Thorough(n, w, Popped(s), {})
  <1> DEFINE r == Popped(s)
             fr == Front(s.stack)
             top == Last(s.stack)
  <1>1. s \in Searches /\ s.stack \in Seq(Frames)
    BY DEF Sound, Searches
  <1>2. /\ fr \in Seq(Frames) /\ Len(fr) = Len(s.stack) - 1
        /\ \A i \in 1..(Len(s.stack) - 1) : fr[i] = s.stack[i]
        /\ Len(s.stack) \in Nat \ {0} /\ DOMAIN s.stack = 1..Len(s.stack)
        /\ top = s.stack[Len(s.stack)] /\ top \in Frames
    BY <1>1, FrontAndLast
  <1>3. r = [s EXCEPT !.stack = fr]
    BY DEF Popped
  <1> HIDE DEF fr, r
  <1>4. r \in Searches /\ r.seen = s.seen /\ r.found = s.found /\ r.stack = fr /\ Silent(r) = Silent(s)
    BY <1>1, <1>2, <1>3 DEF Searches, Silent
  <1>5. /\ DOMAIN fr = 1..(Len(s.stack) - 1)
        /\ \A k \in DOMAIN fr : k \in DOMAIN s.stack /\ fr[k] = s.stack[k]
        /\ \A k \in DOMAIN s.stack : k = Len(s.stack) \/ k \in DOMAIN fr
    BY <1>2
  <1>6. Sound(n, r)
    BY <1>4, <1>5 DEF Sound
  <1>7. OutOf(n, w, top.file) \subseteq Silent(s)
    <2>1. FrameDone(n, w, top, Silent(s) \cup {})
      BY <1>2 DEF Thorough
    <2>2. ToSet(top.rest) = {}
      BY DEF ToSet
    <2> QED
      BY <2>1, <2>2 DEF FrameDone, OutOf
  <1>8. ASSUME NEW g \in s.seen
        PROVE  OnStack(r, g) \/ OutOf(n, w, g) \subseteq Silent(s) \cup {}
    <2>1. CASE g = top.file
      BY <1>7, <2>1
    <2>2. CASE g # top.file
      BY <1>2, <1>4, <1>5, <2>2 DEF Thorough, OnStack
    <2> QED
      BY <2>1, <2>2
  <1>9. IsFiniteSet(r.seen) /\ Len(r.stack) <= Cardinality(r.seen)
    <2>1. IsFiniteSet(s.seen) /\ Len(s.stack) <= Cardinality(s.seen) /\ Cardinality(s.seen) \in Nat
      BY FS_CardinalityType DEF Thorough
    <2> QED
      BY <1>2, <1>4, <2>1
  <1>10. Thorough(n, w, r, {})
    BY <1>4, <1>5, <1>8, <1>9 DEF Thorough
  <1> QED
    BY <1>6, <1>10 DEF r

\* A table that comes into the index leads to no fewer files, and to no more
\* than its own.
LEMMA IndexGrows ==
  ASSUME NEW n, NEW w, IndexOK(n), NEW f \in Files, NEW s, Sound(n, s)
  PROVE  LET m == [n EXCEPT ![f] = disk[f]] IN
         /\ IndexOK(m) /\ Sound(m, s)
         /\ \A S \in SUBSET Files : Closed(m, {}, S) => Closed(n, {}, S)
         /\ Thorough(n, w, s, {}) => Thorough(m, w, s, {f})
  <1> DEFINE m == [n EXCEPT ![f] = disk[f]]
  <1>1. IndexOK(m)
    BY DEF IndexOK
  <1>2. /\ m[f] # NoTable /\ m[f] = disk[f] /\ \A g \in Files : g # f => m[g] = n[g]
    BY ResolutionAssumption DEF IndexOK, TableType
  <1> HIDE DEF m
  <1>3. \A g \in Files : Module(n, g) \subseteq Module(m, g) /\ Module(m, g) \subseteq Module(n, g) \cup {f}
    BY <1>2, ResolutionAssumption DEF Module
  <1>4. \A v, g : g \in Files =>
          OutOf(n, v, g) \subseteq OutOf(m, v, g) /\ OutOf(m, v, g) \subseteq OutOf(n, v, g) \cup {f}
    BY <1>3 DEF OutOf
  <1>5. request.file \in Files
    BY ResolutionAssumption DEF IndexOK
  <1>6. \A S \in SUBSET Files : Closed(m, {}, S) => Closed(n, {}, S)
    BY <1>4, <1>5 DEF Closed
  <1>7. Sound(m, s)
    BY <1>6 DEF Sound
  <1>8. ASSUME Thorough(n, w, s, {}), s.found = NoFile
        PROVE  Thorough(m, w, s, {f})
    <2>1. s.seen \subseteq Files /\ s.stack \in Seq(Frames)
      BY DEF Sound, Searches
    <2>2. ASSUME NEW g \in s.seen
          PROVE  OnStack(s, g) \/ OutOf(m, w, g) \subseteq Silent(s) \cup {f}
      BY <1>4, <1>8, <2>1 DEF Thorough
    <2>3. ASSUME NEW k \in DOMAIN s.stack
          PROVE  FrameDone(m, w, s.stack[k], Silent(s) \cup {f})
      <3>1. FrameDone(n, w, s.stack[k], Silent(s) \cup {})
        BY <1>8 DEF Thorough
      <3>2. s.stack[k].file \in Files
        <4>1. s.stack[k] \in Frames
          BY <2>1
        <4> QED
          BY <4>1 DEF Frames
      <3> QED
        BY <1>3, <3>1, <3>2 DEF FrameDone
    <2> QED
      BY <1>8, <2>2, <2>3 DEF Thorough
  <1>9. s.found # NoFile => Thorough(m, w, s, {f})
    BY DEF Thorough
  <1> QED
    BY <1>1, <1>6, <1>7, <1>8, <1>9 DEF m

LEMMA SoundCarried ==
  ASSUME UNCHANGED <<disk, request>>, Sound(table', search')
  PROVE  Sound(table, search)'
  BY DEF Sound, FrameOK, Closed, OutOf, Inherits, ThroughModule, Module, Searches, Frames

LEMMA ThoroughCarried ==
  ASSUME UNCHANGED <<disk, request>>, Thorough(table', lost', search', {})
  PROVE  Thorough(table, lost, search, {})'
  BY DEF Thorough, FrameDone, OnStack, Silent, OutOf, Inherits, ThroughModule, Module

LEMMA IndexCarried ==
  ASSUME UNCHANGED <<disk, request>>, IndexOK(table')
  PROVE  IndexOK(table)'
  BY DEF IndexOK, TableType

\* What identifies an attempt.
SameAttempt(s, r) == r.state = s.state /\ r.snap = s.snap /\ r.tries = s.tries

LEMMA VisitTyped ==
  ASSUME NEW n, IndexOK(n), NEW s \in Searches, NEW f \in Files, NEW t \in TableType, NEW d \in Nat
  PROVE  Visit(s, f, t, d) \in Searches /\ SameAttempt(s, Visit(s, f, t, d))
  <1> DEFINE x == [file |-> f, depth |-> d, module |-> d > 0 \/ request.qualifier = "all",
                   rest |-> InheritsReachableBy(request.qualifier, t, d)]
             r == [s EXCEPT !.stack = <<>>, !.found = f]
             m == [s EXCEPT !.seen = s.seen \cup {f}]
             p == [s EXCEPT !.seen = s.seen \cup {f}, !.stack = Append(s.stack, x)]
  <1>1. x \in Frames
    BY InheritsTyped DEF Frames
  <1>2. Visit(s, f, t, d) \in {s, r, m, p}
    BY DEF Visit, Found, Enter
  <1> HIDE DEF x
  <1>3. <<>> \in Seq(Frames) /\ s.stack \in Seq(Frames) /\ s.seen \cup {f} \in SUBSET Files
    BY DEF Searches
  <1>4. Append(s.stack, x) \in Seq(Frames)
    BY <1>1, <1>3
  <1>5. r \in Searches /\ SameAttempt(s, r) /\ m \in Searches /\ SameAttempt(s, m) /\ SameAttempt(s, s)
    BY <1>3 DEF Searches, SameAttempt
  <1>6. p \in Searches /\ SameAttempt(s, p)
    BY <1>3, <1>4 DEF Searches, SameAttempt
  <1> HIDE DEF r, m, p
  <1> QED
    BY <1>2, <1>5, <1>6

LEMMA TopTyped ==
  ASSUME NEW s \in Searches, s.stack # <<>>, NEW y \in Frames
  PROVE  /\ WithTop(s, y) \in Searches /\ SameAttempt(s, WithTop(s, y))
         /\ Popped(s) \in Searches /\ SameAttempt(s, Popped(s))
         /\ WithTop(s, y).found = s.found /\ Popped(s).found = s.found
  <1> DEFINE a == Append(Front(s.stack), y)
             b == Front(s.stack)
  <1>1. s.stack \in Seq(Frames)
    BY DEF Searches
  <1>2. a \in Seq(Frames) /\ b \in Seq(Frames)
    BY <1>1, FrontAndLast
  <1>3. WithTop(s, y) = [s EXCEPT !.stack = a] /\ Popped(s) = [s EXCEPT !.stack = b]
    BY DEF WithTop, Popped
  <1> HIDE DEF a, b
  <1> QED
    BY <1>2, <1>3 DEF Searches, SameAttempt

\* An attempt starts with nothing but the asking file.
LEMMA StartKeeps ==
  ASSUME NEW n, NEW w, IndexOK(n), n[request.file] # NoTable, NEW g \in Nat, NEW tries \in {1, 2}
  PROVE  LET s == Start(n, g, tries) IN
         /\ Sound(n, s) /\ Thorough(n, w, s, {})
         /\ s.state = "running" /\ s.snap = g /\ s.tries = tries /\ s.found = NoFile
         /\ s.stack # <<>>
  <1> DEFINE R == request.file
             b == 0 > 0 \/ request.qualifier = "all"
             to == InheritsReachableBy(request.qualifier, n[R], 0)
             x == [file |-> R, depth |-> 0, module |-> b, rest |-> to]
             s == [stack |-> <<x>>, seen |-> {R}, state |-> "running", found |-> NoFile,
                   snap |-> g, tries |-> tries]
  <1>1. R \in Files /\ n[R] = disk[R] /\ disk[R] \in TableType
    BY ResolutionAssumption DEF IndexOK
  <1>2. to = Inherits(R) /\ to \in Seq(Files)
    BY <1>1, InheritsTyped DEF Inherits
  <1>3. b \in BOOLEAN /\ (b <=> ThroughModule(R))
    BY DEF ThroughModule
  <1>4. Start(n, g, tries) = s
    <2> DEFINE s0 == [stack |-> <<>>, seen |-> {}, state |-> "running", found |-> NoFile,
                      snap |-> g, tries |-> tries]
    <2>1. Start(n, g, tries) = [s0 EXCEPT !.seen = @ \cup {R}, !.stack = Append(@, x)]
      BY ResolutionAssumption DEF Start, Enter, Entered
    <2> HIDE DEF x
    <2>2. Append(<<>>, x) = <<x>>
      OBVIOUS
    <2>3. [s0 EXCEPT !.seen = @ \cup {R}, !.stack = Append(@, x)]
            = [s0 EXCEPT !.seen = {} \cup {R}, !.stack = Append(<<>>, x)]
      OBVIOUS
    <2> QED
      BY <2>1, <2>2, <2>3
  <1> HIDE DEF b, to
  <1>12. x \in Frames /\ x.file = R /\ x.depth = 0 /\ x.rest = Inherits(R) /\ x.module = b
    BY <1>1, <1>2, <1>3 DEF Frames
  <1> HIDE DEF x
  <1>5. <<x>> \in Seq(Frames) /\ DOMAIN <<x>> = {1} /\ <<x>>[1] = x /\ Len(<<x>>) = 1 /\ <<x>> # <<>>
    BY <1>12
  <1>6. /\ s \in Searches /\ s.seen = {R} /\ s.stack = <<x>> /\ s.found = NoFile
        /\ s.state = "running" /\ s.snap = g /\ s.tries = tries
    BY <1>1, <1>5 DEF Searches
  <1> HIDE DEF s
  <1>7. Sound(n, s)
    BY <1>1, <1>2, <1>3, <1>12, <1>5, <1>6 DEF Sound, FrameOK
  <1>8. IsFiniteSet({R}) /\ Cardinality({R}) = 1
    BY FS_Singleton
  <1>9. OnStack(s, R)
    BY <1>12, <1>5, <1>6 DEF OnStack
  <1>10. FrameDone(n, w, x, Silent(s) \cup {})
    BY <1>2, <1>3, <1>12 DEF FrameDone
  <1>11. Thorough(n, w, s, {})
    BY <1>5, <1>6, <1>8, <1>9, <1>10 DEF Thorough
  <1> QED
    BY <1>4, <1>5, <1>6, <1>7, <1>11

-------------------------------------------------------------------------------
(* The search while the index moves. *)

AnswerOK(n, a) ==
  /\ \A S \in SUBSET Files : Closed(n, {}, S) => a \in S \cup {NoFile}
  /\ a # NoFile => disk[a].declares

\* An attempt can be trusted as long as nothing but its own looking moved the
\* index in this request, or nothing at all since it started.
Trusted == moves = 0 \/ search.snap = gen

ResolutionInv ==
  /\ IndexOK(table) /\ Shallow
  /\ gen \in Nat /\ moves \in Nat /\ answer \in Files \cup {NoFile} /\ search \in Searches
  /\ search.snap <= gen /\ (search.tries = 2 => search.snap > 0 /\ answer # NoFile)
  /\ search.state = "running" /\ search.tries = 1 => answer = NoFile
  /\ Trusted => Sound(table, search) /\ Thorough(table, lost, search, {})
  /\ moves = 0 => AnswerOK(table, answer)
  /\ search.state = "done" =>
       /\ search.stack = <<>>
       /\ search.found # NoFile => answer = search.found
       /\ search.tries = 1 => /\ answer = search.found
                              /\ search.found # NoFile =>
                                   gen = search.snap \/ table[request.file] = NoTable

LEMMA AnswerCarried ==
  ASSUME UNCHANGED <<disk, request>>, AnswerOK(table', answer')
  PROVE  AnswerOK(table, answer)'
  BY DEF AnswerOK, Closed, OutOf, Inherits, ThroughModule, Module

LEMMA ShallowCarried ==
  ASSUME UNCHANGED disk, Shallow
  PROVE  Shallow'
  BY DEF Shallow, Near

LEMMA ResolutionInvInit == ResolutionInit /\ Shallow => ResolutionInv
  <1> SUFFICES ASSUME ResolutionInit, Shallow PROVE ResolutionInv
    OBVIOUS
  <1> DEFINE R == request.file
  <1>1. PICK missing \in SUBSET (Files \ {R}) :
          table = [f \in Files |-> IF f \in missing THEN NoTable ELSE disk[f]]
    BY DEF ResolutionInit
  <1>2. /\ disk \in [Files -> TableType] /\ gen = 0 /\ answer = NoFile /\ moves = 0
        /\ request \in [file : {Asking}, qualifier : Files \cup {"all"}]
        /\ search = Start(table, 0, 1)
    BY ResolutionAssumption DEF ResolutionInit, TableType
  <1>3. IndexOK(table)
    <2>1. \A f \in Files : table[f] \in {NoTable, disk[f]}
      BY <1>1
    <2> QED
      BY <1>1, <1>2, <2>1 DEF IndexOK
  <1>4. table[R] # NoTable
    <2>1. R \in Files /\ R \notin missing
      BY <1>1, <1>2, ResolutionAssumption
    <2> QED
      BY <1>1, <1>2, <2>1, ResolutionAssumption DEF TableType
  <1>5. /\ Sound(table, search) /\ Thorough(table, lost, search, {})
        /\ search.state = "running" /\ search.snap = 0 /\ search.tries = 1
    <2>1. 0 \in Nat /\ 1 \in {1, 2} /\ search = Start(table, 0, 1)
      BY <1>2
    <2> QED
      <3> DEFINE s == Start(table, 0, 1)
      <3>1. /\ Sound(table, s) /\ Thorough(table, lost, s, {})
            /\ s.state = "running" /\ s.snap = 0 /\ s.tries = 1
        BY <1>3, <1>4, <2>1, StartKeeps DEF R
      <3> QED
        BY <2>1, <3>1
  <1>6. search \in Searches
    BY <1>5 DEF Sound
  <1> QED
    BY <1>2, <1>3, <1>5, <1>6 DEF ResolutionInv, AnswerOK

\* A step of an attempt that keeps to it.
LEMMA SearchGoesOn ==
  ASSUME ResolutionInv, UNCHANGED <<disk, request, answer, moves>>, search.stack # <<>>,
         search' \in Searches, SameAttempt(search, search'), gen' \in Nat, gen <= gen',
         IndexOK(table'), \A S \in SUBSET Files : Closed(table', {}, S) => Closed(table, {}, S),
         Trusted' => Sound(table', search') /\ Thorough(table', lost', search', {})
  PROVE  ResolutionInv'
  <1>1. search.state = "running" /\ search'.state = "running"
    BY DEF ResolutionInv, Searches, SameAttempt
  <1>2. moves' = 0 => AnswerOK(table', answer')
    BY DEF ResolutionInv, AnswerOK
  <1>3. (moves = 0 => AnswerOK(table, answer))'
    BY <1>2, AnswerCarried
  <1>4. (Trusted => Sound(table, search) /\ Thorough(table, lost, search, {}))'
    BY SoundCarried, ThoroughCarried
  <1>5. IndexOK(table)' /\ Shallow'
    BY IndexCarried, ShallowCarried DEF ResolutionInv
  <1>6. search' \in Searches' /\ search'.snap <= gen'
    <2>1. search.snap \in Nat /\ search.snap <= gen /\ gen \in Nat
      BY DEF ResolutionInv, Searches
    <2> QED
      BY <2>1 DEF SameAttempt, Searches, Frames
  <1>7. /\ search'.tries = 2 => search'.snap > 0 /\ answer' # NoFile
        /\ search'.state = "running" /\ search'.tries = 1 => answer' = NoFile
        /\ gen' \in Nat /\ moves' \in Nat /\ answer' \in Files \cup {NoFile}
    BY <1>1 DEF ResolutionInv, SameAttempt
  <1> QED
    BY <1>1, <1>3, <1>4, <1>5, <1>6, <1>7 DEF ResolutionInv

LEMMA TrustedBefore ==
  ASSUME ResolutionInv, UNCHANGED moves, SameAttempt(search, search'), gen' \in {gen, gen + 1}, Trusted'
  PROVE  Trusted /\ (moves # 0 => gen' = gen)
  <1>1. search.snap \in Nat /\ search.snap <= gen /\ gen \in Nat
    BY DEF ResolutionInv, Searches
  <1> QED
    BY <1>1 DEF Trusted, SameAttempt

LEMMA TopTypes ==
  ASSUME ResolutionInv, search.stack # <<>>
  PROVE  /\ Top \in Frames /\ Top.file \in Files /\ Top.depth \in Nat /\ Top.rest \in Seq(Files)
         /\ Len(search.stack) \in DOMAIN search.stack /\ Top = search.stack[Len(search.stack)]
         /\ Len(search.stack) \in Nat \ {0}
  <1>1. search.stack \in Seq(Frames)
    BY DEF ResolutionInv, Searches
  <1>2. Top \in Frames /\ Top = search.stack[Len(search.stack)]
    BY <1>1, FrontAndLast DEF Top
  <1>3. Len(search.stack) \in Nat \ {0} /\ DOMAIN search.stack = 1..Len(search.stack)
    BY <1>1, FrontAndLast
  <1> QED
    BY <1>2, <1>3 DEF Frames

\* The next inherit is in every closed set, and following it leaves it next.
LEMMA NextInherit ==
  ASSUME NEW n, IndexOK(n), NEW s, Sound(n, s), s.found = NoFile, s.stack # <<>>,
         Last(s.stack).rest # <<>>
  PROVE  LET top == Last(s.stack)
             f == Head(top.rest)
             y == [top EXCEPT !.rest = Tail(@)] IN
         /\ f \in Files /\ y \in Frames /\ y.file = top.file
         /\ FrameOK(y, Len(s.stack), s.seen)
         /\ top.depth + 1 = Len(s.stack)
         /\ \A S \in SUBSET Files : Closed(n, {}, S) => f \in S
         /\ \A m, w, N : FrameDone(m, w, top, N) /\ (f \in N \/ f \in w) => FrameDone(m, w, y, N)
  <1> DEFINE top == Last(s.stack)
             tl == Tail(top.rest)
             f == Head(top.rest)
             y == [top EXCEPT !.rest = tl]
  <1>1. s.stack \in Seq(Frames)
    BY DEF Sound, Searches
  <1>2. top \in Frames /\ top = s.stack[Len(s.stack)] /\ Len(s.stack) \in DOMAIN s.stack /\ Len(s.stack) \in Nat
    BY <1>1, FrontAndLast
  <1>3. FrameOK(top, Len(s.stack), s.seen)
    BY <1>2 DEF Sound
  <1> HIDE DEF top
  <1>4. top.rest \in Seq(Files) /\ top.depth \in Nat /\ top.module \in BOOLEAN /\ top.file \in Files
    BY <1>2 DEF Frames
  <1>5. f \in Files /\ tl \in Seq(Files) /\ f \in ToSet(top.rest)
    <2>1. top.rest # <<>>
      BY DEF top
    <2>2. 1 \in 1..Len(top.rest) /\ f = top.rest[1]
      BY <1>4, <2>1
    <2> QED
      BY <1>4, <2>1, <2>2 DEF ToSet
  <1>6. ToSet(tl) \subseteq ToSet(top.rest) /\ ToSet(top.rest) \subseteq ToSet(tl) \cup {f}
    <2>0. top.rest # <<>>
      BY DEF top
    <2>1. ToSet(tl) = {tl[i] : i \in 1..Len(tl)} /\ ToSet(top.rest) = {top.rest[i] : i \in 1..Len(top.rest)}
      <3>1. tl \in Seq(Files) /\ top.rest \in Seq(Files)
        BY <1>4, <1>5
      <3> HIDE DEF tl
      <3>2. \A w \in Seq(Files) : ToSet(w) = {w[i] : i \in 1..Len(w)}
        BY SequenceElements
      <3> QED
        BY <3>1, <3>2, Zenon
    <2>2. Len(tl) = Len(top.rest) - 1 /\ \A i \in 1..Len(tl) : tl[i] = top.rest[i + 1]
      BY <1>4, <2>0
    <2>3. \A i \in 1..Len(tl) : i + 1 \in 1..Len(top.rest)
      BY <1>4, <1>5, <2>2
    <2>4. \A i \in 1..Len(top.rest) : i = 1 \/ (i - 1 \in 1..Len(tl) /\ top.rest[i] = tl[i - 1])
      BY <1>4, <1>5, <2>2
    <2>5. f = top.rest[1]
      BY <1>4, <2>0
    <2> HIDE DEF tl, f
    <2> QED
      BY <2>1, <2>2, <2>3, <2>4, <2>5
  <1> HIDE DEF tl, f
  <1>7. y \in Frames /\ y.file = top.file /\ y.rest = tl /\ y.depth = top.depth /\ y.module = top.module
    BY <1>2, <1>4, <1>5 DEF Frames
  <1> HIDE DEF y
  <1>8. FrameOK(y, Len(s.stack), s.seen)
    BY <1>3, <1>6, <1>7 DEF FrameOK
  <1>9. top.depth + 1 = Len(s.stack)
    BY <1>2, <1>3, <1>4 DEF FrameOK
  <1>10. ASSUME NEW S \in SUBSET Files, Closed(n, {}, S)
         PROVE  f \in S
    <2>1. top.file \in S \cup {request.file}
      BY <1>3, <1>10 DEF Sound, FrameOK
    <2>2. f \in OutOf(n, {}, top.file)
      BY <1>3, <1>5 DEF FrameOK, OutOf
    <2> QED
      BY <1>10, <2>1, <2>2 DEF Closed
  <1>11. \A m, w, N : FrameDone(m, w, top, N) /\ (f \in N \/ f \in w) => FrameDone(m, w, y, N)
    BY <1>6, <1>7 DEF FrameDone
  <1> QED
    BY <1>5, <1>7, <1>8, <1>9, <1>10, <1>11 DEF y, f, tl, top

LEMMA FollowInheritTyped ==
  ASSUME ResolutionInv, FollowInherit
  PROVE  /\ search.stack # <<>> /\ Top.rest # <<>> /\ Head(Top.rest) \in Files
         /\ [Top EXCEPT !.rest = Tail(@)] \in Frames
         /\ table' = [table EXCEPT ![Head(Top.rest)] = disk[Head(Top.rest)]] /\ IndexOK(table')
         /\ gen' \in {gen, gen + 1} /\ search' \in Searches /\ SameAttempt(search, search')
         /\ search' = Visit(WithTop(search, [Top EXCEPT !.rest = Tail(@)]), Head(Top.rest),
                            disk[Head(Top.rest)], Top.depth + 1)
         /\ \A S \in SUBSET Files : Closed(table', {}, S) => Closed(table, {}, S)
  <1> DEFINE f == Head(Top.rest)
             tl == Tail(Top.rest)
             y == [Top EXCEPT !.rest = tl]
             s == WithTop(search, y)
             t == IF table[f] = NoTable THEN disk[f] ELSE table[f]
  <1>1. search.stack # <<>> /\ Top.rest # <<>>
    BY DEF FollowInherit
  <1>2. Top \in Frames /\ Top.rest \in Seq(Files) /\ Top.depth \in Nat
    BY <1>1, TopTypes
  <1>3. f \in Files /\ tl \in Seq(Files)
    BY <1>1, <1>2
  <1> HIDE DEF tl, f
  <1>4. y \in Frames
    BY <1>2, <1>3 DEF Frames
  <1>5. t = disk[f] /\ disk[f] \in TableType /\ IndexOK(table)
    BY <1>3 DEF ResolutionInv, IndexOK
  <1>6. /\ table' = [table EXCEPT ![f] = t] /\ search' = Visit(s, f, t, Top.depth + 1)
        /\ gen' \in {gen, gen + 1}
    BY DEF FollowInherit, f, tl
  <1> HIDE DEF t, y
  <1>7. s \in Searches /\ SameAttempt(search, s)
    BY <1>1, <1>4, TopTyped DEF ResolutionInv
  <1> HIDE DEF s
  <1>8. search' \in Searches /\ SameAttempt(s, search')
    <2>1. Top.depth + 1 \in Nat
      BY <1>2
    <2> QED
      BY <1>3, <1>5, <1>6, <1>7, <2>1, VisitTyped
  <1>9. IndexOK(table')
    BY <1>3, <1>5, <1>6 DEF IndexOK
  <1>10. \A S \in SUBSET Files : Closed(table', {}, S) => Closed(table, {}, S)
    <2>1. ASSUME NEW g \in Files
          PROVE  Module(table, g) \subseteq Module(table', g)
      <3>1. \A h \in Files : table[h] # NoTable => table'[h] # NoTable
        <4>1. disk[f] # NoTable
          BY <1>5, ResolutionAssumption DEF TableType
        <4> QED
          BY <1>3, <1>5, <1>6, <4>1 DEF IndexOK
      <3> QED
        BY <3>1, ResolutionAssumption DEF Module
    <2>2. request.file \in Files
      BY <1>5, ResolutionAssumption DEF IndexOK
    <2> QED
      BY <2>1, <2>2 DEF Closed, OutOf
  <1>11. SameAttempt(search, search')
    BY <1>7, <1>8 DEF SameAttempt
  <1> QED
    BY <1>1, <1>3, <1>4, <1>5, <1>6, <1>8, <1>9, <1>10, <1>11 DEF s, y, tl, f

LEMMA FollowInheritKeeps ==
  ASSUME ResolutionInv, FollowInherit
  PROVE  ResolutionInv'
  <1> DEFINE f == Head(Top.rest)
             y == [Top EXCEPT !.rest = Tail(@)]
             m == [table EXCEPT ![f] = disk[f]]
             s == WithTop(search, y)
  <1>0. /\ search.stack # <<>> /\ Top.rest # <<>> /\ f \in Files /\ y \in Frames
        /\ table' = m /\ IndexOK(table') /\ gen' \in {gen, gen + 1}
        /\ search' \in Searches /\ SameAttempt(search, search')
        /\ search' = Visit(s, f, disk[f], Top.depth + 1)
        /\ \A S \in SUBSET Files : Closed(table', {}, S) => Closed(table, {}, S)
    BY FollowInheritTyped
  <1>1. UNCHANGED <<disk, request, answer, moves, lost>>
    BY DEF FollowInherit
  <1>2. ASSUME Trusted'
        PROVE  Sound(table', search') /\ Thorough(table', lost', search', {})
    <2>1. Trusted
      BY <1>0, <1>1, <1>2, TrustedBefore
    <2>2. /\ IndexOK(table) /\ Sound(table, search) /\ Thorough(table, lost, search, {}) /\ Shallow
          /\ search.found = NoFile
      BY <1>0, <2>1 DEF ResolutionInv, Sound
    <2>3. IndexOK(m) /\ Sound(m, search) /\ Thorough(m, lost, search, {f})
      BY <1>0, <2>2, IndexGrows
    <2>4. /\ y.file = Top.file /\ FrameOK(y, Len(search.stack), search.seen)
          /\ Top.depth + 1 = Len(search.stack)
          /\ \A S \in SUBSET Files : Closed(m, {}, S) => f \in S
          /\ \A N : FrameDone(m, lost, Top, N) /\ f \in N => FrameDone(m, lost, y, N)
      BY <1>0, <2>2, <2>3, NextInherit DEF Top
    <2> HIDE DEF y, f, m
    <2>5. FrameDone(m, lost, y, Silent(search) \cup {f})
      <3>1. Top = search.stack[Len(search.stack)] /\ Len(search.stack) \in DOMAIN search.stack
        BY <1>0, TopTypes
      <3>2. FrameDone(m, lost, Top, Silent(search) \cup {f})
        BY <2>2, <2>3, <3>1 DEF Thorough
      <3> QED
        BY <2>4, <3>2
    <2>6. Sound(m, s)
      BY <1>0, <2>3, <2>4, TopSound
    <2>7. Thorough(m, lost, s, {f})
      BY <1>0, <2>2, <2>3, <2>4, <2>5, TopThorough DEF Top
    <2>8. s.stack # <<>> /\ s.found = NoFile /\ Len(s.stack) = Len(search.stack)
      BY <1>0, <2>2, <2>3, TopFields
    <2> HIDE DEF s
    <2>9. search' = Visit(s, f, disk[f], Len(s.stack))
      BY <1>0, <2>4, <2>8
    <2>10. Sound(m, search')
      BY <1>0, <2>3, <2>4, <2>6, <2>8, <2>9, VisitSound
    <2>11. Thorough(m, lost, search', {})
      BY <1>0, <2>2, <2>3, <2>4, <2>6, <2>7, <2>8, <2>9, VisitThorough
    <2>12. table' = m /\ lost' = lost
      BY <1>0, <1>1 DEF m
    <2> QED
      BY <2>10, <2>11, <2>12
  <1>3. gen' \in Nat /\ gen <= gen'
    <2>1. gen \in Nat
      BY DEF ResolutionInv
    <2> QED
      BY <1>0, <2>1
  <1> QED
    BY <1>0, <1>1, <1>2, <1>3, SearchGoesOn

\* The next inherit is given up: nothing behind it is asked for any more.
LEMMA LoseInheritKeeps ==
  ASSUME ResolutionInv, LoseInherit
  PROVE  ResolutionInv'
  <1> DEFINE f == Head(Top.rest)
             y == [Top EXCEPT !.rest = Tail(@)]
             s == WithTop(search, y)
  <1>1. /\ search.stack # <<>> /\ Top.rest # <<>> /\ lost' = lost \cup {f} /\ search' = s
        /\ UNCHANGED <<disk, table, gen, request, answer, moves>>
    BY DEF LoseInherit
  <1>2. y \in Frames
    <2>1. Top \in Frames /\ Top.rest \in Seq(Files)
      BY <1>1, TopTypes
    <2>2. Tail(Top.rest) \in Seq(Files)
      BY <1>1, <2>1
    <2> QED
      BY <2>1, <2>2 DEF Frames
  <1> HIDE DEF y
  <1>3. search' \in Searches /\ SameAttempt(search, search')
    BY <1>1, <1>2, TopTyped DEF ResolutionInv
  <1>4. ASSUME Trusted'
        PROVE  Sound(table', search') /\ Thorough(table', lost', search', {})
    <2>1. Trusted
      BY <1>1, <1>3, <1>4, TrustedBefore
    <2>2. /\ IndexOK(table) /\ Sound(table, search) /\ Thorough(table, lost, search, {})
          /\ search.found = NoFile
      BY <1>1, <2>1 DEF ResolutionInv, Sound
    <2>3. /\ y.file = Top.file /\ FrameOK(y, Len(search.stack), search.seen)
          /\ \A N : FrameDone(table, lost', Top, N) /\ f \in lost' => FrameDone(table, lost', y, N)
      BY <1>1, <2>2, NextInherit DEF Top, y
    <2>4. Thorough(table, lost', search, {})
      BY <1>1, <2>2 DEF Thorough, FrameDone, OutOf
    <2>5. FrameDone(table, lost', y, Silent(search) \cup {})
      <3>1. Top = search.stack[Len(search.stack)] /\ Len(search.stack) \in DOMAIN search.stack
        BY <1>1, TopTypes
      <3>2. FrameDone(table, lost', Top, Silent(search) \cup {})
        BY <2>2, <2>4, <3>1 DEF Thorough
      <3> QED
        BY <1>1, <2>3, <3>2
    <2>6. Sound(table, s)
      BY <1>1, <1>2, <2>2, <2>3, TopSound
    <2>7. Thorough(table, lost', s, {})
      BY <1>1, <1>2, <2>2, <2>3, <2>4, <2>5, TopThorough DEF Top
    <2> QED
      BY <1>1, <2>6, <2>7
  <1>5. gen' \in Nat /\ gen <= gen' /\ IndexOK(table')
    BY <1>1 DEF ResolutionInv
  <1> QED
    BY <1>1, <1>3, <1>4, <1>5, SearchGoesOn

LEMMA FollowModuleKeeps ==
  ASSUME ResolutionInv, FollowModule
  PROVE  ResolutionInv'
  <1> DEFINE f == DirModule[Top.file]
             y == [Top EXCEPT !.module = FALSE]
             s == WithTop(search, y)
             skip == f = NoFile \/ table[f] = NoTable
  <1>1. /\ search.stack # <<>> /\ Top.rest = <<>> /\ Top.module
        /\ search' = IF skip THEN s ELSE Visit(s, f, table[f], Top.depth + 1)
        /\ UNCHANGED <<disk, table, gen, request, answer, moves, lost>>
    BY DEF FollowModule
  <1>2. /\ Top \in Frames /\ Top.file \in Files /\ Top.depth \in Nat
        /\ Len(search.stack) \in DOMAIN search.stack /\ Top = search.stack[Len(search.stack)]
    BY <1>1, TopTypes
  <1>3. y \in Frames /\ y.file = Top.file /\ y.depth = Top.depth /\ y.rest = Top.rest /\ ~y.module
    BY <1>2 DEF Frames
  <1>4. f \in Files \cup {NoFile}
    BY <1>2, ResolutionAssumption
  <1>5. ASSUME ~skip
        PROVE  f \in Files /\ table[f] = disk[f] /\ disk[f] \in TableType /\ Module(table, Top.file) = {f}
    BY <1>4, <1>5 DEF ResolutionInv, IndexOK, Module
  <1>6. skip => Module(table, Top.file) = {}
    BY DEF Module
  <1> HIDE DEF y, f
  <1>7. s \in Searches /\ SameAttempt(search, s)
    BY <1>1, <1>3, TopTyped DEF ResolutionInv
  <1>8. search' \in Searches /\ SameAttempt(search, search')
    <2>1. CASE skip
      BY <1>1, <1>7, <2>1
    <2>2. CASE ~skip
      <3>1. Top.depth + 1 \in Nat
        BY <1>2
      <3>2. search' = Visit(s, f, disk[f], Top.depth + 1) /\ f \in Files /\ disk[f] \in TableType
        BY <1>1, <1>5, <2>2
      <3> HIDE DEF s, skip
      <3>3. search' \in Searches /\ SameAttempt(s, search')
        BY <1>7, <3>1, <3>2, VisitTyped DEF ResolutionInv
      <3> QED
        BY <1>7, <3>3 DEF SameAttempt
    <2> QED
      BY <2>1, <2>2
  <1>9. ASSUME Trusted'
        PROVE  Sound(table', search') /\ Thorough(table', lost', search', {})
    <2>0. Trusted
      BY <1>1, <1>8, <1>9, TrustedBefore
    <2>1. /\ IndexOK(table) /\ Sound(table, search) /\ Thorough(table, lost, search, {}) /\ Shallow
          /\ search.found = NoFile
      BY <1>1, <2>0 DEF ResolutionInv, Sound
    <2>2. /\ FrameOK(Top, Len(search.stack), search.seen)
          /\ FrameDone(table, lost, Top, Silent(search) \cup {})
      BY <1>2, <2>1 DEF Sound, Thorough
    <2>3. FrameOK(y, Len(search.stack), search.seen)
      BY <1>3, <2>2 DEF FrameOK
    <2>4. Sound(table, s)
      BY <1>1, <1>3, <2>1, <2>3, TopSound
    <2>5. s.stack # <<>> /\ s.found = NoFile /\ Len(s.stack) = Len(search.stack)
      BY <1>1, <1>3, <2>1, TopFields
    <2>6. CASE skip
      <3>1. FrameDone(table, lost, y, Silent(search) \cup {})
        BY <1>3, <1>6, <2>2, <2>6 DEF FrameDone
      <3>2. Thorough(table, lost, s, {})
        BY <1>1, <1>3, <2>1, <3>1, TopThorough DEF Top
      <3> QED
        BY <1>1, <2>4, <2>6, <3>2
    <2>7. CASE ~skip
      <3>1. f \in Files /\ Module(table, Top.file) = {f} /\ ThroughModule(Top.file)
        BY <1>1, <1>5, <2>2, <2>7 DEF FrameOK
      <3>2. Thorough(table, lost, search, {f})
        BY <2>1 DEF Thorough, FrameDone
      <3>3. FrameDone(table, lost, y, Silent(search) \cup {f})
        BY <1>3, <2>2, <3>1 DEF FrameDone
      <3>4. Thorough(table, lost, s, {f})
        BY <1>1, <1>3, <2>1, <3>2, <3>3, TopThorough DEF Top
      <3>5. ASSUME NEW S \in SUBSET Files, Closed(table, {}, S)
            PROVE  f \in S
        <4>1. Top.file \in S \cup {request.file}
          BY <2>1, <2>2, <3>5 DEF Sound, FrameOK
        <4>2. f \in OutOf(table, {}, Top.file)
          BY <3>1 DEF OutOf
        <4> QED
          BY <3>5, <4>1, <4>2 DEF Closed
      <3>6. Top.depth + 1 = Len(s.stack)
        <4>1. Len(search.stack) \in Nat
          BY <1>1, TopTypes
        <4> QED
          BY <1>2, <2>2, <2>5, <4>1 DEF FrameOK
      <3>7. search' = Visit(s, f, disk[f], Len(s.stack))
        BY <1>1, <1>5, <2>7, <3>6
      <3> HIDE DEF s, skip
      <3>8. Sound(table, search')
        BY <2>1, <2>4, <2>5, <3>1, <3>5, <3>7, VisitSound
      <3>9. Thorough(table, lost, search', {})
        BY <2>1, <2>4, <2>5, <3>1, <3>4, <3>5, <3>7, VisitThorough
      <3> QED
        BY <1>1, <3>8, <3>9
    <2> QED
      BY <2>6, <2>7
  <1>10. gen' \in Nat /\ gen <= gen' /\ IndexOK(table')
    BY <1>1 DEF ResolutionInv
  <1> QED
    BY <1>1, <1>8, <1>9, <1>10, SearchGoesOn

LEMMA ReturnKeeps ==
  ASSUME ResolutionInv, Return
  PROVE  ResolutionInv'
  <1>1. /\ search.stack # <<>> /\ Top.rest = <<>> /\ ~Top.module /\ search' = Popped(search)
        /\ UNCHANGED <<disk, table, gen, request, answer, moves, lost>>
    BY DEF Return
  <1>2. search' \in Searches /\ SameAttempt(search, search')
    <2>1. Top \in Frames
      BY <1>1, TopTypes
    <2> QED
      BY <1>1, <2>1, TopTyped DEF ResolutionInv
  <1>3. ASSUME Trusted'
        PROVE  Sound(table', search') /\ Thorough(table', lost', search', {})
    <2>1. Trusted
      BY <1>1, <1>2, <1>3, TrustedBefore
    <2>2. Sound(table, search) /\ Thorough(table, lost, search, {}) /\ search.found = NoFile
      BY <1>1, <2>1 DEF ResolutionInv, Sound
    <2> QED
      BY <1>1, <2>2, PopKeeps DEF Top
  <1>4. gen' \in Nat /\ gen <= gen' /\ IndexOK(table')
    BY <1>1 DEF ResolutionInv
  <1> QED
    BY <1>1, <1>2, <1>3, <1>4, SearchGoesOn

LEMMA FinishKeeps ==
  ASSUME ResolutionInv, Finish
  PROVE  ResolutionInv'
  <1>1. /\ search.state = "running" /\ search.stack = <<>>
        /\ UNCHANGED <<disk, table, gen, request, moves, lost>>
    BY DEF Finish
  <1>2. search \in Searches /\ search.snap \in Nat /\ search.tries \in {1, 2} /\ search.found \in Files \cup {NoFile}
    BY DEF ResolutionInv, Searches
  <1>3. IndexOK(table) /\ IndexOK(table)' /\ Shallow'
    <2>1. IndexOK(table)
      BY DEF ResolutionInv
    <2> QED
      BY <1>1, <2>1, IndexCarried, ShallowCarried DEF ResolutionInv
  <1>4. CASE Overtaken /\ table[request.file] # NoTable
    <2>1. search' = Start(table, gen, 2) /\ answer' = search.found
      BY <1>4 DEF Finish
    <2>2. gen \in Nat /\ gen # search.snap /\ search.found # NoFile /\ search.snap <= gen
      BY <1>4 DEF Overtaken, ResolutionInv
    <2>3. /\ Sound(table, search') /\ Thorough(table, lost, search', {})
          /\ search'.state = "running" /\ search'.snap = gen /\ search'.tries = 2
      BY <1>3, <1>4, <2>1, <2>2, StartKeeps
    <2>4. Sound(table, search)' /\ Thorough(table, lost, search, {})'
      BY <1>1, <2>3, SoundCarried, ThoroughCarried
    <2>5. moves' = 0 => AnswerOK(table', answer')
      BY <1>1, <2>1, <2>2 DEF ResolutionInv, Trusted, Sound, AnswerOK
    <2>6. (moves = 0 => AnswerOK(table, answer))'
      BY <1>1, <2>5, AnswerCarried
    <2>7. gen > 0 /\ search'.snap > 0 /\ search'.snap <= gen'
      BY <1>1, <1>2, <2>2, <2>3
    <2>8. (search \in Searches)'
      BY <2>4 DEF Sound
    <2> QED
      BY <1>1, <1>2, <1>3, <2>1, <2>2, <2>3, <2>4, <2>6, <2>7, <2>8 DEF ResolutionInv
  <1>5. CASE ~(Overtaken /\ table[request.file] # NoTable)
    <2>1. /\ search' = [search EXCEPT !.state = "done"]
          /\ answer' = IF search.found # NoFile THEN search.found ELSE answer
      BY <1>5 DEF Finish
    <2>2. /\ search' \in Searches /\ search'.stack = <<>> /\ search'.seen = search.seen
          /\ search'.found = search.found /\ search'.snap = search.snap /\ search'.tries = search.tries
          /\ search'.state = "done"
      BY <1>1, <1>2, <2>1 DEF Searches
    <2>3. ASSUME Trusted'
          PROVE  Sound(table', search') /\ Thorough(table', lost', search', {})
      <3>1. Trusted
        BY <1>1, <2>2, <2>3 DEF Trusted
      <3>2. Sound(table, search) /\ Thorough(table, lost, search, {})
        BY <3>1 DEF ResolutionInv
      <3>3. Sound(table, search')
        BY <1>1, <2>2, <3>2 DEF Sound
      <3>4. Silent(search') = Silent(search) /\ \A g : OnStack(search', g) <=> OnStack(search, g)
        BY <1>1, <2>2 DEF Silent, OnStack
      <3>5. Thorough(table, lost, search', {})
        BY <1>1, <2>2, <3>2, <3>4 DEF Thorough
      <3> QED
        BY <1>1, <3>3, <3>5
    <2>4. (Trusted => Sound(table, search) /\ Thorough(table, lost, search, {}))'
      BY <1>1, <2>3, SoundCarried, ThoroughCarried
    <2>5. moves' = 0 => AnswerOK(table', answer')
      BY <1>1, <2>1 DEF ResolutionInv, Trusted, Sound, AnswerOK
    <2>6. (moves = 0 => AnswerOK(table, answer))'
      BY <1>1, <2>5, AnswerCarried
    <2>7. (search \in Searches)'
      BY <2>2 DEF Searches, Frames
    <2>8. search'.tries = 1 =>
            /\ answer' = search'.found
            /\ search'.found # NoFile => gen' = search'.snap \/ table'[request'.file] = NoTable
      BY <1>1, <1>5, <2>1, <2>2 DEF ResolutionInv, Overtaken
    <2>9. search'.found # NoFile => answer' = search'.found
      BY <2>1, <2>2
    <2>10. answer' \in Files \cup {NoFile} /\ (search'.tries = 2 => search'.snap > 0 /\ answer' # NoFile)
      BY <1>2, <2>1, <2>2 DEF ResolutionInv
    <2>11. gen' \in Nat /\ moves' \in Nat /\ search'.snap <= gen'
      BY <1>1, <2>2 DEF ResolutionInv
    <2> QED
      BY <1>3, <2>2, <2>4, <2>6, <2>7, <2>8, <2>9, <2>10, <2>11 DEF ResolutionInv
  <1> QED
    BY <1>4, <1>5

\* An edit gives a file another table, and every index that has one has that.
LEMMA MovesKeepTheIndex ==
  ASSUME IndexOK(table), NEW f \in Files, IndexMoves(f)
  PROVE  IndexOK(table)'
  <1>1. /\ disk \in [Files -> TableType]
        /\ table \in [Files -> TableType \cup {NoTable}]
        /\ \A g \in Files : table[g] \in {NoTable, disk[g]}
    BY DEF IndexOK
  <1>2. UNCHANGED request
    BY DEF IndexMoves
  <1>3. PICK t \in Tables \cup {NoTable} :
          /\ table' = [table EXCEPT ![f] = t]
          /\ disk' = IF t = NoTable THEN disk ELSE [disk EXCEPT ![f] = t]
    BY DEF IndexMoves
  <1>4. t \in TableType \cup {NoTable}
    BY ResolutionAssumption DEF TableType
  <1>5. /\ disk' \in [Files -> TableType] /\ table' \in [Files -> TableType \cup {NoTable}]
        /\ \A g \in Files : table'[g] \in {NoTable, disk'[g]}
    <2>1. CASE t = NoTable
      BY <1>1, <1>3, <2>1
    <2>2. CASE t # NoTable
      <3>1. disk' = [disk EXCEPT ![f] = t] /\ t \in TableType
        BY <1>3, <1>4, <2>2
      <3> QED
        BY <1>1, <1>3, <3>1
    <2> QED
      BY <2>1, <2>2
  <1> QED
    BY <1>2, <1>5 DEF IndexOK, TableType

LEMMA IndexMovesKeeps ==
  ASSUME ResolutionInv, Shallow', NEW f \in Files, IndexMoves(f)
  PROVE  ResolutionInv'
  <1>1. /\ search.state = "running" /\ gen' = gen + 1 /\ moves' = moves + 1
        /\ UNCHANGED <<request, search, answer>>
    BY DEF IndexMoves
  <1>2. IndexOK(table)'
    BY MovesKeepTheIndex DEF ResolutionInv
  <1>3. gen \in Nat /\ moves \in Nat /\ search.snap \in Nat /\ search.snap <= gen
    BY DEF ResolutionInv, Searches
  <1>4. ~(moves' = 0) /\ ~(search'.snap = gen') /\ search'.snap <= gen' /\ gen' \in Nat /\ moves' \in Nat
    BY <1>1, <1>3
  <1>5. (search \in Searches)'
    BY <1>1 DEF ResolutionInv, Searches, Frames
  <1> QED
    BY <1>1, <1>2, <1>4, <1>5 DEF ResolutionInv, Trusted

LEMMA ResolutionInvNext ==
  ResolutionInv /\ Shallow' /\ [ResolutionNext]_resolutionVars => ResolutionInv'
  <1> SUFFICES ASSUME ResolutionInv, Shallow', [ResolutionNext]_resolutionVars PROVE ResolutionInv'
    OBVIOUS
  <1>1. CASE FollowInherit
    BY <1>1, FollowInheritKeeps
  <1>7. CASE LoseInherit
    BY <1>7, LoseInheritKeeps
  <1>2. CASE FollowModule
    BY <1>2, FollowModuleKeeps
  <1>3. CASE Return
    BY <1>3, ReturnKeeps
  <1>4. CASE Finish
    BY <1>4, FinishKeeps
  <1>5. CASE \E f \in Files : IndexMoves(f)
    BY <1>5, IndexMovesKeeps
  <1>6. CASE UNCHANGED resolutionVars
    <2>1. UNCHANGED <<disk, table, gen, request, search, answer, moves, lost>>
      BY <1>6 DEF resolutionVars
    <2>2. IndexOK(table)' /\ Shallow'
      BY <2>1, IndexCarried, ShallowCarried DEF ResolutionInv
    <2>3. (Trusted => Sound(table, search) /\ Thorough(table, lost, search, {}))'
      BY <2>1, SoundCarried, ThoroughCarried DEF ResolutionInv, Trusted
    <2>4. (moves = 0 => AnswerOK(table, answer))'
      BY <2>1, AnswerCarried DEF ResolutionInv
    <2>5. (search \in Searches)'
      BY <2>1 DEF ResolutionInv, Searches, Frames
    <2> QED
      BY <2>1, <2>2, <2>3, <2>4, <2>5 DEF ResolutionInv
  <1> QED
    BY <1>1, <1>2, <1>3, <1>4, <1>5, <1>6, <1>7 DEF ResolutionNext

\* An attempt that is over and found nothing has seen whatever can be reached.
LEMMA NothingLeft ==
  ASSUME ResolutionInv, IsFiniteSet(Files), search.state = "done",
         Sound(table, search), Thorough(table, lost, search, {}), search.found = NoFile
  PROVE  Declaring(lost) = {}
  <1>1. search.stack = <<>> /\ IndexOK(table)
    BY DEF ResolutionInv
  <1>2. \A f : ~OnStack(search, f)
    BY <1>1 DEF OnStack
  <1>3. Silent(search) \in SUBSET Files /\ Silent(search) \subseteq search.seen /\ request.file \in search.seen
    BY DEF Sound, Searches, Silent
  <1>4. Closed(table, lost, Silent(search))
    BY <1>2, <1>3 DEF Thorough, Closed
  <1>5. Reachable(lost) \subseteq Silent(search)
    BY <1>1, <1>3, <1>4, ReachableIsLeast
  <1>6. \A f \in Files : Seen(f) = disk[f]
    BY <1>1 DEF Seen, IndexOK
  <1> QED
    BY <1>3, <1>5, <1>6 DEF Declaring, Silent

\* What an attempt found can be reached and declares the name.
LEMMA FoundIsDeclared ==
  ASSUME IndexOK(table), IsFiniteSet(Files), NEW a \in Files, disk[a].declares,
         \A S \in SUBSET Files : Closed(table, {}, S) => a \in S
  PROVE  a \in Declaring({})
  <1>1. a \in Reachable({})
    BY ReachableIsLeast
  <1>2. Seen(a) = disk[a]
    BY DEF Seen, IndexOK
  <1> QED
    BY <1>1, <1>2 DEF Declaring

LEMMA InvResolves ==
  ASSUME ResolutionInv, IsFiniteSet(Files)
  PROVE  ResolvesWhatIsReachable
  <1> SUFFICES ASSUME search.state = "done", moves = 0
               PROVE  /\ answer \in Declaring({}) \cup {NoFile}
                      /\ answer = NoFile => Declaring(lost) = {}
    BY DEF ResolvesWhatIsReachable
  <1>1. IndexOK(table) /\ Sound(table, search) /\ Thorough(table, lost, search, {}) /\ AnswerOK(table, answer)
    BY DEF ResolutionInv, Trusted
  <1>2. answer \in Files \cup {NoFile}
    BY DEF ResolutionInv
  <1>3. CASE answer # NoFile
    <2>1. answer \in Declaring({})
      BY <1>1, <1>2, <1>3, FoundIsDeclared DEF AnswerOK
    <2> QED
      BY <1>3, <2>1
  <1>4. CASE answer = NoFile
    <2>1. search.found = NoFile
      BY <1>4 DEF ResolutionInv
    <2> QED
      BY <1>1, <1>4, <2>1, NothingLeft
  <1> QED
    BY <1>3, <1>4

LEMMA InvSurvives ==
  ASSUME ResolutionInv, IsFiniteSet(Files)
  PROVE  AnswerSurvivesAMove
  <1> SUFFICES ASSUME search.state = "done", gen <= 1, answer # NoFile, table[request.file] # NoTable
               PROVE  answer \in Declaring({}) \/ Declaring(lost) = {}
    BY DEF AnswerSurvivesAMove
  <1>1. gen \in Nat /\ search.snap \in Nat /\ search.snap <= gen /\ search.tries \in {1, 2}
        /\ search.found \in Files \cup {NoFile}
    BY DEF ResolutionInv, Searches
  <1>2. search.snap = gen
    <2>1. CASE search.tries = 2
      <3>1. search.snap > 0
        BY <2>1 DEF ResolutionInv
      <3> QED
        BY <1>1, <3>1
    <2>2. CASE search.tries = 1
      BY <2>2 DEF ResolutionInv
    <2> QED
      BY <1>1, <2>1, <2>2
  <1>3. IndexOK(table) /\ Sound(table, search) /\ Thorough(table, lost, search, {})
    BY <1>2 DEF ResolutionInv, Trusted
  <1>4. CASE search.found = NoFile
    BY <1>3, <1>4, NothingLeft
  <1>5. CASE search.found # NoFile
    <2>1. answer = search.found /\ answer \in Files /\ disk[answer].declares
      BY <1>1, <1>3, <1>5 DEF ResolutionInv, Sound
    <2>2. \A S \in SUBSET Files : Closed(table, {}, S) => answer \in S
      BY <1>3, <1>5, <2>1 DEF Sound
    <2> QED
      BY <1>3, <2>1, <2>2, FoundIsDeclared
  <1> QED
    BY <1>4, <1>5

LEMMA ResolutionInvariant == ResolutionSpec /\ []Shallow => []ResolutionInv
  BY ResolutionInvInit, ResolutionInvNext, PTL DEF ResolutionSpec

(* A search that nothing else disturbs answers with a reachable declaration,  *)
(* or with none when there is none but behind inherits that failed: its       *)
(* cut-offs for files already seen and its own indexing on demand hide none   *)
(* (searchInheritChainForSymbol, resolveUnresolvedReference), as long as      *)
(* fewer files than MAX_DEPTH + 2 can be reached at all, so that no chain of  *)
(* inherits is cut off.                                                       *)
THEOREM FindsWhatIsReachable ==
  ASSUME IsFiniteSet(Files)
  PROVE  ResolutionSpec /\ []Shallow => []ResolvesWhatIsReachable
  <1>1. ResolutionInv => ResolvesWhatIsReachable
    BY InvResolves
  <1> QED
    BY <1>1, ResolutionInvariant, PTL

(* An answer that one move of the index overtook is resolved once more, and   *)
(* names a declaration of the index as it is when the request ends, unless    *)
(* there is none any more but behind inherits that failed                     *)
(* (resolveCrossFileDefinition).                                              *)
THEOREM AnswerIsCurrentAfterAMove ==
  ASSUME IsFiniteSet(Files)
  PROVE  ResolutionSpec /\ []Shallow => []AnswerSurvivesAMove
  <1>1. ResolutionInv => AnswerSurvivesAMove
    BY InvSurvives
  <1> QED
    BY <1>1, ResolutionInvariant, PTL
===============================================================================
