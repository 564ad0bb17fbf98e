------------------------- MODULE LaunchArgsProofs --------------------------
(***************************************************************************)
(* Type correctness of LaunchArgs, LaunchMatches and PaperArgs, for any    *)
(* arguments, versions and flags.  The first part is about Kept: what the  *)
(* loops over lines keep, by induction over sequences.                     *)
(***************************************************************************)
EXTENDS LaunchArgs, SequenceTheorems, FiniteSetTheorems, WellFoundedInduction, TLAPS

-----------------------------------------------------------------------------
(* A non-empty set of naturals has a least element: what makes induction   *)
(* over indices a first-order argument.                                    *)
LEMMA Least ==
    ASSUME NEW T, T \subseteq Nat, T # {}
    PROVE  \E n \in T : \A m \in T : n <= m
<1> DEFINE less == {ss \in Nat \X Nat : ss[1] < ss[2]}
<1>1. IsWellFoundedOn(less, Nat)
  BY NatLessThanWellFounded DEF OpToRel
<1> HIDE DEF less
<1>2. PICK n \in T : \A m \in T : <<m, n>> \notin less
  BY <1>1, WFMin
<1> SUFFICES ASSUME NEW m \in T PROVE n <= m
  BY <1>2
<1>3. <<m, n>> \notin less
  BY <1>2
<1> QED
  BY <1>3 DEF less

(* k is the recursive function of Kept(s, S), up to n.                     *)
KeptBy(k, s, S, n) ==
   k = [i \in 0 .. n |-> IF i = 0 THEN <<>> ELSE IF s[i] \in S THEN Append(k[i - 1], s[i]) ELSE k[i - 1]]

(* The place i of the sequence of results.                                 *)
LEMMA KeptByAt ==
    ASSUME NEW k, NEW s, NEW S, NEW n \in Nat, KeptBy(k, s, S, n), NEW i \in 0 .. n
    PROVE  k[i] = IF i = 0 THEN <<>> ELSE IF s[i] \in S THEN Append(k[i - 1], s[i]) ELSE k[i - 1]
<1>1. DEFINE f == [j \in 0 .. n |-> IF j = 0 THEN <<>> ELSE IF s[j] \in S THEN Append(k[j - 1], s[j]) ELSE k[j - 1]]
<1>2. k = f
  BY DEF KeptBy
<1>3. f[i] = IF i = 0 THEN <<>> ELSE IF s[i] \in S THEN Append(k[i - 1], s[i]) ELSE k[i - 1]
  OBVIOUS
<1> QED
  BY <1>2, <1>3

(* The recursive function of Kept exists, for every length: a least n for  *)
(* which it does not would have a predecessor for which it does.           *)
LEMMA KeptByExists ==
    ASSUME NEW s, NEW S, NEW n \in Nat
    PROVE  \E k : KeptBy(k, s, S, n)
<1> DEFINE T == {m \in Nat : ~ \E k : KeptBy(k, s, S, m)}
<1> SUFFICES ASSUME T # {} PROVE FALSE
  OBVIOUS
<1>1. PICK m \in T : \A j \in T : m <= j
  BY Least
<1>2. m # 0
  <2>1. KeptBy([i \in 0 .. 0 |-> <<>>], s, S, 0)
    BY DEF KeptBy
  <2> QED
    BY <2>1
<1>3. PICK h : KeptBy(h, s, S, m - 1)
  BY <1>1, <1>2
<1> DEFINE last == IF s[m] \in S THEN Append(h[m - 1], s[m]) ELSE h[m - 1]
           k == [i \in 0 .. m |-> IF i < m THEN h[i] ELSE last]
<1>4. KeptBy(k, s, S, m)
  <2>1. h = [i \in 0 .. m - 1 |-> IF i = 0 THEN <<>> ELSE IF s[i] \in S THEN Append(h[i - 1], s[i]) ELSE h[i - 1]]
    BY <1>3 DEF KeptBy
  <2> SUFFICES ASSUME NEW i \in 0 .. m
               PROVE  k[i] = IF i = 0 THEN <<>> ELSE IF s[i] \in S THEN Append(k[i - 1], s[i]) ELSE k[i - 1]
    BY DEF KeptBy
  <2>2. CASE i = m
    BY <2>2, <1>2
  <2>3. CASE i # m
    <3>1. i \in 0 .. m - 1 /\ i < m /\ k[i] = h[i]
      BY <2>3
    <3>2. h[i] = IF i = 0 THEN <<>> ELSE IF s[i] \in S THEN Append(h[i - 1], s[i]) ELSE h[i - 1]
      BY <2>1, <3>1
    <3>3. i # 0 => k[i - 1] = h[i - 1]
      BY <3>1
    <3> QED
      BY <3>1, <3>2, <3>3
  <2> QED
    BY <2>2, <2>3
<1> QED
  BY <1>4

(* Kept is the last value of its recursive function.                       *)
LEMMA KeptIs ==
    ASSUME NEW X, NEW s \in Seq(X), NEW S
    PROVE  \E k : KeptBy(k, s, S, Len(s)) /\ Kept(s, S) = k[Len(s)]
<1>1. Len(s) \in Nat
  OBVIOUS
<1>2. PICK k : KeptBy(k, s, S, Len(s))
  BY <1>1, KeptByExists
<1> QED
  BY <1>2 DEF Kept, KeptBy

(* The first n elements of s and t are the same.                           *)
Agree(s, t, n) == \A i \in 1 .. n : s[i] = t[i]

(* Sequences that agree up to n have the same results up to n.             *)
LEMMA KeptByAgree ==
    ASSUME NEW X, NEW s \in Seq(X), NEW t \in Seq(X), NEW S, NEW n \in Nat, NEW m \in Nat, NEW h, NEW k,
           n <= m, KeptBy(h, s, S, n), KeptBy(k, t, S, m),
           Agree(s, t, n)
    PROVE  \A i \in 0 .. n : h[i] = k[i]
<1> DEFINE T == {i \in 0 .. n : h[i] # k[i]}
<1> SUFFICES ASSUME T # {} PROVE FALSE
  OBVIOUS
<1>1. PICK i \in T : \A j \in T : i <= j
  <2>1. T \subseteq Nat
    OBVIOUS
  <2> HIDE DEF T
  <2> QED
    BY <2>1, Least
<1>2. h[i] = IF i = 0 THEN <<>> ELSE IF s[i] \in S THEN Append(h[i - 1], s[i]) ELSE h[i - 1]
  BY KeptByAt
<1>4. i \in 0 .. m
  OBVIOUS
<1>5. k[i] = IF i = 0 THEN <<>> ELSE IF t[i] \in S THEN Append(k[i - 1], t[i]) ELSE k[i - 1]
  BY <1>4, KeptByAt
<1>3. i # 0 => h[i - 1] = k[i - 1]
  BY <1>1
<1> QED
  BY <1>2, <1>3, <1>5 DEF Agree

(* The loop over no lines keeps nothing.                                   *)
LEMMA KeptEmpty ==
    ASSUME NEW S PROVE Kept(<<>>, S) = <<>>
<1>1. PICK k : KeptBy(k, <<>>, S, 0) /\ Kept(<<>>, S) = k[0]
  <2>1. <<>> \in Seq({}) /\ Len(<<>>) = 0
    OBVIOUS
  <2> QED
    BY <2>1, KeptIs
<1>2. k[0] = <<>>
  BY <1>1, KeptByAt
<1> QED
  BY <1>1, <1>2

(* One more line, in terms of the lines before it.                         *)
LEMMA KeptNext ==
    ASSUME NEW X, NEW s \in Seq(X), NEW t \in Seq(X), NEW S, NEW n \in Nat, NEW m \in Nat,
           m = n + 1, Len(s) = n, Len(t) = m, Agree(s, t, n)
    PROVE  Kept(t, S) = IF t[m] \in S THEN Append(Kept(s, S), t[m]) ELSE Kept(s, S)
<1>1. PICK h : KeptBy(h, s, S, n) /\ Kept(s, S) = h[n]
  BY KeptIs
<1>2. PICK k : KeptBy(k, t, S, m) /\ Kept(t, S) = k[m]
  BY KeptIs
<1>3. n <= m /\ m # 0 /\ m - 1 = n /\ n \in 0 .. n /\ m \in 0 .. m
  OBVIOUS
<1>4. \A i \in 0 .. n : h[i] = k[i]
  <2>1. n <= m /\ KeptBy(h, s, S, n) /\ Agree(s, t, n)
    BY <1>1, <1>3
  <2>2. KeptBy(k, t, S, m)
    BY <1>2
  <2> QED
    BY <2>1, <2>2, KeptByAgree
<1>5. k[m] = IF m = 0 THEN <<>> ELSE IF t[m] \in S THEN Append(k[m - 1], t[m]) ELSE k[m - 1]
  BY <1>2, <1>3, KeptByAt
<1> QED
  BY <1>1, <1>2, <1>3, <1>4, <1>5

(* One more line is kept if it is in S.                                    *)
LEMMA KeptAppend ==
    ASSUME NEW X, NEW s \in Seq(X), NEW x \in X, NEW S
    PROVE  Kept(Append(s, x), S) = IF x \in S THEN Append(Kept(s, S), x) ELSE Kept(s, S)
<1>1. PICK t, n, m : t = Append(s, x) /\ n = Len(s) /\ m = n + 1
  OBVIOUS
<1>2. /\ t \in Seq(X) /\ n \in Nat /\ m \in Nat /\ Len(t) = m
      /\ m = n + 1 /\ Len(s) = n /\ t[m] = x /\ Agree(s, t, n)
  BY <1>1, AppendProperties DEF Agree
<1>3. Kept(t, S) = IF t[m] \in S THEN Append(Kept(s, S), t[m]) ELSE Kept(s, S)
  BY <1>2, KeptNext
<1> QED
  BY <1>1, <1>2, <1>3

(* Induction over sequences, for a set G in place of a predicate.          *)
LEMMA SeqInduction ==
    ASSUME NEW X, NEW G, <<>> \in G, \A s \in G, x \in X : s \in Seq(X) => Append(s, x) \in G
    PROVE  Seq(X) \subseteq G
<1> DEFINE T == {n \in Nat : \E s \in Seq(X) : Len(s) = n /\ s \notin G}
<1> SUFFICES ASSUME T # {} PROVE FALSE
  OBVIOUS
<1>1. PICK n \in T : \A m \in T : n <= m
  BY Least
<1>2. PICK s \in Seq(X) : Len(s) = n /\ s \notin G
  OBVIOUS
<1>3. PICK r \in Seq(X), x \in X : s = Append(r, x)
  BY <1>2, SequenceEmptyOrAppend
<1>4. Len(s) = Len(r) + 1 /\ Len(r) \in Nat
  BY <1>3, AppendProperties
<1> QED
  BY <1>1, <1>2, <1>3, <1>4

(* The elements of a sequence with one more.                               *)
LEMMA RangeAppend ==
    ASSUME NEW X, NEW s \in Seq(X), NEW x \in X
    PROVE  Append(s, x) \in Seq(X) /\ Range(Append(s, x)) = Range(s) \cup {x}
<1>1. Append(s, x) \in Seq(X) /\ Append(s, x) = s \o <<x>> /\ <<x>> \in Seq(X)
  BY AppendIsConcat
<1>2. PICK t \in Seq(X) : t = <<x>>
  BY <1>1
<1>3. Range(s \o t) = Range(s) \cup Range(t)
  BY RangeConcatenation
<1>4. Range(t) = {x}
  BY <1>2 DEF Range
<1> QED
  BY <1>1, <1>2, <1>3, <1>4

(* Appending to the second of two sequences appends to both.               *)
LEMMA ConcatAppend ==
    ASSUME NEW X, NEW s \in Seq(X), NEW t \in Seq(X), NEW x \in X
    PROVE  s \o Append(t, x) = Append(s \o t, x)
<1>1. <<x>> \in Seq(X) /\ s \o t \in Seq(X)
  OBVIOUS
<1>2. Append(t, x) = t \o <<x>> /\ Append(s \o t, x) = (s \o t) \o <<x>>
  BY <1>1, AppendIsConcat
<1>3. (s \o t) \o <<x>> = s \o (t \o <<x>>)
  BY <1>1, ConcatAssociative
<1> QED
  BY <1>1, <1>2, <1>3

(* What is kept of s are its elements in S.                                *)
LEMMA KeptRange ==
    ASSUME NEW X, NEW s \in Seq(X), NEW S
    PROVE  Kept(s, S) \in Seq(X) /\ Range(Kept(s, S)) = Range(s) \cap S
<1> DEFINE G == {r \in Seq(X) : Kept(r, S) \in Seq(X) /\ Range(Kept(r, S)) = Range(r) \cap S}
<1>1. <<>> \in G
  <2>1. Range(<<>>) = {}
    BY DEF Range
  <2>2. Kept(<<>>, S) = <<>> /\ <<>> \in Seq(X)
    BY KeptEmpty
  <2>3. Kept(<<>>, S) \in Seq(X) /\ Range(Kept(<<>>, S)) = Range(<<>>) \cap S
    BY <2>1, <2>2
  <2> QED
    BY <2>2, <2>3
<1>2. ASSUME NEW r \in G, NEW x \in X PROVE Append(r, x) \in G
  <2>1. Append(r, x) \in Seq(X) /\ Range(Append(r, x)) = Range(r) \cup {x}
    BY RangeAppend
  <2>2. CASE x \in S
    <3>1. Kept(Append(r, x), S) = Append(Kept(r, S), x)
      BY <2>2, KeptAppend
    <3>2. Kept(r, S) \in Seq(X) /\ Range(Kept(r, S)) = Range(r) \cap S
      OBVIOUS
    <3>3. Append(Kept(r, S), x) \in Seq(X) /\ Range(Append(Kept(r, S), x)) = Range(Kept(r, S)) \cup {x}
      BY <3>2, RangeAppend
    <3> QED
      BY <2>1, <2>2, <3>1, <3>2, <3>3
  <2>3. CASE x \notin S
    <3>1. Kept(Append(r, x), S) = Kept(r, S)
      BY <2>3, KeptAppend
    <3> QED
      BY <2>1, <2>3, <3>1
  <2> QED
    BY <2>2, <2>3
<1> HIDE DEF G
<1>3. Seq(X) \subseteq G
  BY <1>1, <1>2, SeqInduction
<1> QED
  BY <1>3 DEF G

(* Sets with the same members among the elements keep the same.            *)
LEMMA KeptSame ==
    ASSUME NEW X, NEW s \in Seq(X), NEW S, NEW T, X \cap S = X \cap T
    PROVE  Kept(s, S) = Kept(s, T)
<1> DEFINE G == {r \in Seq(X) : Kept(r, S) = Kept(r, T)}
<1>1. <<>> \in G
  BY KeptEmpty
<1>2. ASSUME NEW r \in G, NEW x \in X PROVE Append(r, x) \in G
  <2>1. x \in S <=> x \in T
    OBVIOUS
  <2>2. Kept(Append(r, x), S) = IF x \in S THEN Append(Kept(r, S), x) ELSE Kept(r, S)
    BY KeptAppend
  <2>3. Kept(Append(r, x), T) = IF x \in T THEN Append(Kept(r, T), x) ELSE Kept(r, T)
    BY KeptAppend
  <2>4. Append(r, x) \in Seq(X) /\ Kept(r, S) = Kept(r, T)
    OBVIOUS
  <2> QED
    BY <2>1, <2>2, <2>3, <2>4
<1> HIDE DEF G
<1>3. Seq(X) \subseteq G
  BY <1>1, <1>2, SeqInduction
<1> QED
  BY <1>3 DEF G

(* A set with all the elements keeps everything.                           *)
LEMMA KeptAll ==
    ASSUME NEW X, NEW s \in Seq(X), NEW S, X \subseteq S
    PROVE  Kept(s, S) = s
<1> DEFINE G == {r \in Seq(X) : Kept(r, S) = r}
<1>1. <<>> \in G
  BY KeptEmpty
<1>2. ASSUME NEW r \in G, NEW x \in X PROVE Append(r, x) \in G
  <2>1. Kept(Append(r, x), S) = IF x \in S THEN Append(Kept(r, S), x) ELSE Kept(r, S)
    BY KeptAppend
  <2> QED
    BY <2>1
<1> HIDE DEF G
<1>3. Seq(X) \subseteq G
  BY <1>1, <1>2, SeqInduction
<1> QED
  BY <1>3 DEF G

(* A set with none of the elements keeps nothing.                          *)
LEMMA KeptNone ==
    ASSUME NEW X, NEW s \in Seq(X), NEW S, X \cap S = {}
    PROVE  Kept(s, S) = <<>>
<1> DEFINE G == {r \in Seq(X) : Kept(r, S) = <<>>}
<1>1. <<>> \in G
  BY KeptEmpty
<1>2. ASSUME NEW r \in G, NEW x \in X PROVE Append(r, x) \in G
  <2>1. Kept(Append(r, x), S) = IF x \in S THEN Append(Kept(r, S), x) ELSE Kept(r, S)
    BY KeptAppend
  <2> QED
    BY <2>1
<1> HIDE DEF G
<1>3. Seq(X) \subseteq G
  BY <1>1, <1>2, SeqInduction
<1> QED
  BY <1>3 DEF G

(* What is kept of two lists of lines, one after the other.                *)
LEMMA KeptConcat ==
    ASSUME NEW X, NEW s \in Seq(X), NEW t \in Seq(X), NEW S
    PROVE  Kept(s \o t, S) = Kept(s, S) \o Kept(t, S)
<1> DEFINE G == {r \in Seq(X) : Kept(s \o r, S) = Kept(s, S) \o Kept(r, S)}
<1>1. <<>> \in G
  <2>1. Kept(s, S) \in Seq(X) /\ <<>> \in Seq(X)
    BY KeptRange
  <2> QED
    BY <2>1, KeptEmpty, ConcatEmptySeq
<1>2. ASSUME NEW r \in G, NEW x \in X PROVE Append(r, x) \in G
  <2>1. /\ s \o Append(r, x) = Append(s \o r, x)
        /\ s \o r \in Seq(X) /\ Append(r, x) \in Seq(X) /\ r \in Seq(X)
    BY ConcatAppend
  <2>2. Kept(s \o Append(r, x), S) = IF x \in S THEN Append(Kept(s \o r, S), x) ELSE Kept(s \o r, S)
    <3>1. PICK u : u = s \o r
      OBVIOUS
    <3>2. u \in Seq(X) /\ s \o Append(r, x) = Append(u, x)
      BY <2>1, <3>1
    <3>3. Kept(Append(u, x), S) = IF x \in S THEN Append(Kept(u, S), x) ELSE Kept(u, S)
      BY <3>2, KeptAppend
    <3> QED
      BY <3>1, <3>2, <3>3
  <2>3. Kept(Append(r, x), S) = IF x \in S THEN Append(Kept(r, S), x) ELSE Kept(r, S)
    BY KeptAppend
  <2>4. Kept(s \o r, S) = Kept(s, S) \o Kept(r, S)
    OBVIOUS
  <2>5. Kept(s, S) \in Seq(X) /\ Kept(r, S) \in Seq(X)
    BY KeptRange
  <2>6. Append(Kept(s, S) \o Kept(r, S), x) = Kept(s, S) \o Append(Kept(r, S), x)
    <3>1. PICK u, v : u = Kept(s, S) /\ v = Kept(r, S)
      OBVIOUS
    <3>2. u \in Seq(X) /\ v \in Seq(X)
      BY <2>5, <3>1
    <3>3. u \o Append(v, x) = Append(u \o v, x)
      BY <3>2, ConcatAppend
    <3> QED
      BY <3>1, <3>3
  <2> QED
    BY <2>1, <2>2, <2>3, <2>4, <2>6
<1> HIDE DEF G
<1>3. Seq(X) \subseteq G
  BY <1>1, <1>2, SeqInduction
<1> QED
  BY <1>3 DEF G

(* The places of s with an element in S.                                   *)
Places(s, S) == {i \in 1 .. Len(s) : s[i] \in S}

(* As many lines are kept as there are places with lines to keep.          *)
LEMMA KeptCount ==
    ASSUME NEW X, NEW s \in Seq(X), NEW S
    PROVE  Len(Kept(s, S)) = Cardinality(Places(s, S))
<1> DEFINE G == {r \in Seq(X) : Len(Kept(r, S)) = Cardinality(Places(r, S)) /\ IsFiniteSet(Places(r, S))}
<1>1. <<>> \in G
  <2>1. Places(<<>>, S) = {}
    BY DEF Places
  <2>2. Kept(<<>>, S) = <<>> /\ <<>> \in Seq(X) /\ Len(<<>>) = 0
    BY KeptEmpty
  <2>3. Cardinality({}) = 0 /\ IsFiniteSet({})
    BY FS_EmptySet
  <2>4. Len(Kept(<<>>, S)) = Cardinality(Places(<<>>, S)) /\ IsFiniteSet(Places(<<>>, S))
    BY <2>1, <2>2, <2>3
  <2> QED
    BY <2>2, <2>4
<1>2. ASSUME NEW r \in G, NEW x \in X PROVE Append(r, x) \in G
  <2>1. /\ Append(r, x) \in Seq(X) /\ Kept(r, S) \in Seq(X) /\ Len(r) \in Nat
        /\ Len(Kept(r, S)) = Cardinality(Places(r, S)) /\ IsFiniteSet(Places(r, S))
    BY KeptRange
  <2>2. Places(Append(r, x), S) = IF x \in S THEN Places(r, S) \cup {Len(r) + 1} ELSE Places(r, S)
    <3>1. PICK t, n : t = Append(r, x) /\ n = Len(r)
      OBVIOUS
    <3>2. n \in Nat /\ Len(t) = n + 1 /\ t[n + 1] = x /\ \A i \in 1 .. n : t[i] = r[i]
      BY <2>1, <3>1, AppendProperties
    <3>3. Places(t, S) = IF x \in S THEN Places(r, S) \cup {n + 1} ELSE Places(r, S)
      <4>1. 1 .. n + 1 = (1 .. n) \cup {n + 1} /\ Len(r) = n
        BY <3>1, <3>2
      <4> QED
        BY <3>2, <4>1 DEF Places
    <3> QED
      BY <3>1, <3>3
  <2>3. Len(r) + 1 \notin Places(r, S)
    BY <2>1 DEF Places
  <2>4. Kept(Append(r, x), S) = IF x \in S THEN Append(Kept(r, S), x) ELSE Kept(r, S)
    BY KeptAppend
  <2>5. CASE x \in S
    <3>1. /\ IsFiniteSet(Places(r, S) \cup {Len(r) + 1})
          /\ Cardinality(Places(r, S) \cup {Len(r) + 1}) = Cardinality(Places(r, S)) + 1
      BY <2>1, <2>3, FS_AddElement
    <3>2. Len(Append(Kept(r, S), x)) = Len(Kept(r, S)) + 1
      BY <2>1, AppendProperties
    <3> QED
      BY <2>1, <2>2, <2>4, <2>5, <3>1, <3>2
  <2>6. CASE x \notin S
    BY <2>1, <2>2, <2>4, <2>6
  <2> QED
    BY <2>5, <2>6
<1> HIDE DEF G
<1>3. Seq(X) \subseteq G
  BY <1>1, <1>2, SeqInduction
<1> QED
  BY <1>3 DEF G

(* A sequence is one over its own elements.                                *)
LEMMA SeqOver ==
    ASSUME NEW X, NEW s \in Seq(X), NEW Y
    PROVE  /\ Range(s) \subseteq X /\ s \in Seq(Range(s))
           /\ Range(s) \subseteq Y => s \in Seq(Y)
<1>1. Len(s) \in Nat /\ DOMAIN s = 1 .. Len(s) /\ s \in [1 .. Len(s) -> X]
  BY LenProperties
<1>2. Range(s) \subseteq X
  BY <1>1 DEF Range
<1>3. ASSUME Range(s) \subseteq Y PROVE s \in Seq(Y)
  <2>1. s \in [1 .. Len(s) -> Y]
    BY <1>1, <1>3 DEF Range
  <2> QED
    BY <1>1, <2>1, SeqDef
<1>4. s \in Seq(Range(s))
  <2>1. s \in [1 .. Len(s) -> Range(s)]
    BY <1>1 DEF Range
  <2> QED
    BY <1>1, <2>1, SeqDef
<1> QED
  BY <1>2, <1>3, <1>4

(* c is a, of n elements, followed by b, of m.                             *)
Joined(c, a, b, n, m) ==
    /\ Len(c) = n + m
    /\ \A j \in 1 .. n + m : c[j] = IF j <= n THEN a[j] ELSE b[j - n]

(* The elements of a sequence put together.                                *)
LEMMA ConcatAt ==
    ASSUME NEW X, NEW a \in Seq(X), NEW b \in Seq(X),
           NEW n \in Nat, NEW m \in Nat, Len(a) = n, Len(b) = m
    PROVE  a \o b \in Seq(X) /\ Joined(a \o b, a, b, n, m)
<1>1. PICK c : c = a \o b
  OBVIOUS
<1>2. /\ c \in Seq(X) /\ Len(c) = Len(a) + Len(b)
      /\ \A j \in 1 .. Len(a) + Len(b) : c[j] = IF j <= Len(a) THEN a[j] ELSE b[j - Len(a)]
  BY <1>1, ConcatProperties
<1> QED
  BY <1>1, <1>2 DEF Joined

(* a and b are the parts of s before and after its element i.              *)
Parted(s, i, a, b) ==
    /\ Len(a) = i - 1 /\ \A j \in 1 .. i - 1 : a[j] = s[j]
    /\ s = Append(a, s[i]) \o b /\ RemoveAt(s, i) = a \o b

(* RemoveAt takes one element out, and moves the later ones up.            *)
LEMMA RemoveAtParts ==
    ASSUME NEW X, NEW s \in Seq(X), NEW i \in 1 .. Len(s)
    PROVE  /\ RemoveAt(s, i) \in Seq(X) /\ Len(RemoveAt(s, i)) = Len(s) - 1
           /\ \A j \in 1 .. Len(s) - 1 : RemoveAt(s, i)[j] = IF j < i THEN s[j] ELSE s[j + 1]
           /\ \E a, b \in Seq(X) : Parted(s, i, a, b)
<1>1. PICK n : n = Len(s)
  OBVIOUS
<1>2. n \in Nat /\ i \in 1 .. n /\ Len(s) = n /\ \A j \in 1 .. n : s[j] \in X
  BY <1>1, LenProperties, ElementOfSeq
<1>3. PICK a, b : a = SubSeq(s, 1, i - 1) /\ b = SubSeq(s, i + 1, n)
  OBVIOUS
<1>4. a \in Seq(X) /\ Len(a) = i - 1 /\ \A j \in 1 .. i - 1 : a[j] = s[j]
  BY <1>2, <1>3
<1>5. b \in Seq(X) /\ Len(b) = n - i /\ \A j \in 1 .. n - i : b[j] = s[i + j]
  BY <1>2, <1>3
<1>6. PICK r, c : r = a \o b /\ c = Append(a, s[i])
  OBVIOUS
<1>7. RemoveAt(s, i) = r
  BY <1>1, <1>3, <1>6 DEF RemoveAt
<1>8. PICK p \in Nat, q \in Nat : p = i - 1 /\ q = n - i
  BY <1>2
<1>9. c \in Seq(X) /\ Len(c) = i /\ \A j \in 1 .. i : c[j] = s[j]
  BY <1>2, <1>4, <1>6, AppendProperties
<1>10. r \in Seq(X) /\ Len(r) = n - 1 /\ \A j \in 1 .. n - 1 : r[j] = IF j < i THEN s[j] ELSE s[j + 1]
  <2>1. r \in Seq(X) /\ Len(r) = p + q /\ \A j \in 1 .. p + q : r[j] = IF j <= p THEN a[j] ELSE b[j - p]
    <3>1. Len(a) = p /\ Len(b) = q /\ a \in Seq(X) /\ b \in Seq(X)
      BY <1>4, <1>5, <1>8
    <3>2. a \o b \in Seq(X) /\ Joined(a \o b, a, b, p, q)
      BY <3>1, ConcatAt
    <3> QED
      BY <1>6, <3>2 DEF Joined
  <2>2. p + q = n - 1
    BY <1>2, <1>8
  <2> SUFFICES ASSUME NEW j \in 1 .. n - 1 PROVE r[j] = IF j < i THEN s[j] ELSE s[j + 1]
    BY <2>1, <2>2
  <2>3. r[j] = IF j <= p THEN a[j] ELSE b[j - p]
    BY <2>1, <2>2
  <2>4. CASE j < i
    <3>1. j <= p /\ j \in 1 .. i - 1
      BY <1>2, <1>8, <2>4
    <3> QED
      BY <1>4, <2>3, <2>4, <3>1
  <2>5. CASE ~(j < i)
    <3>1. ~(j <= p) /\ j - p \in 1 .. n - i /\ i + (j - p) = j + 1
      BY <1>2, <1>8, <2>5
    <3> QED
      BY <1>5, <2>3, <2>5, <3>1
  <2> QED
    BY <2>4, <2>5
<1>11. s = c \o b
  <2>1. PICK t : t = c \o b
    OBVIOUS
  <2>2. t \in Seq(X) /\ Len(t) = i + q /\ \A j \in 1 .. i + q : t[j] = IF j <= i THEN c[j] ELSE b[j - i]
    <3>1. Len(c) = i /\ Len(b) = q /\ c \in Seq(X) /\ b \in Seq(X) /\ i \in Nat
      BY <1>2, <1>5, <1>8, <1>9
    <3>2. c \o b \in Seq(X) /\ Joined(c \o b, c, b, i, q)
      BY <3>1, ConcatAt
    <3> QED
      BY <2>1, <3>2 DEF Joined
  <2>3. i + q = n
    BY <1>2, <1>8
  <2>4. ASSUME NEW j \in 1 .. n PROVE s[j] = t[j]
    <3>1. t[j] = IF j <= i THEN c[j] ELSE b[j - i]
      BY <2>2, <2>3
    <3>2. CASE j <= i
      <4>1. j \in 1 .. i
        BY <1>2, <3>2
      <4> QED
        BY <1>9, <3>1, <3>2, <4>1
    <3>3. CASE ~(j <= i)
      <4>1. j - i \in 1 .. n - i /\ i + (j - i) = j
        BY <1>2, <3>3
      <4> QED
        BY <1>5, <3>1, <3>3, <4>1
    <3> QED
      BY <3>2, <3>3
  <2>5. s = t
    BY <1>2, <2>2, <2>3, <2>4, SeqEqual
  <2> QED
    BY <2>1, <2>5
<1>12. Parted(s, i, a, b)
  BY <1>4, <1>6, <1>7, <1>11 DEF Parted
<1> QED
  BY <1>1, <1>4, <1>5, <1>7, <1>10, <1>12

(* x is between a and b, and can be taken out of there.                    *)
Middle(a, x, b) ==
    /\ Len(a) + 1 \in 1 .. Len(Append(a, x) \o b)
    /\ RemoveAt(Append(a, x) \o b, Len(a) + 1) = a \o b

(* What RemoveAt leaves of a sequence that is taken apart.                 *)
LEMMA RemoveMiddle ==
    ASSUME NEW X, NEW a \in Seq(X), NEW b \in Seq(X), NEW x \in X
    PROVE  Middle(a, x, b)
<1>1. PICK c, n, m : c = Append(a, x) /\ n = Len(a) /\ m = Len(b)
  OBVIOUS
<1>2. /\ c \in Seq(X) /\ n \in Nat /\ m \in Nat /\ Len(a) = n /\ Len(b) = m
      /\ Len(c) = n + 1 /\ \A j \in 1 .. n : c[j] = a[j]
  BY <1>1, LenProperties, AppendProperties
<1>3. PICK s : s = c \o b
  OBVIOUS
<1>4. /\ s \in Seq(X) /\ Len(s) = n + 1 + m
      /\ \A j \in 1 .. n + 1 + m : s[j] = IF j <= n + 1 THEN c[j] ELSE b[j - (n + 1)]
  <2>1. PICK k \in Nat : k = n + 1
    BY <1>2
  <2>2. s \in Seq(X) /\ Len(s) = k + m /\ \A j \in 1 .. k + m : s[j] = IF j <= k THEN c[j] ELSE b[j - k]
    <3>1. c \in Seq(X) /\ Len(c) = k /\ Len(b) = m
      BY <1>2, <2>1
    <3>2. c \o b \in Seq(X) /\ Joined(c \o b, c, b, k, m)
      BY <1>2, <3>1, ConcatAt
    <3> QED
      BY <1>3, <3>2 DEF Joined
  <2> QED
    BY <2>1, <2>2
<1>5. /\ a \o b \in Seq(X) /\ Len(a \o b) = n + m
      /\ \A j \in 1 .. n + m : (a \o b)[j] = IF j <= n THEN a[j] ELSE b[j - n]
  <2>1. a \o b \in Seq(X) /\ Joined(a \o b, a, b, n, m)
    BY <1>2, ConcatAt
  <2> QED
    BY <2>1 DEF Joined
<1>6. n + 1 \in 1 .. Len(s)
  BY <1>2, <1>4
<1>7. /\ RemoveAt(s, n + 1) \in Seq(X) /\ Len(RemoveAt(s, n + 1)) = n + m
      /\ \A j \in 1 .. n + m : RemoveAt(s, n + 1)[j] = IF j < n + 1 THEN s[j] ELSE s[j + 1]
  <2>1. Len(s) - 1 = n + m
    BY <1>2, <1>4
  <2> QED
    BY <1>4, <1>6, <2>1, RemoveAtParts
<1>8. ASSUME NEW j \in 1 .. n + m PROVE RemoveAt(s, n + 1)[j] = (a \o b)[j]
  <2>1. CASE j <= n
    BY <1>2, <1>4, <1>5, <1>7, <2>1
  <2>2. CASE j > n
    <3>1. ~(j < n + 1) /\ ~(j <= n) /\ ~(j + 1 <= n + 1) /\ (j + 1) - (n + 1) = j - n /\ j + 1 \in 1 .. n + 1 + m
      BY <1>2, <2>2
    <3> QED
      BY <1>4, <1>5, <1>7, <3>1
  <2> QED
    BY <1>2, <2>1, <2>2
<1>9. RemoveAt(s, n + 1) = a \o b
  BY <1>5, <1>7, <1>8, SeqEqual
<1> QED
  BY <1>1, <1>3, <1>6, <1>9 DEF Middle

(* What is kept of a sequence with an element in the middle, and without   *)
(* it.                                                                     *)
LEMMA KeptMiddle ==
    ASSUME NEW X, NEW a \in Seq(X), NEW b \in Seq(X), NEW x \in X, NEW S
    PROVE  /\ Kept(a \o b, S) = Kept(a, S) \o Kept(b, S)
           /\ Kept(Append(a, x) \o b, S)
                  = (IF x \in S THEN Append(Kept(a, S), x) ELSE Kept(a, S)) \o Kept(b, S)
           /\ Middle(Kept(a, S), x, Kept(b, S))
<1>1. Kept(a \o b, S) = Kept(a, S) \o Kept(b, S)
  BY KeptConcat
<1>2. Append(a, x) \in Seq(X)
  BY AppendProperties
<1>3. Kept(Append(a, x) \o b, S) = Kept(Append(a, x), S) \o Kept(b, S)
  <2>1. \A e \in Seq(X) : Kept(e \o b, S) = Kept(e, S) \o Kept(b, S)
    BY KeptConcat
  <2> QED
    BY <1>2, <2>1, Zenon
<1>4. Kept(Append(a, x), S) = IF x \in S THEN Append(Kept(a, S), x) ELSE Kept(a, S)
  BY KeptAppend
<1>5. Kept(a, S) \in Seq(X) /\ Kept(b, S) \in Seq(X)
  BY KeptRange
<1>6. Middle(Kept(a, S), x, Kept(b, S))
  BY <1>5, RemoveMiddle
<1> QED
  BY <1>1, <1>3, <1>4, <1>6, Zenon

(* Removing an element of a sequence removes the corresponding one of what *)
(* is kept of it, or nothing.                                              *)
LEMMA KeptRemove ==
    ASSUME NEW X, NEW s \in Seq(X), NEW S, NEW i \in 1 .. Len(s),
           NEW n, n = Cardinality({j \in 1 .. i : s[j] \in S})
    PROVE  /\ s[i] \notin S => Kept(RemoveAt(s, i), S) = Kept(s, S)
           /\ s[i] \in S => /\ n \in 1 .. Len(Kept(s, S))
                            /\ Kept(RemoveAt(s, i), S) = RemoveAt(Kept(s, S), n)
<1>0. PICK a \in Seq(X), b \in Seq(X) : Parted(s, i, a, b)
  BY RemoveAtParts
<1>1. /\ Len(a) = i - 1 /\ \A j \in 1 .. i - 1 : a[j] = s[j]
      /\ s = Append(a, s[i]) \o b /\ RemoveAt(s, i) = a \o b
  BY <1>0 DEF Parted
<1>2. PICK x : x = s[i]
  OBVIOUS
<1>3. x \in X
  BY <1>2, ElementOfSeq
<1>4. PICK u, v : u = Kept(a, S) /\ v = Kept(b, S)
  OBVIOUS
<1>5. /\ Kept(a \o b, S) = u \o v
      /\ Kept(Append(a, x) \o b, S) = (IF x \in S THEN Append(u, x) ELSE u) \o v
      /\ Middle(u, x, v)
  <2>1. /\ Kept(a \o b, S) = Kept(a, S) \o Kept(b, S)
        /\ Kept(Append(a, x) \o b, S)
               = (IF x \in S THEN Append(Kept(a, S), x) ELSE Kept(a, S)) \o Kept(b, S)
        /\ Middle(Kept(a, S), x, Kept(b, S))
    BY <1>3, KeptMiddle
  <2> QED
    BY <1>4, <2>1, Zenon
<1>6. Kept(RemoveAt(s, i), S) = u \o v /\ Kept(s, S) = (IF x \in S THEN Append(u, x) ELSE u) \o v
  BY <1>1, <1>2, <1>5
<1>7. ASSUME x \in S PROVE n = Len(u) + 1
  <2>1. Len(u) = Cardinality(Places(a, S))
    BY <1>4, KeptCount
  <2>2. {j \in 1 .. i : s[j] \in S} = Places(a, S) \cup {i}
    <3>1. 1 .. i = (1 .. i - 1) \cup {i}
      OBVIOUS
    <3> QED
      BY <1>1, <1>2, <1>7, <3>1 DEF Places
  <2>3. i \notin Places(a, S) /\ Places(a, S) \subseteq 1 .. i - 1
    BY <1>1 DEF Places
  <2>4. IsFiniteSet(Places(a, S))
    <3>1. IsFiniteSet(1 .. i - 1)
      BY FS_Interval
    <3> QED
      BY <2>3, <3>1, FS_Subset
  <2>5. Cardinality(Places(a, S) \cup {i}) = IF i \in Places(a, S) THEN Cardinality(Places(a, S))
                                             ELSE Cardinality(Places(a, S)) + 1
    BY <2>4, FS_AddElement, Zenon
  <2> QED
    BY <2>1, <2>2, <2>3, <2>5
<1>8. ASSUME x \in S PROVE n \in 1 .. Len(Kept(s, S)) /\ u \o v = RemoveAt(Kept(s, S), n)
  BY <1>5, <1>6, <1>7, <1>8 DEF Middle
<1> QED
  BY <1>2, <1>6, <1>8

(* RemoveAt takes an element that occurs once out of a sequence's range.   *)
LEMMA RemoveRange ==
    ASSUME NEW X, NEW s \in Seq(X), NEW i \in 1 .. Len(s),
           \A j \in 1 .. Len(s) : s[j] = s[i] => j = i
    PROVE  Range(RemoveAt(s, i)) = Range(s) \ {s[i]}
<1>1. Len(s) \in Nat /\ DOMAIN s = 1 .. Len(s)
  BY LenProperties
<1>2. PICK r : r = RemoveAt(s, i)
  OBVIOUS
<1>3. /\ r \in Seq(X) /\ Len(r) = Len(s) - 1
      /\ \A j \in 1 .. Len(s) - 1 : r[j] = IF j < i THEN s[j] ELSE s[j + 1]
  BY <1>2, RemoveAtParts
<1>4. DOMAIN r = 1 .. Len(s) - 1
  BY <1>3, LenProperties
<1>5. ASSUME NEW y \in Range(r) PROVE y \in Range(s) \ {s[i]}
  <2>1. PICK j \in 1 .. Len(s) - 1 : y = r[j]
    BY <1>4 DEF Range
  <2>2. PICK k \in 1 .. Len(s) : k # i /\ y = s[k]
    <3>1. CASE j < i
      BY <1>1, <1>3, <2>1, <3>1
    <3>2. CASE ~(j < i)
      <4>1. j + 1 \in 1 .. Len(s) /\ j + 1 # i
        BY <1>1, <3>2
      <4> QED
        BY <1>3, <2>1, <3>2, <4>1
    <3> QED
      BY <3>1, <3>2
  <2> QED
    BY <1>1, <2>2 DEF Range
<1>6. ASSUME NEW y \in Range(s), y # s[i] PROVE y \in Range(r)
  <2>1. PICK k \in 1 .. Len(s) : y = s[k]
    BY <1>1 DEF Range
  <2>2. PICK j \in 1 .. Len(s) - 1 : y = r[j]
    <3>1. CASE k < i
      BY <1>1, <1>3, <2>1, <3>1
    <3>2. CASE k > i
      <4>1. k - 1 \in 1 .. Len(s) - 1 /\ ~(k - 1 < i) /\ (k - 1) + 1 = k
        BY <1>1, <3>2
      <4>2. r[k - 1] = s[k]
        BY <1>3, <4>1
      <4> QED
        BY <2>1, <4>1, <4>2
    <3> QED
      BY <1>1, <1>6, <2>1, <3>1, <3>2
  <2> QED
    BY <1>4, <2>2 DEF Range
<1> QED
  BY <1>2, <1>5, <1>6

(* ScriptSetJVMMemoryArgs leaves the arguments and the two memory settings *)
(* of the configuration in the file.                                       *)
LEMMA WithMemoryIs ==
    ASSUME NEW f \in Seq(AnyLine), NEW c, c.ms \in STRING, c.mx \in STRING
    PROVE  /\ WithMemory(f, c) \in Seq(AnyLine)
           /\ Range(WithMemory(f, c)) = OfKind(f, "arg") \cup {Line("xms", c.ms), Line("xmx", c.mx)}
<1> DEFINE set == [i \in DOMAIN f |-> CASE f[i].k = "xms" -> Line("xms", c.ms)
                                        [] f[i].k = "xmx" -> Line("xmx", c.mx)
                                        [] OTHER          -> f[i]]
           lack(k, v) == IF \E i \in DOMAIN f : f[i].k = k THEN <<>> ELSE <<Line(k, v)>>
           ms == Line("xms", c.ms)
           mx == Line("xmx", c.mx)
           no(k) == ~ \E i \in DOMAIN f : f[i].k = k
<1>1. Len(f) \in Nat /\ DOMAIN f = 1 .. Len(f) /\ \A i \in DOMAIN f : f[i] \in AnyLine
  BY LenProperties, ElementOfSeq
<1>2. ms \in AnyLine /\ mx \in AnyLine /\ ms.k = "xms" /\ mx.k = "xmx"
  BY DEF Line, AnyLine
<1>3. \A i \in DOMAIN f : set[i] = IF f[i].k = "xms" THEN ms ELSE IF f[i].k = "xmx" THEN mx ELSE f[i]
  OBVIOUS
<1>4. set \in Seq(AnyLine) /\ DOMAIN set = DOMAIN f
  <2>1. set \in [1 .. Len(f) -> AnyLine]
    BY <1>1, <1>2, <1>3
  <2> QED
    BY <1>1, <2>1, SeqDef
<1>5. Range(set) = OfKind(f, "arg") \cup (IF no("xms") THEN {} ELSE {ms}) \cup (IF no("xmx") THEN {} ELSE {mx})
  <2> HIDE DEF set, ms, mx
  <2>1. \A i \in DOMAIN f : f[i].k \in {"arg", "xms", "xmx"}
    BY <1>1 DEF AnyLine
  <2>2. ASSUME NEW y \in Range(set)
        PROVE  y \in OfKind(f, "arg") \cup (IF no("xms") THEN {} ELSE {ms}) \cup (IF no("xmx") THEN {} ELSE {mx})
    <3>1. PICK i \in DOMAIN f : y = set[i]
      BY <1>4 DEF Range
    <3> QED
      BY <1>3, <2>1, <3>1 DEF OfKind, Range
  <2>3. ASSUME NEW y \in OfKind(f, "arg") PROVE y \in Range(set)
    <3>1. PICK i \in DOMAIN f : y = f[i] /\ f[i].k = "arg"
      BY DEF OfKind, Range
    <3> QED
      BY <1>3, <1>4, <3>1 DEF Range
  <2>4. ASSUME ~no("xms") PROVE ms \in Range(set)
    BY <1>3, <1>4, <2>4 DEF Range
  <2>5. ASSUME ~no("xmx") PROVE mx \in Range(set)
    BY <1>3, <1>4, <2>5 DEF Range
  <2> QED
    BY <2>2, <2>3, <2>4, <2>5
<1>6. /\ lack("xms", c.ms) \in Seq(AnyLine) /\ lack("xmx", c.mx) \in Seq(AnyLine)
      /\ Range(lack("xms", c.ms)) = IF no("xms") THEN {ms} ELSE {}
      /\ Range(lack("xmx", c.mx)) = IF no("xmx") THEN {mx} ELSE {}
  <2>1. Range(<<>>) = {} /\ <<>> \in Seq(AnyLine)
    BY DEF Range
  <2>2. Range(<<ms>>) = {ms} /\ Range(<<mx>>) = {mx}
    BY DEF Range
  <2>3. <<ms>> \in Seq(AnyLine) /\ <<mx>> \in Seq(AnyLine)
    BY <1>2
  <2>4. lack("xms", c.ms) = IF no("xms") THEN <<ms>> ELSE <<>>
    OBVIOUS
  <2>5. lack("xmx", c.mx) = IF no("xmx") THEN <<mx>> ELSE <<>>
    OBVIOUS
  <2> QED
    BY <2>1, <2>2, <2>3, <2>4, <2>5
<1>7. WithMemory(f, c) = set \o lack("xms", c.ms) \o lack("xmx", c.mx)
  BY DEF WithMemory
<1> HIDE DEF set, lack
<1>8. set \o lack("xms", c.ms) \in Seq(AnyLine)
  BY <1>4, <1>6
<1>9. /\ Range(set \o lack("xms", c.ms)) = Range(set) \cup Range(lack("xms", c.ms))
      /\ WithMemory(f, c) \in Seq(AnyLine)
      /\ Range(WithMemory(f, c)) = Range(set \o lack("xms", c.ms)) \cup Range(lack("xmx", c.mx))
  <2>1. PICK p, q, w : p = lack("xms", c.ms) /\ q = lack("xmx", c.mx) /\ w = set \o p
    OBVIOUS
  <2>2. p \in Seq(AnyLine) /\ q \in Seq(AnyLine) /\ w \in Seq(AnyLine) /\ set \in Seq(AnyLine)
    BY <1>4, <1>6, <1>8, <2>1
  <2>3. Range(set \o p) = Range(set) \cup Range(p) /\ Range(w \o q) = Range(w) \cup Range(q)
    BY <2>2, RangeConcatenation
  <2>4. w \o q \in Seq(AnyLine)
    BY <2>2
  <2> QED
    BY <1>7, <2>1, <2>3, <2>4
<1> QED
  BY <1>5, <1>6, <1>9

-----------------------------------------------------------------------------
(* Where a command is, and what it knows there.                            *)
Working == {"install", "memory", "installed", "last", "write"}
StepInv ==
    /\ cfg = NoFile => file \in {NoFile, ImportedFile} /\ added = <<>> /\ cmd.pc \in {"idle", "save"}
    /\ cmd.pc = "save" => /\ cfg = NoFile /\ cmd.op \in {"create", "import"}
                          /\ \E t \in Types, v \in Versions : mem = Template(t, v)
                          /\ IF cmd.op = "create" THEN file = NoFile ELSE file = ImportedFile
                          /\ cmd.op = "import" /\ IsScript(mem) => ~plain
    /\ cmd.pc = "get" => file = ImportedFile /\ cmd.op = "import" /\ IsScript(cfg) /\ ~plain
    /\ cmd.pc \in {"get"} \cup Working => mem # NoFile /\ cfg # NoFile /\ mem.type = cfg.type
    /\ cmd.pc \in {"get", "install"} => cmd.op \in {"create", "import"} \cup Strict
    /\ cmd.pc \in {"get", "install"} => IF cmd.op = "download" THEN IsScript(mem) ELSE mem.version \in Versions
    /\ cmd.pc \in {"memory", "installed"} => IsScript(mem)
    /\ cmd.pc = "script" => cfg # NoFile /\ IsScript(cfg) /\ ValidateConfig(cfg)

(* The arguments of c that are no recommended flags are the user's, and    *)
(* the flags are the ones for the version of a paper server.               *)
OfUser(c) == Kept(c.args, Range(c.args) \ AllFlags) = added
Unflags(c) == Kept(c.args, AllFlags) = <<>> /\ OfUser(c)
Flagged(c) == c.version \in Versions /\ Kept(c.args, AllFlags) = Flags[c.version] /\ OfUser(c)
PaperInv ==
    plain /\ cfg # NoFile /\ cfg.type = "paper" =>
        /\ cmd.pc = "idle" => Flagged(cfg)
        /\ cmd.pc = "install" => Unflags(mem) /\ (cmd.op = "version" => Flagged(cfg))
        /\ cmd.pc \in {"last", "write"} => Flagged(mem)

(* The arguments of a server with a script: no two of them, and none and a *)
(* memory setting, are equal but for case.                                 *)
Apart(args) ==
    /\ \A i, j \in DOMAIN args : Fold[args[i]] = Fold[args[j]] => i = j
    /\ \A i \in DOMAIN args : args[i].k = "arg" /\ ~LikeMemory(args[i])
ScriptInv ==
    plain /\ cfg # NoFile /\ IsScript(cfg) =>
        /\ ValidateConfig(cfg) /\ Apart(cfg.args)
        /\ cmd.pc # "write" => OfUser(cfg) /\ (file = NoFile => cfg.args = <<>>)
        /\ cmd.pc \in {"idle", "install", "last"} => file = NoFile \/ Range(file) = Configured(cfg)
        /\ cmd.pc = "installed" => file = NoFile \/ Range(file) = Configured(cfg)
        /\ cmd.pc = "memory" => file = NoFile \/ OfKind(file, "arg") = Range(cfg.args)
        /\ cmd.pc = "script" => file = NoFile \/ OfKind(file, "arg") = Range(cfg.args)
        /\ cmd.pc \in Working => mem.ms = cfg.ms /\ mem.mx = cfg.mx
        /\ cmd.pc \in Working \ {"write"} => mem.args = cfg.args
        /\ cmd.pc = "write" => /\ Apart(mem.args) /\ OfUser(mem)
                               /\ file # NoFile /\ Range(file) = Configured(mem)

(* The inductive invariant: LaunchMatches and PaperArgs speak of a server  *)
(* between two commands, the invariant of every place within one.          *)
ArgsInv == TypeOK /\ StepInv /\ PaperInv /\ ScriptInv

(* What the assumptions say of the lines.                                  *)
LEMMA Lines ==
    /\ AllFlags \subseteq Arguments /\ UserLines \subseteq Arguments /\ Arguments \subseteq AnyLine
    /\ \A v \in Versions : Flags[v] \in Seq(Arguments) /\ Flags[v] \in Seq(AllFlags)
    /\ ImportedFile \in Seq(Arguments) /\ Range(ImportedFile) \subseteq AnyLine
<1>1. \A v \in Versions : Flags[v] \in Seq(AnyLine)
  BY FlagsOK
<1>2. \A v \in Versions : Range(Flags[v]) \subseteq AllFlags /\ Range(Flags[v]) \subseteq AnyLine
  BY <1>1, SeqOver DEF AllFlags
<1>3. AllFlags \subseteq AnyLine /\ AllFlags \subseteq Arguments
  BY <1>2 DEF AllFlags, Arguments
<1>4. \A v \in Versions : Flags[v] \in Seq(Arguments) /\ Flags[v] \in Seq(AllFlags)
  <2> TAKE v \in Versions
  <2>1. Flags[v] \in Seq(AnyLine) /\ Range(Flags[v]) \subseteq AllFlags /\ Range(Flags[v]) \subseteq Arguments
    BY <1>1, <1>2, <1>3
  <2> QED
    BY <2>1, SeqOver
<1>5. Range(ImportedFile) \subseteq AnyLine /\ ImportedFile \in Seq(Arguments)
  <2>1. Range(ImportedFile) \subseteq AnyLine /\ Range(ImportedFile) \subseteq Arguments
    BY ImportedOK, SeqOver DEF Arguments
  <2> QED
    BY <2>1, ImportedOK, SeqOver
<1> QED
  BY <1>3, <1>4, <1>5, LinesOK DEF Arguments

(* The fields of a configuration, and the changes the commands make.       *)
LEMMA Fields ==
    ASSUME NEW c \in Config
    PROVE  /\ c.type \in Types /\ c.version \in Versions \cup {"custom"} /\ c.ms \in Sizes \cup {""}
           /\ c.mx \in Sizes \cup {""} /\ c.args \in Seq(Arguments) /\ c.serv \in Nat
           /\ ValidateConfig(c) => c.ms \in Sizes /\ c.mx \in Sizes /\ c.ms \in STRING /\ c.mx \in STRING
           /\ c # NoFile
<1>1. /\ c.type \in Types /\ c.version \in Versions \cup {"custom"} /\ c.ms \in Sizes \cup {""}
      /\ c.mx \in Sizes \cup {""} /\ c.args \in Seq(Arguments) /\ c.serv \in Nat
  BY DEF Config
<1>2. ValidateConfig(c) => c.ms \in Sizes /\ c.mx \in Sizes /\ c.ms \in STRING /\ c.mx \in STRING
  BY <1>1, SizesOK DEF ValidateConfig
<1>3. c # NoFile
  BY NoFileOK
<1> QED
  BY <1>1, <1>2, <1>3

(* The assignments to one field of a configuration.                        *)
LEMMA Changed ==
    ASSUME NEW c \in Config
    PROVE  /\ \A v \in Versions \cup {"custom"} : [c EXCEPT !.version = v] \in Config
           /\ \A a \in Seq(Arguments) : [c EXCEPT !.args = a] \in Config
           /\ \A n \in Nat : [c EXCEPT !.serv = n] \in Config
           /\ \A s \in Sizes : [c EXCEPT !.ms = s] \in Config /\ [c EXCEPT !.mx = s] \in Config
  BY DEF Config

(* The configuration that create and import save first.                    *)
LEMMA Templates ==
    ASSUME NEW t \in Types, NEW v \in Versions
    PROVE  Template(t, v) \in Config /\ Template(t, v).type = t /\ Template(t, v).version = v
<1>1. <<>> \in Seq(Arguments) /\ 0 \in Nat
  OBVIOUS
<1>3. DefaultSize \in Sizes
  BY SizesOK
<1>2. \A a \in Seq(Arguments), ms, mx \in Sizes \cup {""}, n \in Nat :
          [type |-> t, version |-> v, ms |-> ms, mx |-> mx, args |-> a, serv |-> n] \in Config
  BY <1>1 DEF Config
<1> QED
  BY <1>1, <1>2, <1>3 DEF Template

(* A new server has no arguments.                                          *)
LEMMA InitInv == Init => ArgsInv
<1> SUFFICES ASSUME Init PROVE ArgsInv
  OBVIOUS
<1>1. TypeOK
  BY ImportedOK DEF Init, TypeOK, Idle
<1>2. StepInv
  BY DEF Init, StepInv, Idle, Working
<1>3. PaperInv /\ ScriptInv
  BY DEF Init, PaperInv, ScriptInv
<1> QED
  BY <1>1, <1>2, <1>3 DEF ArgsInv

(* create and import up to their first Save.                               *)
LEMMA NewStep ==
    ASSUME ArgsInv, NEW t \in Types, NEW v \in Versions, Create(t, v) \/ ImportServer(t, v)
    PROVE  ArgsInv'
<1>1. Template(t, v) \in Config /\ Template(t, v).type = t
  BY Templates
<1>2. TypeOK'
  <2>1. \/ cmd' = [op |-> "create", pc |-> "save", mem |-> Template(t, v)]
        \/ cmd' = [op |-> "import", pc |-> "save", mem |-> Template(t, v)]
    BY DEF Create, ImportServer, Begin
  <2>2. UNCHANGED <<cfg, file>> /\ (added' = added \/ added' = <<>>)
    BY DEF Create, ImportServer, Hist
  <2>3. plain' \in BOOLEAN
    BY DEF Create, ImportServer, Hist, ArgsInv, TypeOK
  <2>4. added' \in Seq(UserLines)
    BY <2>2, EmptySeq DEF ArgsInv, TypeOK
  <2> QED
    BY <1>1, <2>1, <2>2, <2>3, <2>4 DEF ArgsInv, TypeOK
<1>3. StepInv'
  <2>1. CASE Create(t, v)
    BY <1>1, <2>1 DEF ArgsInv, StepInv, Create, Begin, Working, mem, At
  <2>2. CASE ImportServer(t, v)
    BY <1>1, <2>2 DEF ArgsInv, StepInv, ImportServer, Begin, Hist, Working, IsScript, mem, At
  <2> QED
    BY <2>1, <2>2
<1>4. (PaperInv /\ ScriptInv)'
  BY DEF Create, ImportServer, PaperInv, ScriptInv
<1> QED
  BY <1>2, <1>3, <1>4 DEF ArgsInv

(* The first Save of create and import.                                    *)
LEMMA SaveNewStep ==
    ASSUME ArgsInv, SaveNew
    PROVE  ArgsInv'
<1>0. PICK t \in Types, v \in Versions : cmd.mem = Template(t, v)
  BY DEF ArgsInv, StepInv, SaveNew, At, mem
<1>1. Template(t, v) \in Config /\ Template(t, v).type = t /\ Template(t, v).version = v
  BY Templates
<1>2. TypeOK'
  BY <1>0, <1>1 DEF ArgsInv, TypeOK, SaveNew, Goto, mem
<1>3. StepInv'
  BY <1>0, <1>1, NoFileOK, ImportedOK DEF ArgsInv, TypeOK, StepInv, SaveNew, Goto, Working, IsScript, mem, At
<1>4. PaperInv'
  <2>1. Range(<<>>) = {}
    BY DEF Range
  <2>2. Unflags(cmd.mem)'
    BY <1>0, <2>1, KeptEmpty DEF ArgsInv, StepInv, SaveNew, Goto, Unflags, OfUser, Template, At
  <2> QED
    BY <1>0, <1>1, <2>2 DEF ArgsInv, StepInv, TypeOK, SaveNew, Goto, PaperInv, IsScript, mem, At
<1>5. ScriptInv'
  <2>1. /\ cmd'.mem = cmd.mem /\ cfg' = cmd.mem /\ added' = <<>> /\ UNCHANGED <<file, plain>>
        /\ cmd'.pc = IF cmd.op = "import" /\ IsScript(cmd.mem) THEN "get" ELSE "install"
    BY DEF ArgsInv, TypeOK, StepInv, SaveNew, Goto, At, mem
  <2>2. cmd.mem.args = <<>> /\ cmd.mem.ms = DefaultSize /\ cmd.mem.mx = DefaultSize
    BY <1>0 DEF Template
  <2>3. OfUser(cmd.mem)' /\ Apart(cmd.mem.args)' /\ ValidateConfig(cmd.mem)
    <3>1. Apart(<<>>)
      BY DEF Apart
    <3>2. Kept(<<>>, Range(<<>>) \ AllFlags) = <<>>
      BY KeptEmpty
    <3>3. ValidateConfig(cmd.mem)
      BY <2>2, SizesOK DEF ValidateConfig
    <3> QED
      BY <2>1, <2>2, <3>1, <3>2, <3>3 DEF OfUser, Apart
  <2>4. plain' /\ IsScript(cfg)' => file' = NoFile /\ cmd'.pc = "install"
    BY <2>1 DEF ArgsInv, StepInv, SaveNew, At, mem, IsScript
  <2> QED
    BY <2>1, <2>2, <2>3, <2>4 DEF ScriptInv, Working, mem
<1> QED
  BY <1>2, <1>3, <1>4, <1>5 DEF ArgsInv

(* import reads the arguments and the memory sizes of the script's file.   *)
LEMMA GetStep ==
    ASSUME ArgsInv, ScriptGetJVMArgs
    PROVE  ArgsInv'
<1>1. cfg \in Config /\ file = ImportedFile /\ ~plain /\ cmd.op = "import" /\ IsScript(cfg)
  BY DEF ArgsInv, StepInv, TypeOK, ScriptGetJVMArgs, At
<1>2. ArgLines(file) \in Seq(Arguments)
  BY <1>1, Lines, KeptRange DEF ArgLines
<1>3. MemoryOf(file, "xms") \in Sizes \cup {""} /\ MemoryOf(file, "xmx") \in Sizes \cup {""}
  <2>1. ASSUME NEW k \in {"xms", "xmx"} PROVE MemoryOf(file, k) \in Sizes \cup {""}
    <3>1. PICK ls : ls = Kept(file, OfKind(file, k))
      OBVIOUS
    <3>2. ls \in Seq(AnyLine) /\ Range(ls) = Range(file) \cap OfKind(file, k)
      BY <1>1, <3>1, ImportedOK, KeptRange
    <3>3. MemoryOf(file, k) = IF ls = <<>> THEN "" ELSE ls[Len(ls)].v
      BY <3>1 DEF MemoryOf
    <3>4. ASSUME ls # <<>> PROVE ls[Len(ls)] \in Range(ls)
      <4>1. Len(ls) \in 1 .. Len(ls) /\ DOMAIN ls = 1 .. Len(ls)
        BY <3>2, <3>4, EmptySeq, LenProperties
      <4> QED
        BY <4>1 DEF Range
    <3>5. \A l \in OfKind(file, k) : l.v \in Sizes
      BY <1>1, ImportedOK DEF OfKind, Range
    <3> QED
      BY <3>2, <3>3, <3>4, <3>5
  <2> QED
    BY <2>1
<1>4. cfg.args \o ArgLines(file) \in Seq(Arguments)
  <2>1. cfg.args \in Seq(Arguments)
    BY <1>1, Fields
  <2> QED
    BY <1>2, <2>1
<1>5. cfg' \in Config /\ cfg'.type = cfg.type
  BY <1>1, <1>3, <1>4 DEF ScriptGetJVMArgs, Config
<1>6. TypeOK'
  BY <1>5 DEF ArgsInv, TypeOK, ScriptGetJVMArgs, Goto
<1>7. StepInv'
  BY <1>1, <1>5, NoFileOK DEF ArgsInv, TypeOK, StepInv, ScriptGetJVMArgs, Goto, Working, IsScript, mem, At
<1>8. (PaperInv /\ ScriptInv)'
  BY <1>1 DEF ScriptGetJVMArgs, PaperInv, ScriptInv
<1> QED
  BY <1>6, <1>7, <1>8 DEF ArgsInv

(* An exception, or what the commands keep of the histories.               *)
LEMMA History ==
    ASSUME ArgsInv, NEW ls, NEW exc, Hist(ls, exc), plain' => ls \in Seq(UserLines)
    PROVE  /\ added' \in Seq(UserLines) /\ plain' \in BOOLEAN
           /\ plain' => plain /\ exc /\ added' = ls
<1>1. plain' \in BOOLEAN /\ (plain' => plain /\ exc)
  BY DEF Hist, ArgsInv, TypeOK
<1>2. added' = IF plain' THEN ls ELSE <<>>
  BY DEF Hist
<1>3. added' \in Seq(UserLines)
  BY <1>2
<1> QED
  BY <1>1, <1>2, <1>3

(* set version takes the flags of the old version out of the arguments.    *)
LEMMA UnflaggedIs ==
    ASSUME NEW args \in Seq(Arguments), NEW v \in Versions, Kept(args, AllFlags) = Flags[v]
    PROVE  /\ Unflagged(args, v) \in Seq(Arguments)
           /\ Unflagged(args, v) = Kept(args, Range(args) \ AllFlags)
           /\ Kept(Unflagged(args, v), AllFlags) = <<>>
           /\ Kept(Unflagged(args, v), Range(Unflagged(args, v)) \ AllFlags) = Unflagged(args, v)
<1>1. Range(args) \ Range(Flags[v]) = Range(args) \ AllFlags
  <2>1. Range(Kept(args, AllFlags)) = Range(args) \cap AllFlags
    BY KeptRange
  <2> QED
    BY <2>1
<1>2. PICK u : u = Unflagged(args, v)
  OBVIOUS
<1>3. u = Kept(args, Range(args) \ AllFlags)
  BY <1>1, <1>2 DEF Unflagged
<1>4. u \in Seq(Arguments) /\ Range(u) \cap AllFlags = {}
  BY <1>3, KeptRange
<1>5. u \in Seq(Range(u))
  BY <1>4, SeqOver
<1>6. Kept(u, AllFlags) = <<>>
  BY <1>4, <1>5, KeptNone
<1>7. Kept(u, Range(u) \ AllFlags) = u
  <2>1. Range(u) \subseteq Range(u) \ AllFlags
    BY <1>4
  <2> QED
    BY <1>5, <2>1, KeptAll
<1> QED
  BY <1>2, <1>3, <1>4, <1>6, <1>7

(* A command that starts at idle with a copy of the configuration.         *)
LEMMA VersionStep ==
    ASSUME ArgsInv, NEW v \in Versions, RemoveRecommendedJVMArguments(v)
    PROVE  ArgsInv'
<1>1. cfg \in Config /\ cmd.pc = "idle" /\ UNCHANGED <<cfg, file>>
  BY DEF ArgsInv, TypeOK, RemoveRecommendedJVMArguments, Loads, At
<1>2. cfg.args \in Seq(Arguments) /\ cfg.version \in Versions \cup {"custom"} /\ cfg.type \in Types /\ cfg # NoFile
  BY <1>1, Fields
<1> DEFINE u == Unflagged(cfg.args, cfg.version)
<1>3. u \in Seq(Arguments)
  BY <1>2, KeptRange DEF Unflagged
<1>4. CASE cfg.type = "paper" /\ cfg.version # "custom" /\ UNCHANGED <<added, plain>>
           /\ Begin("version", "install", [cfg EXCEPT !.args = u, !.version = v])
  <2> DEFINE c == [cfg EXCEPT !.args = u, !.version = v]
  <2>1. c \in Config /\ c.args = u /\ c.version = v /\ c.type = "paper"
    BY <1>1, <1>3, <1>4 DEF Config
  <2> HIDE DEF c, u
  <2>2. cmd' = [op |-> "version", pc |-> "install", mem |-> c]
    BY <1>4 DEF Begin, c, u
  <2>3. TypeOK'
    BY <1>1, <1>4, <2>1, <2>2 DEF ArgsInv, TypeOK
  <2>4. StepInv'
    BY <1>1, <1>2, <1>4, <2>1, <2>2, NoFileOK DEF StepInv, Working, Strict, mem
  <2>5. ASSUME plain PROVE Unflags(cmd.mem)' /\ Flagged(cfg)'
    <3>1. Flagged(cfg)
      BY <1>1, <1>2, <1>4, <2>5 DEF ArgsInv, PaperInv
    <3>2. Kept(u, AllFlags) = <<>> /\ Kept(u, Range(u) \ AllFlags) = added
      BY <1>2, <3>1, UnflaggedIs DEF Flagged, OfUser, u
    <3> QED
      BY <1>1, <1>4, <2>1, <2>2, <3>1, <3>2 DEF Unflags, Flagged, OfUser
  <2>6. (PaperInv /\ ScriptInv)'
    BY <1>1, <1>4, <2>2, <2>5 DEF PaperInv, ScriptInv, IsScript, Script, mem
  <2> QED
    BY <2>3, <2>4, <2>6 DEF ArgsInv
<1>5. CASE Begin("version", "install", [cfg EXCEPT !.version = v]) /\ Hist(added, cfg.type # "paper")
  <2> DEFINE c == [cfg EXCEPT !.version = v]
  <2>1. c \in Config /\ c.args = cfg.args /\ c.version = v /\ c.type = cfg.type /\ c.ms = cfg.ms /\ c.mx = cfg.mx
    BY <1>1 DEF Config
  <2> HIDE DEF c
  <2>2. cmd' = [op |-> "version", pc |-> "install", mem |-> c]
    BY <1>5 DEF Begin, c
  <2>0. added' \in Seq(UserLines) /\ plain' \in BOOLEAN /\ (plain' => plain /\ cfg.type # "paper" /\ added' = added)
    BY <1>5, History DEF ArgsInv, TypeOK
  <2>3. TypeOK'
    BY <1>1, <2>0, <2>1, <2>2 DEF ArgsInv, TypeOK
  <2>4. StepInv'
    BY <1>1, <1>2, <2>1, <2>2, NoFileOK DEF StepInv, Working, Strict, mem
  <2>5. PaperInv'
    BY <1>1, <2>0 DEF PaperInv
  <2>6. ScriptInv'
    BY <1>1, <1>2, <2>0, <2>1, <2>2 DEF ArgsInv, ScriptInv, IsScript, Script, mem, Working, OfUser, Configured
  <2> QED
    BY <2>3, <2>4, <2>5, <2>6 DEF ArgsInv
<1> QED
  BY <1>4, <1>5 DEF RemoveRecommendedJVMArguments

(* The download fails.                                                     *)
LEMMA FailStep ==
    ASSUME ArgsInv, DownloadFails
    PROVE  ArgsInv'
<1>1. /\ cmd.pc = "install" /\ UNCHANGED <<cfg, file>> /\ cfg \in Config /\ cmd.mem \in Config /\ cmd.mem.type = cfg.type
      /\ cmd.op \in {"create", "import"} \cup Strict
  BY DEF ArgsInv, TypeOK, StepInv, DownloadFails, At, Working, mem
<1>2. added' \in Seq(UserLines) /\ plain' \in BOOLEAN
      /\ (plain' => plain /\ (cmd.op \in Strict \/ IsScript(cmd.mem)) /\ added' = added)
  BY History DEF ArgsInv, TypeOK, DownloadFails, mem
<1>3. CASE cmd.op \in Strict /\ cmd' = Idle
  <2>1. TypeOK' /\ StepInv'
    BY <1>1, <1>2, <1>3, NoFileOK DEF ArgsInv, TypeOK, StepInv, Idle, Working
  <2>2. PaperInv'
    <3>1. cmd.op = "download" => cfg.type # "paper"
      BY <1>1 DEF ArgsInv, StepInv, IsScript, Script, mem
    <3>2. cmd.op # "download" => cmd.op = "version"
      BY <1>3 DEF Strict
    <3> QED
      BY <1>1, <1>2, <1>3, <3>1, <3>2 DEF ArgsInv, PaperInv, Idle, Flagged, OfUser
  <2>3. ScriptInv'
    BY <1>1, <1>2, <1>3 DEF ArgsInv, ScriptInv, Idle, Working, OfUser, Configured
  <2> QED
    BY <2>1, <2>2, <2>3 DEF ArgsInv
<1>4. CASE cmd.op \notin Strict /\ cmd' = [cmd EXCEPT !.pc = "last"]
  <2>1. cmd' = [op |-> cmd.op, pc |-> "last", mem |-> cmd.mem]
    BY <1>4 DEF ArgsInv, TypeOK
  <2>2. TypeOK'
    BY <1>1, <1>2, <2>1 DEF ArgsInv, TypeOK
  <2>3. StepInv'
    BY <1>1, <1>2, <2>1, NoFileOK DEF ArgsInv, StepInv, Working, mem
  <2>4. PaperInv'
    BY <1>1, <1>2, <1>4 DEF PaperInv, IsScript, Script
  <2>5. ScriptInv'
    BY <1>1, <1>2, <2>1 DEF ArgsInv, ScriptInv, Working, OfUser, Configured, mem
  <2> QED
    BY <2>2, <2>3, <2>4, <2>5 DEF ArgsInv
<1> QED
  BY <1>3, <1>4 DEF DownloadFails, End, Goto

(* The recommended flags come after the user's arguments.                  *)
LEMMA FlagStep ==
    ASSUME ArgsInv, PaperSetRecommendedJVMArguments
    PROVE  ArgsInv'
<1>1. /\ cmd.pc = "install" /\ UNCHANGED <<cfg, file>> /\ cfg \in Config /\ cmd.mem \in Config /\ cmd.mem.type = "paper"
      /\ cfg.type = "paper" /\ cmd.op \in {"create", "import", "version"} /\ cmd.mem.version \in Versions
  BY DEF ArgsInv, TypeOK, StepInv, Strict, IsScript, Script, PaperSetRecommendedJVMArguments, At, Working, mem
<1> DEFINE fl == Flags[cmd.mem.version]
           c == [cmd.mem EXCEPT !.args = @ \o fl]
<1>2. CASE cmd' = [cmd EXCEPT !.pc = "last", !.mem = c] /\ UNCHANGED <<added, plain>>
  <2>1. cmd.mem.args \in Seq(Arguments) /\ fl \in Seq(Arguments) /\ fl \in Seq(AllFlags)
    BY <1>1, Fields, Lines
  <2> HIDE DEF fl
  <2>2. cmd.mem.args \o fl \in Seq(Arguments)
    BY <2>1
  <2>3. /\ c \in Config /\ c.args = cmd.mem.args \o fl /\ c.version = cmd.mem.version /\ c.type = "paper"
    BY <1>1, <2>2 DEF Config
  <2> HIDE DEF c
  <2>4. cmd' = [op |-> cmd.op, pc |-> "last", mem |-> c]
    BY <1>2 DEF ArgsInv, TypeOK
  <2>5. TypeOK'
    BY <1>1, <1>2, <2>3, <2>4 DEF ArgsInv, TypeOK
  <2>6. StepInv'
    BY <1>1, <1>2, <2>3, <2>4, NoFileOK DEF ArgsInv, StepInv, Working, mem
  <2>7. ASSUME plain PROVE Flagged(cmd.mem)'
    <3>1. PICK a : a = cmd.mem.args
      OBVIOUS
    <3>2. a \in Seq(Arguments) /\ Kept(a, AllFlags) = <<>> /\ Kept(a, Range(a) \ AllFlags) = added
      BY <1>1, <2>1, <2>7, <3>1, NoFileOK DEF ArgsInv, PaperInv, Unflags, OfUser, mem
    <3>0. ASSUME NEW x \in Seq(Arguments), NEW y \in Seq(Arguments), NEW S
          PROVE  Kept(x \o y, S) = Kept(x, S) \o Kept(y, S)
      BY KeptConcat
    <3>3. Kept(fl, AllFlags) = fl
      BY <2>1, KeptAll
    <3>4. Kept(a \o fl, AllFlags) = fl
      <4>1. Kept(a \o fl, AllFlags) = Kept(a, AllFlags) \o Kept(fl, AllFlags)
        BY <2>1, <3>0, <3>2
      <4> QED
        BY <2>1, <3>2, <3>3, <4>1, ConcatEmptySeq
    <3>5. Kept(a \o fl, Range(a \o fl) \ AllFlags) = added
      <4> DEFINE S == Range(a \o fl) \ AllFlags
      <4>1. Range(a \o fl) = Range(a) \cup Range(fl)
        BY <2>1, <3>2, RangeConcatenation
      <4>2. Kept(a \o fl, S) = Kept(a, S) \o Kept(fl, S)
        BY <2>1, <3>0, <3>2
      <4>3. Kept(fl, S) = <<>>
        <5>1. AllFlags \cap S = {}
          OBVIOUS
        <5> QED
          BY <2>1, <5>1, KeptNone
      <4>4. Kept(a, S) = added
        <5>1. a \in Seq(Range(a)) /\ Range(a) \cap S = Range(a) \cap (Range(a) \ AllFlags)
          BY <3>2, <4>1, SeqOver
        <5>2. Kept(a, S) = Kept(a, Range(a) \ AllFlags)
          BY <5>1, KeptSame
        <5> QED
          BY <3>2, <5>2
      <4>5. added \in Seq(UserLines)
        BY DEF ArgsInv, TypeOK
      <4> HIDE DEF S
      <4>6. Kept(a \o fl, S) = added
        BY <4>2, <4>3, <4>4, <4>5, ConcatEmptySeq
      <4> QED
        BY <4>6 DEF S
    <3>6. cmd'.mem.args = a \o fl /\ cmd'.mem.version = cmd.mem.version
      BY <2>3, <2>4, <3>1
    <3> QED
      BY <1>1, <1>2, <3>4, <3>5, <3>6 DEF Flagged, OfUser, fl
  <2>8. (PaperInv /\ ScriptInv)'
    BY <1>1, <1>2, <2>4, <2>7 DEF PaperInv, ScriptInv, IsScript, Script, mem
  <2> QED
    BY <2>5, <2>6, <2>8 DEF ArgsInv
<1>3. CASE cmd' = [cmd EXCEPT !.pc = "last"] /\ Hist(added, FALSE)
  <2>1. cmd' = [op |-> cmd.op, pc |-> "last", mem |-> cmd.mem]
    BY <1>3 DEF ArgsInv, TypeOK
  <2>2. added' \in Seq(UserLines) /\ plain' \in BOOLEAN /\ ~plain'
    BY <1>3, History DEF ArgsInv, TypeOK
  <2>3. TypeOK' /\ StepInv'
    BY <1>1, <2>1, <2>2, NoFileOK DEF ArgsInv, TypeOK, StepInv, Working, mem
  <2> QED
    BY <2>2, <2>3 DEF ArgsInv, PaperInv, ScriptInv
<1> QED
  BY <1>1, <1>2, <1>3 DEF PaperSetRecommendedJVMArguments, Update, Goto, mem

(* The arguments of a script's file are those of config.json.              *)
LEMMA ArgsOfFile ==
    ASSUME NEW c, Range(file) = Configured(c), Apart(c.args)
    PROVE  OfKind(file, "arg") = Range(c.args)
<1>1. \A l \in Range(c.args) : l.k = "arg"
  BY DEF Apart, Range
<1>2. Line("xms", c.ms).k # "arg" /\ Line("xmx", c.mx).k # "arg"
  BY DEF Line
<1> QED
  BY <1>1, <1>2 DEF OfKind, Configured

(* The installer leaves a file there is alone, and may make one otherwise: *)
(* a server without one has no arguments.                                  *)
LEMMA InstallerStep ==
    ASSUME ArgsInv, RunInstaller
    PROVE  ArgsInv'
<1>1. /\ cmd.pc = "install" /\ UNCHANGED <<cfg, added, plain>> /\ cfg \in Config /\ cmd.mem \in Config
      /\ cmd.mem.type = cfg.type /\ IsScript(cmd.mem) /\ IsScript(cfg)
      /\ file' = file \/ (file = NoFile /\ file' = <<>>)
  BY DEF ArgsInv, TypeOK, StepInv, RunInstaller, At, Working, mem, IsScript
<1>2. cmd' = [op |-> cmd.op, pc |-> "memory", mem |-> cmd.mem]
  BY DEF ArgsInv, TypeOK, RunInstaller, Goto
<1>3. file' = NoFile \/ file' \in Seq(AnyLine)
  BY <1>1, EmptySeq DEF ArgsInv, TypeOK
<1>4. TypeOK' /\ StepInv'
  BY <1>1, <1>2, <1>3, NoFileOK DEF ArgsInv, TypeOK, StepInv, Working, mem
<1>5. PaperInv'
  BY <1>1 DEF PaperInv, IsScript, Script
<1>6. ScriptInv'
  <2>1. ASSUME plain PROVE file' = NoFile \/ OfKind(file', "arg") = Range(cfg.args)
    <3>1. CASE file = NoFile /\ file' = <<>>
      <4>1. cfg.args = <<>> /\ file' = <<>>
        BY <1>1, <2>1, <3>1, NoFileOK DEF ArgsInv, ScriptInv
      <4> QED
        BY <4>1 DEF OfKind, Range
    <3>2. CASE file # NoFile
      <4>1. Range(file) = Configured(cfg) /\ Apart(cfg.args)
        BY <1>1, <2>1, <3>2, NoFileOK DEF ArgsInv, ScriptInv
      <4> QED
        BY <1>1, <3>2, <4>1, ArgsOfFile
    <3> QED
      BY <1>1, <3>1, <3>2
  <2> QED
    BY <1>1, <1>2, <1>3, <2>1, NoFileOK DEF ArgsInv, ScriptInv, Working, OfUser, Configured, mem
<1> QED
  BY <1>4, <1>5, <1>6 DEF ArgsInv

(* The memory settings of config.json are written over those of the file.  *)
LEMMA MemoryRange ==
    ASSUME NEW f \in Seq(AnyLine), NEW c \in Config, ValidateConfig(c)
    PROVE  /\ WithMemory(f, c) \in Seq(AnyLine)
           /\ OfKind(f, "arg") = Range(c.args) => Range(WithMemory(f, c)) = Configured(c)
<1>1. c.ms \in STRING /\ c.mx \in STRING
  BY Fields
<1>2. /\ WithMemory(f, c) \in Seq(AnyLine)
      /\ Range(WithMemory(f, c)) = OfKind(f, "arg") \cup {Line("xms", c.ms), Line("xmx", c.mx)}
  BY <1>1, WithMemoryIs
<1> QED
  BY <1>2 DEF Configured

(* Installation ends by writing the memory settings.                       *)
LEMMA InstallMemoryStep ==
    ASSUME ArgsInv, InstallMemory
    PROVE  ArgsInv'
<1>1. /\ cmd.pc = "memory" /\ UNCHANGED cfg /\ cfg \in Config /\ cmd.mem \in Config
      /\ cmd.mem.type = cfg.type /\ IsScript(cmd.mem) /\ IsScript(cfg) /\ (file = NoFile \/ file \in Seq(AnyLine))
      /\ \/ /\ file' = IF file # NoFile /\ ValidateConfig(cfg) THEN WithMemory(file, cfg) ELSE file
            /\ UNCHANGED <<added, plain>>
         \/ UNCHANGED file /\ Hist(added, FALSE)
  BY DEF ArgsInv, TypeOK, StepInv, InstallMemory, At, Working, mem, IsScript
<1>8. /\ added' \in Seq(UserLines) /\ plain' \in BOOLEAN
      /\ plain' => /\ plain /\ added' = added
                   /\ file' = IF file # NoFile /\ ValidateConfig(cfg) THEN WithMemory(file, cfg) ELSE file
  <2>1. CASE /\ file' = IF file # NoFile /\ ValidateConfig(cfg) THEN WithMemory(file, cfg) ELSE file
             /\ UNCHANGED <<added, plain>>
    BY <2>1 DEF ArgsInv, TypeOK
  <2>2. CASE Hist(added, FALSE)
    BY <2>2, History DEF ArgsInv, TypeOK
  <2> QED
    BY <1>1, <2>1, <2>2
<1> DEFINE c == [cmd.mem EXCEPT !.serv = @ + 1]
<1>2. /\ c \in Config /\ c.type = cmd.mem.type /\ c.version = cmd.mem.version /\ c.args = cmd.mem.args
      /\ c.ms = cmd.mem.ms /\ c.mx = cmd.mem.mx
  <2>1. cmd.mem.serv + 1 \in Nat
    <3>1. \A n \in Nat : n + 1 \in Nat
      OBVIOUS
    <3>2. cmd.mem.serv \in Nat
      BY <1>1, Fields, Zenon
    <3> QED
      BY <3>1, <3>2, Zenon
  <2> QED
    BY <1>1, <2>1 DEF Config
<1> HIDE DEF c
<1>3. cmd' = [op |-> cmd.op, pc |-> "installed", mem |-> c]
  BY DEF ArgsInv, TypeOK, InstallMemory, Update, c, mem
<1>4. file' = NoFile \/ file' \in Seq(AnyLine)
  BY <1>1, MemoryRange
<1>5. TypeOK' /\ StepInv'
  BY <1>1, <1>2, <1>3, <1>4, <1>8, NoFileOK DEF ArgsInv, TypeOK, StepInv, Working, mem, IsScript
<1>6. PaperInv'
  BY <1>1 DEF PaperInv, IsScript, Script
<1>7. ScriptInv'
  <2>1. ASSUME plain' PROVE (file' = NoFile <=> file = NoFile) /\ (file # NoFile => Range(file') = Configured(cfg))
    <3>1. ValidateConfig(cfg) /\ (file # NoFile => OfKind(file, "arg") = Range(cfg.args))
      BY <1>1, <1>8, <2>1, NoFileOK DEF ArgsInv, ScriptInv
    <3> QED
      BY <1>1, <1>8, <2>1, <3>1, MemoryRange, NoFileOK
  <2> QED
    BY <1>1, <1>2, <1>3, <1>4, <1>8, <2>1, NoFileOK DEF ArgsInv, ScriptInv, Working, OfUser, Configured, mem
<1> QED
  BY <1>5, <1>6, <1>7 DEF ArgsInv

(* The two Saves at the end of create, import and set version.             *)
LEMMA SaveMemStep ==
    ASSUME ArgsInv, SaveMem
    PROVE  ArgsInv'
<1>1. /\ cmd.pc \in {"installed", "last"} /\ UNCHANGED <<file, added, plain>> /\ cfg' = cmd.mem /\ cmd.mem \in Config
      /\ cfg \in Config /\ cfg'.type = cfg.type
  BY DEF ArgsInv, TypeOK, StepInv, SaveMem, At, Working, mem
<1> DEFINE d == [cmd.mem EXCEPT !.version = IF cmd.op = "download" THEN "custom" ELSE @]
<1>2. /\ d \in Config /\ d.type = cmd.mem.type /\ d.args = cmd.mem.args
      /\ d.ms = cmd.mem.ms /\ d.mx = cmd.mem.mx
  BY <1>1 DEF Config
<1> HIDE DEF d
<1>3. \/ cmd.pc = "installed" /\ cmd' = [op |-> cmd.op, pc |-> "last", mem |-> d]
      \/ cmd.pc = "installed" /\ cmd' = Idle
      \/ cmd.pc = "last" /\ cmd' = Idle
  BY DEF ArgsInv, TypeOK, SaveMem, At, mem, Update, End, d
<1>4. cmd.pc = "installed" => IsScript(cmd.mem)
  BY DEF ArgsInv, StepInv, mem
<1>5. TypeOK' /\ StepInv'
  BY <1>1, <1>2, <1>3, NoFileOK DEF ArgsInv, TypeOK, StepInv, Working, mem, Idle
<1>6. PaperInv'
  BY <1>1, <1>3, <1>4, NoFileOK DEF ArgsInv, PaperInv, IsScript, Script, Idle, Flagged, OfUser, mem
<1>7. ScriptInv'
  <2>1. ASSUME plain, IsScript(cfg)'
        PROVE  /\ ValidateConfig(cfg)' /\ Apart(cfg.args)' /\ OfUser(cfg)' /\ Configured(cfg)' = Configured(cfg)
               /\ (cfg'.args = cfg.args /\ cfg'.ms = cfg.ms /\ cfg'.mx = cfg.mx)
    BY <1>1, <2>1, NoFileOK DEF ArgsInv, ScriptInv, IsScript, Working, ValidateConfig, OfUser, Configured, mem
  <2>2. ASSUME plain, IsScript(cfg)'
        PROVE  (file = NoFile => cfg.args = <<>>) /\ (file = NoFile \/ Range(file) = Configured(cfg))
    BY <1>1, <2>2, NoFileOK DEF ArgsInv, ScriptInv, IsScript
  <2> QED
    BY <1>1, <1>2, <1>3, <2>1, <2>2 DEF ScriptInv, Working, mem, Idle
<1> QED
  BY <1>5, <1>6, <1>7 DEF ArgsInv

(* A jar downloaded from a URL.                                            *)
LEMMA JarStep ==
    ASSUME ArgsInv, DownloadCustomJar
    PROVE  ArgsInv'
<1>1. cfg \in Config /\ cmd.pc = "idle" /\ ValidateConfig(cfg) /\ UNCHANGED file
  BY DEF ArgsInv, TypeOK, DownloadCustomJar, Loads, At
<1>2. CASE /\ IsScript(cfg) /\ UNCHANGED <<cfg, added, plain>>
           /\ cmd' = [op |-> "download", pc |-> "install", mem |-> cfg]
  <2>1. TypeOK' /\ StepInv'
    BY <1>1, <1>2, NoFileOK DEF ArgsInv, TypeOK, StepInv, Working, mem, Strict, IsScript
  <2>2. PaperInv'
    BY <1>2 DEF PaperInv, IsScript, Script
  <2>3. ScriptInv'
    BY <1>1, <1>2 DEF ArgsInv, ScriptInv, Working, OfUser, Configured, IsScript, ValidateConfig, mem
  <2> QED
    BY <2>1, <2>2, <2>3 DEF ArgsInv
<1>3. CASE /\ cfg' = [cfg EXCEPT !.version = "custom"] /\ UNCHANGED cmd
           /\ Hist(added, FALSE)
  <2>1. cfg' \in Config /\ cfg'.type = cfg.type
    BY <1>1, <1>3 DEF Config
  <2>2. added' \in Seq(UserLines) /\ plain' \in BOOLEAN /\ ~plain'
    BY <1>3, History DEF ArgsInv, TypeOK
  <2>3. TypeOK' /\ StepInv'
    BY <1>1, <1>3, <2>1, <2>2, NoFileOK DEF ArgsInv, TypeOK, StepInv, Working, mem
  <2> QED
    BY <2>2, <2>3 DEF ArgsInv, PaperInv, ScriptInv
<1> QED
  BY <1>2, <1>3 DEF DownloadCustomJar, Begin

(* add-launch-arg puts the line at the end of the user's arguments.        *)
LEMMA UserAppend ==
    ASSUME NEW a \in Seq(Arguments), NEW l \in UserLines, l \notin AllFlags
    PROVE  /\ Kept(Append(a, l), AllFlags) = Kept(a, AllFlags)
           /\ Kept(Append(a, l), Range(Append(a, l)) \ AllFlags) = Append(Kept(a, Range(a) \ AllFlags), l)
<1>1. l \in Arguments
  BY Lines
<1> DEFINE S == Range(Append(a, l)) \ AllFlags
<1>2. Range(Append(a, l)) = Range(a) \cup {l}
  BY <1>1, RangeAppend
<1>3. Kept(Append(a, l), AllFlags) = Kept(a, AllFlags)
  BY <1>1, KeptAppend
<1>4. l \in S
  BY <1>2
<1>5. a \in Seq(Range(a)) /\ Range(a) \cap S = Range(a) \cap (Range(a) \ AllFlags)
  BY <1>2, SeqOver
<1> HIDE DEF S
<1>6. Kept(Append(a, l), S) = Append(Kept(a, S), l)
  BY <1>1, <1>4, KeptAppend
<1>7. Kept(a, S) = Kept(a, Range(a) \ AllFlags)
  BY <1>5, KeptSame
<1> QED
  BY <1>3, <1>6, <1>7 DEF S

(* A line that is new but for case keeps the arguments apart.              *)
LEMMA ApartAppend ==
    ASSUME NEW a \in Seq(Arguments), NEW l \in Arguments, Apart(a), l.k = "arg", ~LikeMemory(l),
           \A i \in DOMAIN a : Fold[a[i]] # Fold[l]
    PROVE  Apart(Append(a, l))
<1>1. PICK b, n : b = Append(a, l) /\ n = Len(a)
  OBVIOUS
<1>2. /\ n \in Nat /\ DOMAIN a = 1 .. n /\ DOMAIN b = 1 .. n + 1 /\ b[n + 1] = l
      /\ \A j \in 1 .. n : b[j] = a[j]
  BY <1>1, AppendProperties, LenProperties
<1>3. \A j \in 1 .. n + 1 : j \in 1 .. n \/ j = n + 1
  BY <1>2
<1>4. ASSUME NEW i \in DOMAIN b, NEW j \in DOMAIN b, Fold[b[i]] = Fold[b[j]] PROVE i = j
  BY <1>2, <1>3, <1>4 DEF Apart
<1>5. ASSUME NEW i \in DOMAIN b PROVE b[i].k = "arg" /\ ~LikeMemory(b[i])
  BY <1>2, <1>3 DEF Apart
<1> QED
  BY <1>1, <1>4, <1>5 DEF Apart

(* add-launch-arg up to its Save: the file has the line already.           *)
LEMMA AddStep ==
    ASSUME ArgsInv, NEW l \in UserLines, AddAdditionalJVMArg(l)
    PROVE  ArgsInv'
<1>1. cmd.pc = "idle" /\ cfg \in Config /\ cfg # NoFile /\ UNCHANGED cfg /\ l \in Arguments /\ l \in AnyLine
  BY Lines DEF ArgsInv, TypeOK, AddAdditionalJVMArg, At
<1>2. cfg.args \in Seq(Arguments)
  BY <1>1, Fields
<1> DEFINE c == [cfg EXCEPT !.args = Append(@, l)]
<1>3. /\ c \in Config /\ c.type = cfg.type /\ c.version = cfg.version /\ c.args = Append(cfg.args, l)
      /\ c.ms = cfg.ms /\ c.mx = cfg.mx
  <2>1. Append(cfg.args, l) \in Seq(Arguments)
    BY <1>1, <1>2
  <2> QED
    BY <1>1, <2>1 DEF Config
<1>4. cmd' = [op |-> "add", pc |-> "write", mem |-> c]
  BY DEF AddAdditionalJVMArg, Begin
<1> HIDE DEF c
<1>5. /\ added' \in Seq(UserLines) /\ plain' \in BOOLEAN
      /\ plain' => /\ plain /\ added' = Append(added, l) /\ l \notin AllFlags /\ l.k = "arg" /\ ~LikeMemory(l)
                   /\ \A i \in DOMAIN cfg.args : Fold[cfg.args[i]] # Fold[l]
  <2>1. Append(added, l) \in Seq(UserLines)
    BY DEF ArgsInv, TypeOK
  <2> DEFINE exc == /\ l \notin AllFlags
                    /\ l.k = "arg" /\ ~LikeMemory(l)
                    /\ \A i \in DOMAIN cfg.args : Fold[cfg.args[i]] # Fold[l]
  <2>2. Hist(Append(added, l), exc)
    BY DEF AddAdditionalJVMArg
  <2> HIDE DEF exc
  <2>3. added' \in Seq(UserLines) /\ plain' \in BOOLEAN /\ (plain' => plain /\ exc /\ added' = Append(added, l))
    BY <2>1, <2>2, History
  <2> QED
    BY <2>3 DEF exc
<1>6. /\ IsScript(cfg) => file # NoFile /\ file \in Seq(AnyLine) /\ file' = Append(file, l)
      /\ ~IsScript(cfg) => UNCHANGED file
  BY DEF ArgsInv, TypeOK, AddAdditionalJVMArg
<1>7. file' = NoFile \/ file' \in Seq(AnyLine)
  <2>1. file = NoFile \/ file \in Seq(AnyLine)
    BY DEF ArgsInv, TypeOK
  <2>2. file \in Seq(AnyLine) => Append(file, l) \in Seq(AnyLine)
    BY <1>1, AppendProperties
  <2> QED
    BY <1>6, <2>1, <2>2
<1>8. TypeOK' /\ StepInv'
  BY <1>1, <1>3, <1>4, <1>5, <1>7, NoFileOK DEF ArgsInv, TypeOK, StepInv, Working, mem
<1>9. ASSUME plain', cfg.type = "paper" PROVE Flagged(cmd.mem)'
  <2>1. Flagged(cfg)
    BY <1>1, <1>5, <1>9 DEF ArgsInv, PaperInv
  <2>2. /\ Kept(Append(cfg.args, l), AllFlags) = Kept(cfg.args, AllFlags)
        /\ Kept(Append(cfg.args, l), Range(Append(cfg.args, l)) \ AllFlags) = Append(Kept(cfg.args, Range(cfg.args) \ AllFlags), l)
    BY <1>2, <1>5, <1>9, UserAppend
  <2> QED
    BY <1>3, <1>4, <1>5, <1>9, <2>1, <2>2 DEF Flagged, OfUser
<1>10. PaperInv'
  BY <1>1, <1>4, <1>9 DEF PaperInv, mem
<1>11. ASSUME plain', IsScript(cfg)
       PROVE  /\ ValidateConfig(cfg) /\ Apart(cfg.args) /\ Apart(c.args) /\ OfUser(cmd.mem)'
              /\ file' # NoFile /\ Range(file') = Configured(c)
  <2>1. ValidateConfig(cfg) /\ Apart(cfg.args) /\ OfUser(cfg) /\ Range(file) = Configured(cfg)
    BY <1>1, <1>5, <1>6, <1>11 DEF ArgsInv, ScriptInv
  <2>2. Apart(c.args)
    BY <1>1, <1>2, <1>3, <1>5, <1>11, <2>1, ApartAppend
  <2>3. Kept(Append(cfg.args, l), Range(Append(cfg.args, l)) \ AllFlags) = Append(Kept(cfg.args, Range(cfg.args) \ AllFlags), l)
    BY <1>2, <1>5, <1>11, UserAppend
  <2>4. OfUser(cmd.mem)'
    BY <1>3, <1>4, <1>5, <1>11, <2>1, <2>3 DEF OfUser
  <2>5. file' # NoFile
    BY <1>1, <1>6, <1>11, NoFileOK, AppendProperties
  <2>6. Range(file') = Range(file) \cup {l} /\ Range(c.args) = Range(cfg.args) \cup {l}
    <3>1. ASSUME NEW X, NEW a \in Seq(X), l \in X PROVE Range(Append(a, l)) = Range(a) \cup {l}
      BY <3>1, RangeAppend
    <3>2. Range(Append(file, l)) = Range(file) \cup {l}
      BY <1>1, <1>6, <1>11, <3>1
    <3>3. Range(Append(cfg.args, l)) = Range(cfg.args) \cup {l}
      BY <1>1, <1>2, <3>1
    <3> QED
      BY <1>3, <1>6, <1>11, <3>2, <3>3
  <2>7. Range(file') = Configured(c)
    BY <1>3, <2>1, <2>6 DEF Configured
  <2> QED
    BY <2>1, <2>2, <2>4, <2>5, <2>7
<1>12. ScriptInv'
  BY <1>1, <1>3, <1>4, <1>11 DEF ScriptInv, IsScript, Working, ValidateConfig, Apart, Configured, mem
<1> QED
  BY <1>8, <1>10, <1>12 DEF ArgsInv

(* The Save of add-launch-arg and rem-launch-arg.                          *)
LEMMA WriteStep ==
    ASSUME ArgsInv, WriteArgs
    PROVE  ArgsInv'
<1>1. /\ cmd.pc = "write" /\ UNCHANGED <<file, added, plain>> /\ cfg' = cmd.mem /\ cmd.mem \in Config
      /\ cfg \in Config /\ cfg'.type = cfg.type /\ cmd' = Idle
  BY DEF ArgsInv, TypeOK, StepInv, WriteArgs, At, Working, mem, End
<1>2. TypeOK' /\ StepInv'
  BY <1>1, NoFileOK DEF ArgsInv, TypeOK, StepInv, Working, mem, Idle
<1>3. PaperInv'
  BY <1>1, NoFileOK DEF ArgsInv, PaperInv, mem, Idle, Flagged, OfUser
<1>4. ScriptInv'
  <2>1. ASSUME plain, IsScript(cfg)'
        PROVE  /\ ValidateConfig(cfg)' /\ Apart(cfg.args)' /\ OfUser(cfg)' /\ file # NoFile
               /\ Range(file) = Configured(cfg)'
    BY <1>1, <2>1, NoFileOK DEF ArgsInv, ScriptInv, IsScript, Working, ValidateConfig, OfUser, Configured, mem
  <2> QED
    BY <1>1, <2>1 DEF ScriptInv, Working, mem, Idle
<1> QED
  BY <1>2, <1>3, <1>4 DEF ArgsInv

(* Arguments of the server itself.                                         *)
LEMMA ServStep ==
    ASSUME ArgsInv, AddAdditionalServArg \/ RemoveAdditionalServArg
    PROVE  ArgsInv'
<1>1. cmd.pc = "idle" /\ cfg \in Config /\ UNCHANGED <<file, cmd, added, plain>>
  BY DEF ArgsInv, TypeOK, AddAdditionalServArg, RemoveAdditionalServArg, At
<1>2. PICK n \in Nat : cfg' = [cfg EXCEPT !.serv = n]
  <2>1. cfg.serv \in Nat
    BY <1>1, Fields
  <2> QED
    BY <2>1 DEF AddAdditionalServArg, RemoveAdditionalServArg
<1>3. /\ cfg' \in Config /\ cfg'.type = cfg.type /\ cfg'.version = cfg.version /\ cfg'.args = cfg.args
      /\ cfg'.ms = cfg.ms /\ cfg'.mx = cfg.mx
  BY <1>1, <1>2 DEF Config
<1>4. TypeOK' /\ StepInv'
  BY <1>1, <1>3, NoFileOK DEF ArgsInv, TypeOK, StepInv, Working, mem
<1>5. PaperInv'
  BY <1>1, <1>3, NoFileOK DEF ArgsInv, PaperInv, mem, Flagged, OfUser
<1>6. ScriptInv'
  BY <1>1, <1>3, NoFileOK DEF ArgsInv, ScriptInv, IsScript, mem, OfUser, ValidateConfig, Configured, Working
<1> QED
  BY <1>4, <1>5, <1>6 DEF ArgsInv

(* set mem-allocated and set mem-max up to their Save.                     *)
LEMMA SetMemoryStep ==
    ASSUME ArgsInv, NEW k \in {"xms", "xmx"}, NEW s \in Sizes, SetMemory(k, s)
    PROVE  ArgsInv'
<1>1. cmd.pc = "idle" /\ cfg \in Config /\ UNCHANGED <<file, added, plain>> /\ ValidateConfig(cfg) /\ cfg # NoFile
  BY DEF ArgsInv, TypeOK, SetMemory, Loads, At
<1>2. /\ cfg' \in Config /\ cfg'.type = cfg.type /\ cfg'.version = cfg.version /\ cfg'.args = cfg.args
      /\ ValidateConfig(cfg')
  <2>1. s # ""
    BY SizesOK
  <2> QED
    BY <1>1, <2>1 DEF SetMemory, Config, ValidateConfig
<1>3. cmd' = IF IsScript(cfg) THEN [op |-> "memory", pc |-> "script", mem |-> NoFile] ELSE cmd
  BY DEF SetMemory, Begin
<1>4. TypeOK'
  BY <1>1, <1>2, <1>3 DEF ArgsInv, TypeOK
<1>5. StepInv'
  BY <1>1, <1>2, <1>3, NoFileOK DEF ArgsInv, StepInv, Working, mem, IsScript, ValidateConfig
<1>6. PaperInv'
  BY <1>1, <1>2, <1>3 DEF ArgsInv, PaperInv, mem, Flagged, OfUser, IsScript, Script
<1>7. ScriptInv'
  <2>1. ASSUME plain, IsScript(cfg), file # NoFile PROVE OfKind(file, "arg") = Range(cfg.args)
    BY <1>1, <2>1, ArgsOfFile DEF ArgsInv, ScriptInv
  <2> QED
    BY <1>1, <1>2, <1>3, <2>1 DEF ArgsInv, ScriptInv, IsScript, mem, OfUser, ValidateConfig, Working
<1> QED
  BY <1>4, <1>5, <1>6, <1>7 DEF ArgsInv

(* The second half of set mem-allocated and set mem-max.                   *)
LEMMA ScriptMemoryStep ==
    ASSUME ArgsInv, ScriptSetJVMMemoryArgs
    PROVE  ArgsInv'
<1>1. /\ cmd.pc = "script" /\ cfg \in Config /\ cfg # NoFile /\ IsScript(cfg) /\ ValidateConfig(cfg)
      /\ UNCHANGED <<cfg, added, plain>> /\ cmd' = Idle
  BY DEF ArgsInv, TypeOK, StepInv, ScriptSetJVMMemoryArgs, At, End
<1>2. CASE file = NoFile /\ file' = file
  <2>1. TypeOK' /\ StepInv'
    BY <1>1, <1>2 DEF ArgsInv, TypeOK, StepInv, Idle, Working
  <2>2. PaperInv' /\ ScriptInv'
    BY <1>1, <1>2 DEF ArgsInv, PaperInv, ScriptInv, IsScript, Script, Idle, OfUser, ValidateConfig, Working
  <2> QED
    BY <2>1, <2>2 DEF ArgsInv
<1>3. CASE file \in Seq(AnyLine) /\ file # NoFile /\ file' = WithMemory(file, cfg)
  <2>1. file' \in Seq(AnyLine) /\ (OfKind(file, "arg") = Range(cfg.args) => Range(file') = Configured(cfg))
    BY <1>1, <1>3, MemoryRange
  <2>2. TypeOK' /\ StepInv'
    BY <1>1, <2>1 DEF ArgsInv, TypeOK, StepInv, Idle, Working
  <2>3. PaperInv'
    BY <1>1 DEF PaperInv, IsScript, Script
  <2>4. ScriptInv'
    BY <1>1, <1>3, <2>1, NoFileOK DEF ArgsInv, ScriptInv, IsScript, Idle, OfUser, ValidateConfig, Configured, Working
  <2> QED
    BY <2>2, <2>3, <2>4 DEF ArgsInv
<1> QED
  BY <1>2, <1>3 DEF ScriptSetJVMMemoryArgs, ArgsInv, TypeOK

(* A command is interrupted between two of its steps.                      *)
LEMMA InterruptStep ==
    ASSUME ArgsInv, Interrupt
    PROVE  ArgsInv'
<1>1. added' \in Seq(UserLines) /\ plain' \in BOOLEAN /\ ~plain'
  BY History DEF ArgsInv, TypeOK, Interrupt
<1>2. cmd' = Idle /\ UNCHANGED <<cfg, file>>
  BY DEF Interrupt, End
<1>3. cfg = NoFile => added' = <<>>
  BY <1>1 DEF Interrupt, Hist
<1>4. TypeOK' /\ StepInv'
  BY <1>1, <1>2, <1>3 DEF ArgsInv, TypeOK, StepInv, Idle, Working
<1> QED
  BY <1>1, <1>4 DEF ArgsInv, PaperInv, ScriptInv

(* rem-launch-arg takes one argument of the user out.                      *)
LEMMA UserRemove ==
    ASSUME NEW a \in Seq(Arguments), NEW i \in DOMAIN a, a[i] \notin AllFlags,
           NEW n, n = Cardinality({j \in 1 .. i : a[j] \notin AllFlags}), NEW u, u = Kept(a, Range(a) \ AllFlags)
    PROVE  /\ Kept(RemoveAt(a, i), AllFlags) = Kept(a, AllFlags)
           /\ n \in 1 .. Len(u)
           /\ Kept(RemoveAt(a, i), Range(RemoveAt(a, i)) \ AllFlags) = RemoveAt(u, n)
<1>1. DOMAIN a = 1 .. Len(a) /\ Len(a) \in Nat
  BY LenProperties
<1>2. i \in 1 .. Len(a)
  BY <1>1
<1>3. Kept(RemoveAt(a, i), AllFlags) = Kept(a, AllFlags)
  <2>1. PICK m : m = Cardinality({j \in 1 .. i : a[j] \in AllFlags})
    OBVIOUS
  <2> QED
    BY <1>2, <2>1, KeptRemove
<1>4. PICK S : S = Range(a) \ AllFlags
  OBVIOUS
<1>5. {j \in 1 .. i : a[j] \notin AllFlags} = {j \in 1 .. i : a[j] \in S}
  <2>1. \A j \in 1 .. i : j \in DOMAIN a
    BY <1>1, <1>2
  <2>2. \A j \in 1 .. i : a[j] \in Range(a)
    BY <2>1 DEF Range
  <2> QED
    BY <1>4, <2>2
<1>6. a[i] \in S
  BY <1>4 DEF Range
<1>7. n \in 1 .. Len(u) /\ Kept(RemoveAt(a, i), S) = RemoveAt(u, n)
  <2>1. n = Cardinality({j \in 1 .. i : a[j] \in S})
    BY <1>5
  <2>2. n \in 1 .. Len(Kept(a, S)) /\ Kept(RemoveAt(a, i), S) = RemoveAt(Kept(a, S), n)
    BY <1>2, <1>6, <2>1, KeptRemove
  <2> QED
    BY <1>4, <2>2
<1>8. Kept(RemoveAt(a, i), Range(RemoveAt(a, i)) \ AllFlags) = Kept(RemoveAt(a, i), S)
  <2>1. PICK r : r = RemoveAt(a, i)
    OBVIOUS
  <2>2. /\ r \in Seq(Arguments) /\ Len(r) = Len(a) - 1
        /\ \A j \in 1 .. Len(a) - 1 : r[j] = IF j < i THEN a[j] ELSE a[j + 1]
    BY <1>2, <2>1, RemoveAtParts
  <2>3. Range(r) \subseteq Range(a)
    <3> SUFFICES ASSUME NEW y \in Range(r) PROVE y \in Range(a)
      OBVIOUS
    <3>1. DOMAIN r = 1 .. Len(a) - 1
      BY <2>2, LenProperties
    <3>2. PICK j \in 1 .. Len(a) - 1 : y = r[j]
      BY <3>1 DEF Range
    <3>3. j \in DOMAIN a /\ j + 1 \in DOMAIN a
      BY <1>1
    <3> QED
      BY <2>2, <3>2, <3>3 DEF Range
  <2>4. r \in Seq(Range(r))
    BY <2>2, SeqOver
  <2>5. Range(r) \cap (Range(r) \ AllFlags) = Range(r) \cap S
    BY <1>4, <2>3
  <2>6. Kept(r, Range(r) \ AllFlags) = Kept(r, S)
    BY <2>4, <2>5, KeptSame
  <2> QED
    BY <2>1, <2>6
<1> QED
  BY <1>3, <1>7, <1>8

(* Removing an argument leaves the others apart.                           *)
LEMMA ApartRemove ==
    ASSUME NEW a \in Seq(Arguments), NEW i \in DOMAIN a, Apart(a)
    PROVE  Apart(RemoveAt(a, i)) /\ Range(RemoveAt(a, i)) = Range(a) \ {a[i]}
<1>1. PICK b, n : b = RemoveAt(a, i) /\ n = Len(a)
  OBVIOUS
<1>2. n \in Nat /\ DOMAIN a = 1 .. n /\ i \in 1 .. n /\ i \in 1 .. Len(a)
  BY <1>1, LenProperties
<1>3. b \in Seq(Arguments) /\ Len(b) = n - 1 /\ \A j \in 1 .. n - 1 : b[j] = IF j < i THEN a[j] ELSE a[j + 1]
  BY <1>1, <1>2, RemoveAtParts
<1>4. DOMAIN b = 1 .. n - 1
  BY <1>3, LenProperties
<1>5. \A j \in 1 .. n - 1 : j \in 1 .. n /\ j + 1 \in 1 .. n
  BY <1>2
<1>6. ASSUME NEW j \in DOMAIN b, NEW k \in DOMAIN b, Fold[b[j]] = Fold[b[k]] PROVE j = k
  <2>1. b[j] = a[IF j < i THEN j ELSE j + 1] /\ b[k] = a[IF k < i THEN k ELSE k + 1]
    BY <1>3, <1>4
  <2>2. (IF j < i THEN j ELSE j + 1) = (IF k < i THEN k ELSE k + 1)
    BY <1>2, <1>4, <1>5, <1>6, <2>1 DEF Apart
  <2> QED
    BY <1>2, <1>4, <2>2
<1>7. ASSUME NEW j \in DOMAIN b PROVE b[j].k = "arg" /\ ~LikeMemory(b[j])
  BY <1>2, <1>3, <1>4, <1>5 DEF Apart
<1>8. \A j \in 1 .. Len(a) : a[j] = a[i] => j = i
  BY <1>1, <1>2 DEF Apart
<1>9. Range(RemoveAt(a, i)) = Range(a) \ {a[i]}
  BY <1>2, <1>8, RemoveRange
<1> QED
  BY <1>1, <1>6, <1>7, <1>9 DEF Apart

(* What ScriptRemoveJVMArg leaves in a file that matches the arguments.    *)
LEMMA WithoutIs ==
    ASSUME NEW f \in Seq(AnyLine), NEW c \in Config, ValidateConfig(c), Range(f) = Configured(c), Apart(c.args),
           NEW l \in Range(c.args)
    PROVE  Range(Without(f, l)) = {Line("xms", c.ms), Line("xmx", c.mx)} \cup (Range(c.args) \ {l})
<1>1. Range(Without(f, l)) = Range(f) \cap {x \in Range(f) : Fold[x] # Fold[l]}
  BY KeptRange DEF Without
<1>2. c.ms \in Sizes /\ c.mx \in Sizes
  BY Fields
<1>3. ~LikeMemory(l)
  BY DEF Apart, Range
<1>4. Fold[Line("xms", c.ms)] # Fold[l] /\ Fold[Line("xmx", c.mx)] # Fold[l]
  BY <1>2, <1>3 DEF LikeMemory
<1>5. \A x \in Range(c.args) : Fold[x] = Fold[l] => x = l
  BY DEF Apart, Range
<1> QED
  BY <1>1, <1>4, <1>5 DEF Configured

(* rem-launch-arg up to its Save: the file has lost the line already.      *)
LEMMA RemoveStep ==
    ASSUME ArgsInv, NEW i, RemoveAdditionalJVMArg(i)
    PROVE  ArgsInv'
<1>1. cmd.pc = "idle" /\ cfg \in Config /\ cfg # NoFile /\ UNCHANGED cfg /\ i \in DOMAIN cfg.args
  BY DEF ArgsInv, TypeOK, RemoveAdditionalJVMArg, At
<1>2. cfg.args \in Seq(Arguments)
  BY <1>1, Fields
<1> DEFINE c == [cfg EXCEPT !.args = RemoveAt(@, i)]
           l == cfg.args[i]
           n == Cardinality({j \in 1 .. i : cfg.args[j] \notin AllFlags})
<1>3. /\ c \in Config /\ c.type = cfg.type /\ c.version = cfg.version /\ c.args = RemoveAt(cfg.args, i)
      /\ c.ms = cfg.ms /\ c.mx = cfg.mx
  <2>1. i \in 1 .. Len(cfg.args)
    BY <1>1, <1>2, LenProperties
  <2>2. RemoveAt(cfg.args, i) \in Seq(Arguments)
    BY <1>2, <2>1, RemoveAtParts
  <2> QED
    BY <1>1, <2>2 DEF Config
<1>4. cmd' = [op |-> "remove", pc |-> "write", mem |-> c]
  BY DEF RemoveAdditionalJVMArg, Begin
<1>5. Hist(IF l \in AllFlags THEN added ELSE RemoveAt(added, n), l \notin AllFlags)
  BY DEF RemoveAdditionalJVMArg
<1>6. /\ IsScript(cfg) => file # NoFile /\ file \in Seq(AnyLine) /\ file' = Without(file, l)
      /\ ~IsScript(cfg) => UNCHANGED file
  BY DEF ArgsInv, TypeOK, RemoveAdditionalJVMArg
<1> HIDE DEF c
<1>7. ASSUME plain, l \notin AllFlags
      PROVE  /\ RemoveAt(added, n) \in Seq(UserLines)
             /\ Kept(c.args, AllFlags) = Kept(cfg.args, AllFlags)
             /\ Kept(c.args, Range(c.args) \ AllFlags) = RemoveAt(added, n)
  <2>1. added = Kept(cfg.args, Range(cfg.args) \ AllFlags)
    BY <1>1, <1>7, Fields DEF ArgsInv, PaperInv, ScriptInv, Flagged, OfUser, IsScript, Script, Types
  <2>2. added \in Seq(UserLines)
    BY DEF ArgsInv, TypeOK
  <2>3. /\ Kept(RemoveAt(cfg.args, i), AllFlags) = Kept(cfg.args, AllFlags)
        /\ n \in 1 .. Len(added)
        /\ Kept(RemoveAt(cfg.args, i), Range(RemoveAt(cfg.args, i)) \ AllFlags) = RemoveAt(added, n)
    <3>1. PICK a \in Seq(Arguments) : a = cfg.args
      BY <1>2
    <3>2. i \in DOMAIN a /\ a[i] \notin AllFlags /\ added = Kept(a, Range(a) \ AllFlags)
      BY <1>1, <1>7, <2>1, <3>1
    <3>3. PICK m : m = Cardinality({j \in 1 .. i : a[j] \notin AllFlags})
      OBVIOUS
    <3>4. /\ Kept(RemoveAt(a, i), AllFlags) = Kept(a, AllFlags)
          /\ m \in 1 .. Len(added)
          /\ Kept(RemoveAt(a, i), Range(RemoveAt(a, i)) \ AllFlags) = RemoveAt(added, m)
      BY <3>2, <3>3, UserRemove
    <3> QED
      BY <3>1, <3>3, <3>4
  <2> HIDE DEF n
  <2>4. RemoveAt(added, n) \in Seq(UserLines)
    BY <2>2, <2>3, RemoveAtParts
  <2> QED
    BY <1>3, <2>3, <2>4
<1> HIDE DEF n
<1>8. /\ added' \in Seq(UserLines) /\ plain' \in BOOLEAN
      /\ plain' => plain /\ l \notin AllFlags /\ added' = RemoveAt(added, n)
  <2>1. PICK ls, exc : /\ ls = IF l \in AllFlags THEN added ELSE RemoveAt(added, n)
                       /\ exc = (l \notin AllFlags)
    OBVIOUS
  <2>2. Hist(ls, l \notin AllFlags)
    BY <1>5, <2>1
  <2>3. plain' => plain /\ l \notin AllFlags
    BY <1>5 DEF Hist
  <2>4. plain' => ls \in Seq(UserLines)
    BY <1>7, <2>1, <2>3
  <2>5. added' \in Seq(UserLines) /\ plain' \in BOOLEAN /\ (plain' => plain /\ l \notin AllFlags /\ added' = ls)
    BY <2>2, <2>4, History
  <2> QED
    BY <2>1, <2>5
<1>9. file' = NoFile \/ file' \in Seq(AnyLine)
  <2>1. ASSUME file \in Seq(AnyLine) PROVE Without(file, l) \in Seq(AnyLine)
    BY <2>1, KeptRange DEF Without
  <2> QED
    BY <1>6, <2>1 DEF ArgsInv, TypeOK
<1>10. TypeOK' /\ StepInv'
  BY <1>1, <1>3, <1>4, <1>8, <1>9, NoFileOK DEF ArgsInv, TypeOK, StepInv, Working, mem
<1>11. ASSUME plain', cfg.type = "paper" PROVE Flagged(cmd.mem)'
  <2>1. Flagged(cfg)
    BY <1>1, <1>8, <1>11 DEF ArgsInv, PaperInv
  <2> QED
    BY <1>3, <1>4, <1>7, <1>8, <1>11, <2>1 DEF Flagged, OfUser
<1>12. PaperInv'
  BY <1>1, <1>4, <1>11 DEF PaperInv, mem
<1>13. ASSUME plain', IsScript(cfg)
       PROVE  /\ ValidateConfig(cfg) /\ Apart(cfg.args) /\ Apart(c.args) /\ OfUser(cmd.mem)'
              /\ file' # NoFile /\ Range(file') = Configured(c)
  <2>1. ValidateConfig(cfg) /\ Apart(cfg.args) /\ Range(file) = Configured(cfg)
    BY <1>1, <1>6, <1>8, <1>13 DEF ArgsInv, ScriptInv
  <2>2. Apart(c.args) /\ Range(c.args) = Range(cfg.args) \ {l}
    BY <1>1, <1>2, <1>3, <2>1, ApartRemove
  <2>3. OfUser(cmd.mem)'
    BY <1>3, <1>4, <1>7, <1>8, <1>13 DEF OfUser
  <2>4. file' # NoFile
    <3>1. Without(file, l) \in Seq(AnyLine)
      BY <1>6, <1>13, KeptRange DEF Without
    <3> QED
      BY <1>6, <1>13, <3>1, NoFileOK
  <2>5. l \in Range(cfg.args)
    BY <1>1 DEF Range
  <2> HIDE DEF l
  <2>6. Range(file') = {Line("xms", cfg.ms), Line("xmx", cfg.mx)} \cup (Range(cfg.args) \ {l})
    BY <1>1, <1>6, <1>13, <2>1, <2>5, WithoutIs
  <2> QED
    BY <1>3, <2>1, <2>2, <2>3, <2>4, <2>6 DEF Configured
<1>14. ScriptInv'
  BY <1>1, <1>3, <1>4, <1>13 DEF ScriptInv, IsScript, Working, ValidateConfig, Apart, Configured, mem
<1> QED
  BY <1>10, <1>12, <1>14 DEF ArgsInv

-----------------------------------------------------------------------------
(* Every step preserves the invariant.                                     *)
LEMMA NextInv == ArgsInv /\ [Next]_vars => ArgsInv'
<1> SUFFICES ASSUME ArgsInv, [Next]_vars PROVE ArgsInv'
  OBVIOUS
<1>1. CASE UNCHANGED vars
  <2>1. UNCHANGED cfg /\ UNCHANGED file /\ UNCHANGED cmd /\ UNCHANGED added /\ UNCHANGED plain
    BY <1>1 DEF vars
  <2>2. TypeOK'
    BY <2>1 DEF ArgsInv, TypeOK
  <2>3. StepInv'
    BY <2>1 DEF ArgsInv, StepInv, mem, IsScript, ValidateConfig
  <2>4. PaperInv'
    BY <2>1 DEF ArgsInv, PaperInv, mem, Flagged, Unflags, OfUser
  <2>5. ScriptInv'
    BY <2>1 DEF ArgsInv, ScriptInv, mem, OfUser, IsScript, ValidateConfig, Configured
  <2> QED
    BY <2>2, <2>3, <2>4, <2>5 DEF ArgsInv
<1>2. CASE Next
  BY <1>2, NewStep, SaveNewStep, GetStep, VersionStep, FailStep, FlagStep, InstallerStep, InstallMemoryStep,
     SaveMemStep, JarStep, AddStep, RemoveStep, WriteStep, ServStep, SetMemoryStep, ScriptMemoryStep,
     InterruptStep DEF Next
<1> QED
  BY <1>1, <1>2

(* The inductive invariant of the launch arguments.                        *)
THEOREM Invariance == Spec => []ArgsInv
  BY InitInv, NextInv, PTL DEF Spec

(* The files and the copy of the configuration stay well-formed.           *)
THEOREM TypeCorrect == Spec => []TypeOK
<1>1. ArgsInv => TypeOK
  BY DEF ArgsInv
<1> QED
  BY <1>1, Invariance, PTL

(* run.sh launches the server with what config.json shows.                 *)
THEOREM ScriptLaunch == Spec => []LaunchMatches
<1>1. ArgsInv => LaunchMatches
  BY DEF ArgsInv, ScriptInv, LaunchMatches, Launched, At
<1> QED
  BY <1>1, Invariance, PTL

(* A paper server has the flags of its version and the user's arguments.   *)
THEOREM PaperLaunch == Spec => []PaperArgs
<1>1. ArgsInv => PaperArgs
  BY DEF ArgsInv, PaperInv, PaperArgs, Flagged, OfUser, At
<1> QED
  BY <1>1, Invariance, PTL

=============================================================================
