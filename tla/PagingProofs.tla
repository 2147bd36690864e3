----------------------------- MODULE PagingProofs -----------------------------
(***************************************************************************)
(* Facts about the ledger's paged scan (FabricPaging) that the proofs of   *)
(* the chaincodes' lookups rest on.  The page a lookup returns is the set  *)
(* of the first n keys of the scan and its bookmark is the least key the   *)
(* page did not fetch, a CHOOSE: that least key exists only because the    *)
(* ledger's key order KeyLess is a strict total order on keys and the      *)
(* world state holds finitely many keys.  These lemmas establish both and  *)
(* conclude that a bookmark is a stored key or the empty tag, and that the *)
(* fetched count is a natural number.                                      *)
(***************************************************************************)
EXTENDS FabricPaging, FiniteSetTheorems, SequenceTheorems, TLAPS

\* Key s agrees with key t on the first m positions.
AgreeUpTo(s, t, m) == \A j \in 1..m : s[j] = t[j]

\* Position i is the first at which key s sorts below key t.
FirstLess(s, t, i) ==
    /\ i \in 1..Len(s) /\ i <= Len(t)
    /\ s[i] < t[i]
    /\ AgreeUpTo(s, t, i - 1)

\* KeyLess without SubSeq: a first smaller position, or a proper prefix.
LEMMA KeyLessUnfold ==
    ASSUME NEW s \in Seq(Nat), NEW t \in Seq(Nat)
    PROVE  KeyLess(s, t) <=>
              \/ \E i \in 1..Len(s) : FirstLess(s, t, i)
              \/ Len(s) < Len(t) /\ AgreeUpTo(s, t, Len(s))
<1>1. Len(s) < Len(t) =>
         (SubSeq(t, 1, Len(s)) = s <=> AgreeUpTo(s, t, Len(s)))
  <2> SUFFICES ASSUME Len(s) < Len(t)
               PROVE  SubSeq(t, 1, Len(s)) = s <=> AgreeUpTo(s, t, Len(s))
    OBVIOUS
  <2>1. /\ SubSeq(t, 1, Len(s)) \in Seq(Nat)
        /\ Len(SubSeq(t, 1, Len(s))) = Len(s)
        /\ \A i \in 1..Len(s) : SubSeq(t, 1, Len(s))[i] = t[i]
    BY SubSeqProperties
  <2>2. AgreeUpTo(s, t, Len(s)) => SubSeq(t, 1, Len(s)) = s
    BY <2>1, SeqEqual DEF AgreeUpTo
  <2>3. QED
    BY <2>1, <2>2 DEF AgreeUpTo
<1>2. QED
  BY <1>1 DEF KeyLess, FirstLess, AgreeUpTo

\* No key sorts below itself.
LEMMA KeyLessIrreflexive ==
    ASSUME NEW s \in Seq(Nat)
    PROVE  ~KeyLess(s, s)
BY KeyLessUnfold DEF FirstLess

\* The key order is transitive.
LEMMA KeyLessTransitive ==
    ASSUME NEW s \in Seq(Nat), NEW t \in Seq(Nat), NEW u \in Seq(Nat),
           KeyLess(s, t), KeyLess(t, u)
    PROVE  KeyLess(s, u)
<1>1. CASE \E i \in 1..Len(s) : FirstLess(s, t, i)
  <2>1. PICK i \in 1..Len(s) : FirstLess(s, t, i)
    BY <1>1
  <2>2. CASE \E j \in 1..Len(t) : FirstLess(t, u, j)
    <3>1. PICK j \in 1..Len(t) : FirstLess(t, u, j)
      BY <2>2
    <3>2. CASE i < j
      <4>1. FirstLess(s, u, i)
        BY <2>1, <3>1, <3>2 DEF FirstLess, AgreeUpTo
      <4>2. QED
        BY <4>1, KeyLessUnfold
    <3>3. CASE j < i
      <4>1. j \in 1..Len(s) /\ FirstLess(s, u, j)
        BY <2>1, <3>1, <3>3 DEF FirstLess, AgreeUpTo
      <4>2. QED
        BY <4>1, KeyLessUnfold
    <3>4. CASE i = j
      <4>1. FirstLess(s, u, i)
        BY <2>1, <3>1, <3>4 DEF FirstLess, AgreeUpTo
      <4>2. QED
        BY <4>1, KeyLessUnfold
    <3>5. QED
      BY <3>2, <3>3, <3>4
  <2>3. CASE Len(t) < Len(u) /\ AgreeUpTo(t, u, Len(t))
    <3>1. FirstLess(s, u, i)
      BY <2>1, <2>3 DEF FirstLess, AgreeUpTo
    <3>2. QED
      BY <3>1, KeyLessUnfold
  <2>4. QED
    BY <2>2, <2>3, KeyLessUnfold
<1>2. CASE Len(s) < Len(t) /\ AgreeUpTo(s, t, Len(s))
  <2>1. CASE \E j \in 1..Len(t) : FirstLess(t, u, j)
    <3>1. PICK j \in 1..Len(t) : FirstLess(t, u, j)
      BY <2>1
    <3>2. CASE j <= Len(s)
      <4>1. j \in 1..Len(s) /\ FirstLess(s, u, j)
        BY <1>2, <3>1, <3>2 DEF FirstLess, AgreeUpTo
      <4>2. QED
        BY <4>1, KeyLessUnfold
    <3>3. CASE j > Len(s)
      <4>1. Len(s) < Len(u)
        BY <3>1, <3>3 DEF FirstLess
      <4>3. AgreeUpTo(s, u, Len(s))
        <5> SUFFICES ASSUME NEW k \in 1..Len(s) PROVE s[k] = u[k]
          BY DEF AgreeUpTo
        <5>1. s[k] = t[k]
          BY <1>2 DEF AgreeUpTo
        <5>2. t[k] = u[k]
          BY <3>1, <3>3 DEF FirstLess, AgreeUpTo
        <5>3. QED
          BY <5>1, <5>2
      <4>2. QED
        BY <4>1, <4>3, KeyLessUnfold, Zenon
    <3>4. QED
      BY <3>2, <3>3
  <2>2. CASE Len(t) < Len(u) /\ AgreeUpTo(t, u, Len(t))
    <3>1. Len(s) < Len(u) /\ AgreeUpTo(s, u, Len(s))
      BY <1>2, <2>2 DEF AgreeUpTo
    <3>2. QED
      BY <3>1, KeyLessUnfold
  <2>3. QED
    BY <2>1, <2>2, KeyLessUnfold
<1>3. QED
  BY <1>1, <1>2, KeyLessUnfold

\* Two distinct keys are ordered one way or the other.
LEMMA KeyLessTotal ==
    ASSUME NEW s \in Seq(Nat), NEW t \in Seq(Nat), s # t
    PROVE  KeyLess(s, t) \/ KeyLess(t, s)
<1> DEFINE D == {i \in 1..Len(s) : i <= Len(t) /\ s[i] # t[i]}
<1>1. CASE D = {}
  <2>1. AgreeUpTo(s, t, IF Len(s) <= Len(t) THEN Len(s) ELSE Len(t))
    BY <1>1 DEF AgreeUpTo
  <2>2. CASE Len(s) < Len(t)
    BY <2>1, <2>2, KeyLessUnfold DEF AgreeUpTo
  <2>3. CASE Len(t) < Len(s)
    BY <2>1, <2>3, KeyLessUnfold DEF AgreeUpTo
  <2>4. CASE Len(s) = Len(t)
    <3>1. s = t
      BY <2>1, <2>4, SeqEqual DEF AgreeUpTo
    <3>2. QED
      BY <3>1
  <2>5. QED
    BY <2>2, <2>3, <2>4
<1>2. CASE D # {}
  <2>1. PICK i \in D : \A y \in D : ~(<<y, i>> \in OpToRel(<, Nat))
    <3>1. IsWellFoundedOn(OpToRel(<, Nat), Nat)
      BY NatLessThanWellFounded
    <3>2. D \subseteq Nat
      OBVIOUS
    <3>3. QED
      BY <1>2, <3>1, <3>2, WFMin, Zenon
  <2>2. AgreeUpTo(s, t, i - 1)
    <3> SUFFICES ASSUME NEW j \in 1..(i - 1), s[j] # t[j] PROVE FALSE
      BY DEF AgreeUpTo
    <3>1. j \in D /\ <<j, i>> \in OpToRel(<, Nat)
      BY DEF OpToRel
    <3>2. QED
      BY <2>1, <3>1
  <2>3. CASE s[i] < t[i]
    <3>1. i \in 1..Len(s) /\ FirstLess(s, t, i)
      BY <2>2, <2>3 DEF FirstLess
    <3>2. QED
      BY <3>1, KeyLessUnfold
  <2>4. CASE t[i] < s[i]
    <3>1. i \in 1..Len(t) /\ FirstLess(t, s, i)
      BY <2>2, <2>4 DEF FirstLess, AgreeUpTo
    <3>2. QED
      BY <3>1, KeyLessUnfold
  <2>5. QED
    BY <2>3, <2>4
<1>3. QED
  BY <1>1, <1>2

(***************************************************************************)
(* A finite non-empty set of keys has a least key.  The proof takes a key  *)
(* with the fewest keys of the set below it; a key below that one would    *)
(* have fewer still, by transitivity, so there is none, and by totality    *)
(* the chosen key lies below every other.                                  *)
(***************************************************************************)
LEMMA LeastKey ==
    ASSUME NEW T \in SUBSET Seq(Nat), IsFiniteSet(T), T # {}
    PROVE  \E k \in T : \A j \in T : k = j \/ KeyLess(k, j)
<1> DEFINE Below(x) == {y \in T : KeyLess(y, x)}
           c(x) == Cardinality(Below(x))
           C == {c(x) : x \in T}
<1>1. \A x \in T : IsFiniteSet(Below(x)) /\ c(x) \in Nat
  BY FS_Subset, FS_CardinalityType
<1>2. C \subseteq Nat /\ C # {}
  BY <1>1
<1>3. PICK m \in C : \A y \in C : ~(<<y, m>> \in OpToRel(<, Nat))
  <2>1. IsWellFoundedOn(OpToRel(<, Nat), Nat)
    BY NatLessThanWellFounded
  <2>2. QED
    BY <1>2, <2>1, WFMin, Zenon
<1>4. PICK x \in T : c(x) = m
  BY <1>3
<1>5. Below(x) = {}
  <2> SUFFICES ASSUME NEW y \in Below(x) PROVE FALSE
    OBVIOUS
  <2>1. Below(y) \subseteq Below(x) \ {y}
    BY KeyLessTransitive, KeyLessIrreflexive
  <2>2. IsFiniteSet(Below(x) \ {y}) /\ Cardinality(Below(x) \ {y}) = c(x) - 1
    BY <1>1, FS_RemoveElement
  <2>3. c(y) <= c(x) - 1
    BY <2>1, <2>2, FS_Subset
  <2>4. c(y) \in C /\ c(y) \in Nat /\ m \in Nat
    BY <1>1, <1>2
  <2>5. <<c(y), m>> \in OpToRel(<, Nat)
    BY <1>4, <2>3, <2>4 DEF OpToRel
  <2>6. QED
    BY <1>3, <2>4, <2>5
<1>6. \A j \in T : x = j \/ KeyLess(x, j)
  BY <1>5, KeyLessTotal
<1>7. QED
  BY <1>6

\* The scan, and hence a page, visits only stored keys.
LEMMA ScanInKeys ==
    ASSUME NEW keys, NEW p, NEW b, NEW n, NEW none
    PROVE  /\ ScanRange(keys, p, b, none) \subseteq keys
           /\ Fetched(keys, p, b, n, none) \subseteq keys
BY DEF ScanRange, Fetched

\* Over finitely many stored keys a page is finite, so its size is a count.
LEMMA FetchedCount ==
    ASSUME NEW keys, IsFiniteSet(keys), NEW p, NEW b, NEW n, NEW none
    PROVE  /\ IsFiniteSet(Fetched(keys, p, b, n, none))
           /\ Cardinality(Fetched(keys, p, b, n, none)) \in Nat
BY ScanInKeys, FS_Subset, FS_CardinalityType

(***************************************************************************)
(* The bookmark a page returns is a stored key or the empty tag: over      *)
(* finitely many keys the rest of the scan, when not empty, has a least    *)
(* key, which is what NextBookmark chooses.                                *)
(***************************************************************************)
LEMMA BookmarkInKeys ==
    ASSUME NEW keys \in SUBSET Seq(Nat), IsFiniteSet(keys),
           NEW p, NEW b, NEW n, NEW none
    PROVE  NextBookmark(keys, p, b, n, none) \in keys \cup {none}
<1> DEFINE rest == ScanRange(keys, p, b, none) \ Fetched(keys, p, b, n, none)
<1>1. rest \subseteq keys /\ IsFiniteSet(rest)
  BY ScanInKeys, FS_Subset
<1>2. CASE rest = {}
  BY <1>2 DEF NextBookmark
<1>3. CASE rest # {}
  <2>1. \E k \in rest : \A j \in rest : k = j \/ KeyLess(k, j)
    BY <1>1, <1>3, LeastKey
  <2>2. (CHOOSE k \in rest : \A j \in rest : k = j \/ KeyLess(k, j)) \in rest
    BY <2>1
  <2>3. QED
    BY <1>1, <1>3, <2>2 DEF NextBookmark
<1>4. QED
  BY <1>2, <1>3

\* A key below another does not exceed it in its first attribute.
LEMMA KeyLessFirst ==
    ASSUME NEW s \in Seq(Nat), NEW t \in Seq(Nat), Len(s) >= 1, Len(t) >= 1,
           KeyLess(s, t)
    PROVE  s[1] <= t[1]
<1>1. CASE \E i \in 1..Len(s) : FirstLess(s, t, i)
  <2>1. PICK i \in 1..Len(s) : FirstLess(s, t, i)
    BY <1>1
  <2>2. CASE i = 1
    BY <2>1, <2>2 DEF FirstLess
  <2>3. CASE i > 1
    BY <2>1, <2>3 DEF FirstLess, AgreeUpTo
  <2>4. QED
    BY <2>2, <2>3
<1>2. CASE Len(s) < Len(t) /\ AgreeUpTo(s, t, Len(s))
  BY <1>2 DEF AgreeUpTo
<1>3. QED
  BY <1>1, <1>2, KeyLessUnfold

(***************************************************************************)
(* A scan of the range of the one-attribute partial key <<a>>, started     *)
(* from the empty bookmark or from a key whose first attribute is a,       *)
(* visits only keys whose first attribute is a: the start bounds the      *)
(* first attribute from below and the end of the range from above.         *)
(***************************************************************************)
LEMMA ScanFirstAttr ==
    ASSUME NEW keys \in SUBSET Seq(Nat), \A k \in keys : Len(k) >= 1,
           NEW a \in Nat, NEW none, none \notin Seq(Nat),
           NEW b, b = none \/ (b \in Seq(Nat) /\ Len(b) >= 1 /\ b[1] = a)
    PROVE  \A k \in ScanRange(keys, <<a>>, b, none) : k[1] = a
<1> SUFFICES ASSUME NEW k \in ScanRange(keys, <<a>>, b, none) PROVE k[1] = a
  OBVIOUS
<1> DEFINE start == IF b = none THEN <<a>> ELSE b
<1>1. /\ k \in keys
      /\ k = start \/ KeyLess(start, k)
      /\ HasPrefix(k, <<a>>) \/ KeyLess(k, <<a>>)
  BY DEF ScanRange
<1>2. k \in Seq(Nat) /\ Len(k) >= 1 /\ k[1] \in Nat
  BY <1>1
<1>3. start \in Seq(Nat) /\ Len(start) >= 1 /\ start[1] = a
  BY DEF start
<1>4. a <= k[1]
  <2>1. CASE k = start
    BY <2>1, <1>3
  <2>2. CASE KeyLess(start, k)
    BY <2>2, <1>2, <1>3, KeyLessFirst
  <2>3. QED
    BY <1>1, <2>1, <2>2
<1>5. k[1] <= a
  <2>0. <<a>> \in Seq(Nat) /\ Len(<<a>>) = 1 /\ <<a>>[1] = a
    OBVIOUS
  <2>1. CASE HasPrefix(k, <<a>>)
    <3>1. SubSeq(k, 1, 1)[1] = k[1]
      BY <1>2, SubSeqProperties
    <3>2. SubSeq(k, 1, 1) = <<a>>
      BY <2>0, <2>1 DEF HasPrefix
    <3>3. k[1] = a
      BY <2>0, <3>1, <3>2, Zenon
    <3>4. QED
      BY <3>3
  <2>4. CASE KeyLess(k, <<a>>)
    <3>0. /\ k \in Seq(Nat) /\ Len(k) >= 1
          /\ <<a>> \in Seq(Nat) /\ Len(<<a>>) >= 1
          /\ KeyLess(k, <<a>>)
      BY <2>0, <2>4, <1>2
    <3>1. k[1] <= <<a>>[1]
      BY <3>0, KeyLessFirst, Zenon
    <3>2. QED
      BY <3>1, <2>0
  <2>5. QED
    BY <1>1, <2>1, <2>4
<1>6. QED
  BY <1>4, <1>5, <1>2

(***************************************************************************)
(* A page holds the first n keys of the scan: every fetched key sorts     *)
(* below every key of the scan left out of the page.  A key b left out    *)
(* that sorted below a fetched key k would have fewer keys below it than  *)
(* k has, hence fewer than n, and would have been fetched.                 *)
(***************************************************************************)
LEMMA FetchedBelowRest ==
    ASSUME NEW keys \in SUBSET Seq(Nat), IsFiniteSet(keys),
           NEW p, NEW b, NEW n \in Nat, NEW none,
           NEW k \in Fetched(keys, p, b, n, none),
           NEW r \in ScanRange(keys, p, b, none) \ Fetched(keys, p, b, n, none)
    PROVE  KeyLess(k, r)
<1> DEFINE R == ScanRange(keys, p, b, none)
           Below(x) == {j \in R : KeyLess(j, x)}
<1>1. R \subseteq keys /\ IsFiniteSet(R)
  BY ScanInKeys, FS_Subset
<1>2. k \in R /\ Cardinality(Below(k)) < n /\ ~(Cardinality(Below(r)) < n)
  BY DEF Fetched
<1>3. k # r
  BY <1>2
<1> SUFFICES ASSUME KeyLess(r, k) PROVE FALSE
  BY <1>1, <1>2, <1>3, KeyLessTotal
<1>4. Below(r) \subseteq Below(k) \ {r}
  BY <1>1, <1>2, KeyLessTransitive, KeyLessIrreflexive
<1>5. /\ IsFiniteSet(Below(k)) /\ Cardinality(Below(k)) \in Nat
      /\ Cardinality(Below(r)) \in Nat
  BY <1>1, FS_Subset, FS_CardinalityType
<1>6. Cardinality(Below(k) \ {r}) = Cardinality(Below(k)) - 1
  <2>1. r \in Below(k)
    OBVIOUS
  <2>2. QED
    BY <2>1, <1>5, FS_RemoveElement
<1>7. Cardinality(Below(r)) <= Cardinality(Below(k)) - 1
  BY <1>4, <1>5, <1>6, FS_Subset
<1>8. QED
  BY <1>2, <1>5, <1>7

\* A page of n + 1 keys holds the page of n keys from the same bookmark.
LEMMA FetchedGrows ==
    ASSUME NEW keys, IsFiniteSet(keys), NEW p, NEW b, NEW n \in Nat, NEW none
    PROVE  Fetched(keys, p, b, n, none) \subseteq Fetched(keys, p, b, n + 1, none)
<1> DEFINE R == ScanRange(keys, p, b, none)
<1>1. \A k \in R : Cardinality({j \in R : KeyLess(j, k)}) \in Nat
  BY ScanInKeys, FS_Subset, FS_CardinalityType
<1>2. QED
  BY <1>1 DEF Fetched

\* The bookmark a page returns is the empty tag or a key of the scan the
\* page left out.
LEMMA BookmarkInRest ==
    ASSUME NEW keys \in SUBSET Seq(Nat), IsFiniteSet(keys),
           NEW p, NEW b, NEW n, NEW none
    PROVE  \/ NextBookmark(keys, p, b, n, none) = none
           \/ NextBookmark(keys, p, b, n, none)
                \in ScanRange(keys, p, b, none) \ Fetched(keys, p, b, n, none)
<1> DEFINE rest == ScanRange(keys, p, b, none) \ Fetched(keys, p, b, n, none)
<1>1. rest \subseteq Seq(Nat) /\ IsFiniteSet(rest)
  BY ScanInKeys, FS_Subset
<1>2. CASE rest = {}
  BY <1>2 DEF NextBookmark
<1>3. CASE rest # {}
  <2>1. \E k \in rest : \A j \in rest : k = j \/ KeyLess(k, j)
    BY <1>1, <1>3, LeastKey
  <2>2. (CHOOSE k \in rest : \A j \in rest : k = j \/ KeyLess(k, j)) \in rest
    BY <2>1
  <2>3. QED
    BY <1>3, <2>2 DEF NextBookmark
<1>4. QED
  BY <1>2, <1>3

(***************************************************************************)
(* The bookmark of a page read from a bookmark b lies strictly beyond b:   *)
(* if b is still stored it is the first key of its own scan, so a page of *)
(* at least one key fetches it and the bookmark is a later key.            *)
(***************************************************************************)
LEMMA BookmarkAdvances ==
    ASSUME NEW keys \in SUBSET Seq(Nat), IsFiniteSet(keys),
           NEW p, NEW none, NEW b \in Seq(Nat), b # none, NEW n \in Nat \ {0},
           NextBookmark(keys, p, b, n, none) # none
    PROVE  KeyLess(b, NextBookmark(keys, p, b, n, none))
<1> DEFINE R == ScanRange(keys, p, b, none)
           bm == NextBookmark(keys, p, b, n, none)
<1>1. bm \in R /\ bm \notin Fetched(keys, p, b, n, none)
  BY BookmarkInRest
<1>2. bm = b \/ KeyLess(b, bm)
  BY <1>1 DEF ScanRange
<1> SUFFICES ASSUME bm = b PROVE FALSE
  BY <1>2
<1>3. {j \in R : KeyLess(j, b)} = {}
  <2> SUFFICES ASSUME NEW j \in R, KeyLess(j, b) PROVE FALSE
    OBVIOUS
  <2>1. j \in Seq(Nat) /\ (j = b \/ KeyLess(b, j))
    BY ScanInKeys DEF ScanRange
  <2>2. QED
    BY <2>1, KeyLessIrreflexive, KeyLessTransitive
<1>4. Cardinality({j \in R : KeyLess(j, b)}) < n
  <2>1. Cardinality({}) = 0
    BY FS_EmptySet
  <2>2. Cardinality({j \in R : KeyLess(j, b)}) = 0
    BY <1>3, <2>1
  <2>3. QED
    BY <2>2
<1>5. QED
  BY <1>1, <1>4 DEF Fetched
=============================================================================
