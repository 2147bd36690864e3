---------------------------- MODULE FabricPaging ----------------------------
(***************************************************************************)
(* The ledger's paged range scan over a composite-key namespace, as the    *)
(* chaincodes consume it through                                           *)
(*   GetStateByPartialCompositeKeyWithPagination(objectType, attrs,        *)
(*                                               pageSize, bookmark)       *)
(* (spec.md section 6: scanByPrefixPaged).  The ledger itself is not part  *)
(* of this repository; these operators state its contract.                 *)
(*                                                                         *)
(* A composite key is the tuple of its encoded attributes.  Each attribute *)
(* is abstracted to a natural number whose order is the order of its      *)
(* fixed-width encoding, and the ledger joins attributes with a U+0000     *)
(* delimiter, so the ledger's byte order on keys is the component-wise     *)
(* lexicographic order below, a proper prefix coming first.               *)
(***************************************************************************)
EXTENDS Naturals, Sequences, FiniteSets

\* Key s sorts strictly before key t.
KeyLess(s, t) ==
    \/ \E i \in 1..Len(s) :
          /\ i <= Len(t)
          /\ s[i] < t[i]
          /\ \A j \in 1..(i - 1) : s[j] = t[j]
    \/ /\ Len(s) < Len(t)
       /\ SubSeq(t, 1, Len(s)) = s

\* Key k lies in the namespace range of the partial key p.
HasPrefix(k, p) == Len(p) <= Len(k) /\ SubSeq(k, 1, Len(p)) = p

(***************************************************************************)
(* The keys the scan visits: from the bookmark, or from the start of the   *)
(* partial key's range when the bookmark is empty (none), up to the end of *)
(* the partial key's range.  The ledger does not check that the bookmark   *)
(* lies inside that range: a bookmark before it makes the scan visit the   *)
(* keys in between.                                                        *)
(***************************************************************************)
ScanRange(keys, p, bookmark, none) ==
    LET start == IF bookmark = none THEN p ELSE bookmark
    IN  {k \in keys : /\ k = start \/ KeyLess(start, k)
                      /\ HasPrefix(k, p) \/ KeyLess(k, p)}

\* The first n keys of the scan, which is what one page fetches.
Fetched(keys, p, bookmark, n, none) ==
    LET R == ScanRange(keys, p, bookmark, none)
    IN  {k \in R : Cardinality({j \in R : KeyLess(j, k)}) < n}

\* The bookmark the page returns: the first key it did not fetch, or none.
NextBookmark(keys, p, bookmark, n, none) ==
    LET rest == ScanRange(keys, p, bookmark, none) \ Fetched(keys, p, bookmark, n, none)
    IN  IF rest = {} THEN none
        ELSE CHOOSE k \in rest : \A j \in rest : k = j \/ KeyLess(k, j)

=============================================================================
