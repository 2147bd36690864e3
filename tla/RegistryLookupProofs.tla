------------------------ MODULE RegistryLookupProofs ------------------------
(***************************************************************************)
(* Proofs about registryLookUp / registryLookUpNext (RegistryLookup), for  *)
(* all values of the constants that satisfy RegistryAssumption and         *)
(* LookupAssumption.                                                       *)
(*                                                                         *)
(* PagerSound is not inductive: that the next page repeats no id already   *)
(* received rests on where the tag points.  PInv adds that while a session *)
(* pages, its tag is a key of the filtered appTypeId and every id received *)
(* so far sorts below it, so the scan from the tag, which starts at the    *)
(* tag, cannot meet them again; the ledger's bookmark is the least key the *)
(* page left out, which lies above every key the page fetched and at or   *)
(* above the old tag.  While no write touched the index the base is still  *)
(* what matches the filter, so each page stays inside it.  The bookmark is *)
(* a CHOOSE of a least key, which exists because the index is finite.      *)
(***************************************************************************)
EXTENDS RegistryLookup, RegistryProofs, PagingProofs, TLAPS

PInv ==
    /\ LookupTypeOK
    /\ IsFiniteSet(index)
    /\ ~pager.dup
    /\ pager.phase = "paging" =>
          /\ pager.tag # NoTag /\ pager.tag[1] = pager.filter
          /\ \A o \in pager.got : KeyLess(<<pager.filter, o>>, pager.tag)
    /\ pager.stable => pager.got \subseteq pager.base
    /\ pager.stable /\ pager.phase = "paging" =>
          pager.base = Matching(pager.filter)

\* An index key is a pair of naturals: a key of the ledger of length 2.
LEMMA PairKey ==
    ASSUME NEW x \in AppIds \X Orgs
    PROVE  /\ x \in Seq(Nat) /\ Len(x) = 2
           /\ x = <<x[1], x[2]>> /\ x[1] \in AppIds /\ x[2] \in Orgs
<1>1. x \in [1..2 -> Nat]
  <2>1. PICK u \in AppIds, v \in Orgs : x = <<u, v>>
    OBVIOUS
  <2>2. QED
    BY <2>1, RegistryAssumption
<1>2. x \in UNION {[1..n -> Nat] : n \in Nat}
  BY <1>1
<1>3. x \in Seq(Nat)
  BY <1>2, SeqDef, Zenon
<1>4. QED
  BY <1>3

(***************************************************************************)
(* One page of a lookup of appTypeId a, from the empty tag or from a key   *)
(* of a: its ids match a and hold no orgID twice, each comes from a key at *)
(* or above the tag, and its lookupTag is empty or a key of a, at or above *)
(* the tag and above every key the page returned.                          *)
(***************************************************************************)
LEMMA PageFacts ==
    ASSUME PInv, NEW a \in AppIds, NEW tag,
           tag = NoTag \/ (tag \in AppIds \X Orgs /\ tag[1] = a)
    PROVE  LET page == LookUpPage(a, tag)
           IN  /\ page.ids \subseteq Matching(a)
               /\ ~page.repeats
               /\ tag # NoTag =>
                     \A o \in page.ids : <<a, o>> = tag \/ KeyLess(tag, <<a, o>>)
               /\ \/ page.lookupTag = NoTag
                  \/ /\ page.lookupTag \in index /\ page.lookupTag[1] = a
                     /\ tag # NoTag =>
                          tag = page.lookupTag \/ KeyLess(tag, page.lookupTag)
                     /\ \A o \in page.ids : KeyLess(<<a, o>>, page.lookupTag)
<1> DEFINE R == ScanRange(index, <<a>>, tag, NoTag)
           kept == Fetched(index, <<a>>, tag, PAGESIZE, NoTag)
           F1 == Fetched(index, <<a>>, tag, PAGESIZE + 1, NoTag)
           bm == NextBookmark(index, <<a>>, tag, PAGESIZE + 1, NoTag)
<1>1. /\ index \subseteq AppIds \X Orgs /\ IsFiniteSet(index)
      /\ index \subseteq Seq(Nat) /\ \A k \in index : Len(k) >= 1
  BY PairKey DEF PInv, LookupTypeOK, TypeOK
<1>2. \A k \in R : k[1] = a
  <2>1. a \in Nat /\ NoTag \notin Seq(Nat)
    BY RegistryAssumption, LookupAssumption
  <2>2. tag = NoTag \/ (tag \in Seq(Nat) /\ Len(tag) >= 1 /\ tag[1] = a)
    BY PairKey
  <2>3. QED
    BY <1>1, <2>1, <2>2, ScanFirstAttr
<1>3. kept \subseteq F1 /\ F1 \subseteq R /\ R \subseteq index
  <2>1. PAGESIZE \in Nat
    BY LookupAssumption
  <2>2. kept \subseteq F1
    BY <1>1, <2>1, FetchedGrows
  <2>3. F1 \subseteq R
    BY DEF Fetched
  <2>4. QED
    BY <2>2, <2>3, ScanInKeys
<1>4. \A k \in R : k = <<a, k[2]>> /\ k[2] \in Orgs /\ k \in Seq(Nat)
  BY <1>1, <1>2, <1>3, PairKey
<1>5. LookUpPage(a, tag) =
        [ids |-> {k[2] : k \in kept},
         repeats |-> \E k, j \in kept : k # j /\ k[2] = j[2],
         lookupTag |-> bm, totalCount |-> Cardinality(F1)]
  BY DEF LookUpPage
<1>6. {k[2] : k \in kept} \subseteq Matching(a)
  BY <1>3, <1>4 DEF Matching
<1>7. ~\E k, j \in kept : k # j /\ k[2] = j[2]
  BY <1>3, <1>4
<1>8. tag # NoTag =>
        \A o \in {k[2] : k \in kept} : <<a, o>> = tag \/ KeyLess(tag, <<a, o>>)
  BY <1>3, <1>4 DEF ScanRange
<1>9. bm = NoTag \/ bm \in R \ F1
  BY <1>1, BookmarkInRest
<1>10. bm \in R \ F1 =>
         /\ bm \in index /\ bm[1] = a
         /\ tag # NoTag => tag = bm \/ KeyLess(tag, bm)
         /\ \A o \in {k[2] : k \in kept} : KeyLess(<<a, o>>, bm)
  <2> SUFFICES ASSUME bm \in R \ F1
               PROVE  /\ bm \in index /\ bm[1] = a
                      /\ tag # NoTag => tag = bm \/ KeyLess(tag, bm)
                      /\ \A o \in {k[2] : k \in kept} : KeyLess(<<a, o>>, bm)
    OBVIOUS
  <2>1. bm \in index /\ bm[1] = a
    BY <1>2, <1>3
  <2>2. tag # NoTag => tag = bm \/ KeyLess(tag, bm)
    BY DEF ScanRange
  <2>3. \A k \in F1 : KeyLess(k, bm)
    <3>1. PAGESIZE + 1 \in Nat
      BY LookupAssumption
    <3>2. QED
      BY <1>1, <3>1, FetchedBelowRest
  <2>4. \A o \in {k[2] : k \in kept} : KeyLess(<<a, o>>, bm)
    BY <1>3, <1>4, <2>3
  <2>5. QED
    BY <2>1, <2>2, <2>4
<1>11. QED
  BY <1>5, <1>6, <1>7, <1>8, <1>9, <1>10

\* The index keys of one record are finitely many: its appTypeIds list is.
LEMMA IndexKeysFinite ==
    ASSUME NEW o \in Orgs, NEW apps \in AppLists
    PROVE  IsFiniteSet(IndexKeys(o, apps))
<1> DEFINE f == [x \in apps |-> <<x, o>>]
<1>1. f \in Surjection(apps, IndexKeys(o, apps))
  BY DEF Surjection, IndexKeys
<1>2. QED
  BY <1>1, FS_Surjection DEF AppLists

LEMMA InitPInv == LookupInit => PInv
<1> SUFFICES ASSUME LookupInit PROVE PInv
  OBVIOUS
<1>1. (CHOOSE a \in AppIds : TRUE) \in AppIds
  BY LookupAssumption
<1>2. TypeOK /\ index = {}
  BY DEF LookupInit, Init, TypeOK
<1>3. QED
  BY <1>1, <1>2, FS_EmptySet DEF LookupInit, PInv, LookupTypeOK, PagerRec

(***************************************************************************)
(* registryAdd / registryUpdate: the index changes, a paging session       *)
(* loses its stability, and the tag and the ids received stay as they     *)
(* were.                                                                   *)
(***************************************************************************)
LEMMA WriteStep ==
    ASSUME PInv, NEW o \in Orgs, NEW apps \in AppLists,
           RegistryAdd(o, apps) \/ RegistryUpdate(o, apps), Touch
    PROVE  PInv'
<1>1. TypeOK'
  BY AddTypeOK, UpdateTypeOK DEF PInv, LookupTypeOK
<1>2. IsFiniteSet(index')
  <2>1. IsFiniteSet(IndexKeys(o, apps)) /\ IsFiniteSet(index)
    BY IndexKeysFinite DEF PInv
  <2>2. IsFiniteSet(index \cup IndexKeys(o, apps))
    BY <2>1, FS_Union
  <2>3. IsFiniteSet((index \ IndexKeys(o, registry[o].apps)) \cup IndexKeys(o, apps))
    BY <2>1, FS_Subset, FS_Union
  <2>4. QED
    BY <2>2, <2>3 DEF RegistryAdd, RegistryUpdate
<1>3. CASE pager.phase = "paging"
  BY <1>1, <1>2, <1>3 DEF PInv, LookupTypeOK, PagerRec, Touch
<1>4. CASE pager.phase # "paging"
  BY <1>1, <1>2, <1>4 DEF PInv, LookupTypeOK, Touch
<1>5. QED
  BY <1>3, <1>4

\* registrySetStatus changes neither the index nor the session.
LEMMA SetStatusStep ==
    ASSUME PInv, NEW o \in Orgs, NEW s \in StatusInputs,
           RegistrySetStatus(o, s), UNCHANGED pager
    PROVE  PInv'
<1>1. TypeOK'
  BY SetStatusTypeOK DEF PInv, LookupTypeOK
<1>2. QED
  BY <1>1 DEF PInv, LookupTypeOK, RegistrySetStatus, Matching

\* registryLookUp starts a session from the empty tag.
LEMMA LookUpStep ==
    ASSUME PInv, NEW a \in AppIds, RegistryLookUp(a)
    PROVE  PInv'
<1> DEFINE page == LookUpPage(a, NoTag)
<1>1. /\ page.ids \subseteq Matching(a)
      /\ ~page.repeats
      /\ \/ page.lookupTag = NoTag
         \/ /\ page.lookupTag \in index /\ page.lookupTag[1] = a
            /\ \A o \in page.ids : KeyLess(<<a, o>>, page.lookupTag)
  BY PageFacts
<1>2. pager' = [phase |-> PhaseAfter(page), filter |-> a,
                tag |-> page.lookupTag, got |-> page.ids,
                dup |-> page.repeats, base |-> Matching(a), stable |-> TRUE]
      /\ UNCHANGED <<registry, index>>
  BY DEF RegistryLookUp, vars
<1>3. page.repeats \in BOOLEAN
  BY DEF LookUpPage
<1>4. pager' \in PagerRec
  <2>1. page.lookupTag \in (AppIds \X Orgs) \cup {NoTag}
    BY <1>1 DEF PInv, LookupTypeOK, TypeOK
  <2>2. Matching(a) \subseteq Orgs /\ page.ids \subseteq Orgs
    BY <1>1 DEF Matching
  <2>3. PhaseAfter(page) \in {"idle", "paging", "done"}
    BY DEF PhaseAfter
  <2>4. QED
    BY <1>2, <1>3, <2>1, <2>2, <2>3 DEF PagerRec
<1>5. LookupTypeOK' /\ IsFiniteSet(index')
  BY <1>2, <1>4 DEF PInv, LookupTypeOK, TypeOK
<1>6. pager'.phase = "paging" =>
        /\ pager'.tag # NoTag /\ pager'.tag[1] = pager'.filter
        /\ \A o \in pager'.got : KeyLess(<<pager'.filter, o>>, pager'.tag)
  BY <1>1, <1>2 DEF PhaseAfter
<1>7. Matching(a)' = Matching(a)
  BY <1>2 DEF Matching
<1>8. QED
  BY <1>1, <1>2, <1>5, <1>6, <1>7 DEF PInv

(***************************************************************************)
(* registryLookUpNext continues the session from its tag.  The page meets  *)
(* no id received before: such an id's key sorts below the tag, and the   *)
(* page's keys lie at or above it.  The new tag lies at or above the old   *)
(* one and above every key of the page, so every id received stays below  *)
(* it.                                                                     *)
(***************************************************************************)
LEMMA LookUpNextStep ==
    ASSUME PInv, RegistryLookUpNext
    PROVE  PInv'
<1> DEFINE f == pager.filter
           t == pager.tag
           page == LookUpPage(f, t)
           lt == page.lookupTag
<1>1. /\ pager.phase = "paging" /\ f \in AppIds /\ pager.got \subseteq Orgs
      /\ t \in AppIds \X Orgs /\ t[1] = f
      /\ \A o \in pager.got : KeyLess(<<f, o>>, t)
  BY DEF RegistryLookUpNext, PInv, LookupTypeOK, PagerRec
<1>2. /\ page.ids \subseteq Matching(f)
      /\ ~page.repeats
      /\ \A o \in page.ids : <<f, o>> = t \/ KeyLess(t, <<f, o>>)
      /\ \/ lt = NoTag
         \/ /\ lt \in index /\ lt[1] = f
            /\ t = lt \/ KeyLess(t, lt)
            /\ \A o \in page.ids : KeyLess(<<f, o>>, lt)
  <2>1. t # NoTag
    BY <1>1 DEF PInv
  <2>2. QED
    BY <1>1, <2>1, PageFacts
<1>3. /\ pager' = [pager EXCEPT !.phase = PhaseAfter(page), !.tag = lt,
                                !.got = @ \cup page.ids,
                                !.dup = @ \/ page.repeats
                                          \/ page.ids \cap pager.got # {}]
      /\ UNCHANGED <<registry, index>>
  BY DEF RegistryLookUpNext, vars
<1>4. index \subseteq AppIds \X Orgs /\ page.ids \subseteq Orgs
  BY <1>2 DEF PInv, LookupTypeOK, TypeOK, Matching
<1>5. t \in Seq(Nat) /\ \A o \in Orgs : <<f, o>> \in Seq(Nat)
  BY <1>1, PairKey
<1>6. page.ids \cap pager.got = {}
  <2> SUFFICES ASSUME NEW o \in page.ids \cap pager.got PROVE FALSE
    OBVIOUS
  <2>1. KeyLess(<<f, o>>, t) /\ <<f, o>> \in Seq(Nat)
    BY <1>1, <1>4, <1>5
  <2>2. CASE <<f, o>> = t
    BY <2>1, <2>2, KeyLessIrreflexive
  <2>3. CASE KeyLess(t, <<f, o>>)
    BY <2>1, <2>3, <1>5, KeyLessTransitive, KeyLessIrreflexive
  <2>4. QED
    BY <1>2, <2>2, <2>3
<1>7. lt # NoTag =>
        /\ lt \in AppIds \X Orgs /\ lt[1] = f
        /\ \A o \in pager.got \cup page.ids : KeyLess(<<f, o>>, lt)
  <2> SUFFICES ASSUME lt # NoTag
               PROVE  /\ lt \in AppIds \X Orgs /\ lt[1] = f
                      /\ \A o \in pager.got \cup page.ids : KeyLess(<<f, o>>, lt)
    OBVIOUS
  <2>1. lt \in AppIds \X Orgs /\ lt[1] = f /\ lt \in Seq(Nat)
    BY <1>2, <1>4, PairKey
  <2>2. \A o \in pager.got : KeyLess(<<f, o>>, lt)
    BY <1>1, <1>2, <1>5, <2>1, KeyLessTransitive
  <2>3. QED
    BY <1>2, <2>1, <2>2
<1>8. pager' \in PagerRec
  <2>1. PhaseAfter(page) \in {"idle", "paging", "done"}
    BY DEF PhaseAfter
  <2>2. page.repeats \in BOOLEAN
    BY DEF LookUpPage
  <2>3. QED
    BY <1>3, <1>4, <1>7, <2>1, <2>2 DEF PInv, LookupTypeOK, PagerRec
<1>9. Matching(f)' = Matching(f)
  BY <1>3 DEF Matching
<1>10. LookupTypeOK' /\ IsFiniteSet(index')
  BY <1>3, <1>8 DEF PInv, LookupTypeOK, TypeOK
<1>11. ~pager'.dup
  BY <1>2, <1>3, <1>6 DEF PInv, LookupTypeOK, PagerRec
<1>12. pager'.phase = "paging" =>
         /\ pager'.tag # NoTag /\ pager'.tag[1] = pager'.filter
         /\ \A o \in pager'.got : KeyLess(<<pager'.filter, o>>, pager'.tag)
  BY <1>3, <1>7 DEF PhaseAfter
<1>13. pager'.stable => pager'.got \subseteq pager'.base
  BY <1>1, <1>2, <1>3 DEF PInv, LookupTypeOK, PagerRec
<1>14. (pager.stable /\ pager.phase = "paging" =>
          pager.base = Matching(pager.filter))'
  BY <1>1, <1>3, <1>9 DEF PInv, LookupTypeOK, PagerRec
<1>15. QED
  BY <1>10, <1>11, <1>12, <1>13, <1>14 DEF PInv

\* Every step of the lookup specification preserves PInv.
LEMMA PInvStep == PInv /\ [LookupNext]_lvars => PInv'
<1> SUFFICES ASSUME PInv, [LookupNext]_lvars PROVE PInv'
  OBVIOUS
<1>1. CASE \E o \in Orgs, apps \in AppLists :
             (RegistryAdd(o, apps) \/ RegistryUpdate(o, apps)) /\ Touch
  BY <1>1, WriteStep
<1>2. CASE \E o \in Orgs, s \in StatusInputs :
             RegistrySetStatus(o, s) /\ UNCHANGED pager
  BY <1>2, SetStatusStep
<1>3. CASE \E a \in AppIds : RegistryLookUp(a)
  BY <1>3, LookUpStep
<1>4. CASE RegistryLookUpNext
  BY <1>4, LookUpNextStep
<1>5. CASE UNCHANGED lvars
  BY <1>5 DEF PInv, LookupTypeOK, TypeOK, Matching, lvars
<1>6. QED
  BY <1>1, <1>2, <1>3, <1>4, <1>5 DEF LookupNext

LEMMA PInvInvariant == LookupSpec => []PInv
BY InitPInv, PInvStep, PTL DEF LookupSpec

(***************************************************************************)
(* registryLookUp / registryLookUpNext keep the world state and the       *)
(* paging session well typed: the lookupTag handed to the caller is a     *)
(* stored key or empty, and the ids it receives are orgIDs.                *)
(***************************************************************************)
THEOREM LookupTyped == LookupSpec => []LookupTypeOK
BY PInvInvariant, PTL DEF PInv

(***************************************************************************)
(* Paging soundness, for every page size and every set of orgIDs and      *)
(* appTypeIds: across registryLookUp / registryLookUpNext calls, with      *)
(* registryAdd / registryUpdate / registrySetStatus interleaved, a session  *)
(* never receives an orgID twice, and a session no write disturbed         *)
(* receives only orgIDs that matched its filter.                           *)
(***************************************************************************)
THEOREM PagerSoundness == LookupSpec => []PagerSound
BY PInvInvariant, PTL DEF PInv, PagerSound

\* A registryLookUpNext call ends the session or moves its tag forward.
LEMMA TagAdvanceStep ==
    ASSUME PInv, RegistryLookUpNext
    PROVE  pager'.phase = "done" \/ KeyLess(pager.tag, pager'.tag)
<1> DEFINE t == pager.tag
           lt == LookUpPage(pager.filter, t).lookupTag
<1>1. /\ pager' = [pager EXCEPT !.phase = PhaseAfter(LookUpPage(pager.filter, t)),
                                !.tag = lt,
                                !.got = @ \cup LookUpPage(pager.filter, t).ids,
                                !.dup = @ \/ LookUpPage(pager.filter, t).repeats
                                          \/ LookUpPage(pager.filter, t).ids
                                               \cap pager.got # {}]
      /\ pager \in PagerRec
  BY DEF RegistryLookUpNext, PInv, LookupTypeOK
<1>2. CASE lt = NoTag
  BY <1>1, <1>2 DEF PhaseAfter
<1>3. CASE lt # NoTag
  <2>1. /\ t \in Seq(Nat) /\ t # NoTag
        /\ index \subseteq Seq(Nat) /\ IsFiniteSet(index)
        /\ PAGESIZE + 1 \in Nat \ {0}
    <3>1. t \in AppIds \X Orgs /\ t # NoTag
      BY DEF RegistryLookUpNext, PInv, LookupTypeOK, PagerRec
    <3>2. QED
      BY <3>1, PairKey, LookupAssumption DEF PInv, LookupTypeOK, TypeOK
  <2>2. lt = NextBookmark(index, <<pager.filter>>, t, PAGESIZE + 1, NoTag)
    BY DEF LookUpPage
  <2>3. KeyLess(t, lt)
    BY <1>3, <2>1, <2>2, BookmarkAdvances
  <2>4. QED
    BY <1>1, <2>3
<1>4. QED
  BY <1>2, <1>3

(***************************************************************************)
(* The lookupTag moves forward (registryLookUpNext), for every page size  *)
(* and all constants, whatever writes interleave: each call ends the      *)
(* session or hands back a tag strictly after the one it was given.        *)
(***************************************************************************)
THEOREM TagAdvance == LookupSpec => TagAdvances
<1>1. PInv /\ [LookupNext]_lvars =>
        [RegistryLookUpNext =>
            pager'.phase = "done" \/ KeyLess(pager.tag, pager'.tag)]_lvars
  BY TagAdvanceStep
<1>2. QED
  BY <1>1, PInvInvariant, PTL DEF LookupSpec, TagAdvances
=============================================================================
