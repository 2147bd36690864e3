--------------------------- MODULE RegistryLookup ---------------------------
(***************************************************************************)
(* registryLookUp / registryLookUpNext of the Registry chaincode, composed *)
(* with its write handlers.  A caller pages through the orgIDs of one      *)
(* appTypeId, forwarding the lookupTag of each answer to the next call;    *)
(* the writes of other callers interleave between its pages.  Each call is *)
(* a separate read-only invocation: the tag is the only state carried      *)
(* from one page to the next.                                              *)
(***************************************************************************)
EXTENDS Registry, FabricPaging

CONSTANTS
    PAGESIZE,  \* ids returned per lookup page
    NoTag      \* the empty lookupTag

ASSUME LookupAssumption ==
    /\ PAGESIZE \in Nat \ {0}
    /\ NoTag \notin Seq(Nat)
    /\ AppIds # {}

VARIABLE pager  \* the paging caller's session

lvars == <<registry, index, pager>>

(***************************************************************************)
(* The paging session.  filter and tag are what the caller passes to       *)
(* registryLookUpNext; got, dup, base and stable record the history the    *)
(* properties judge: the ids received so far, whether one came twice, the  *)
(* ids that matched the filter when the session began, and whether no     *)
(* write touched the index since then.                                     *)
(***************************************************************************)
PagerRec ==
    [phase : {"idle", "paging", "done"}, filter : AppIds,
     tag : (AppIds \X Orgs) \cup {NoTag}, got : SUBSET Orgs, dup : BOOLEAN,
     base : SUBSET Orgs, stable : BOOLEAN]

LookupTypeOK == TypeOK /\ pager \in PagerRec

LookupInit ==
    /\ Init
    /\ pager = [phase |-> "idle", filter |-> CHOOSE a \in AppIds : TRUE,
                tag |-> NoTag, got |-> {}, dup |-> FALSE, base |-> {},
                stable |-> TRUE]

\* Mutant of LookUpPage: the loop returns the appTypeId attribute of each
\* entry's composite key instead of the entry's value.
LookUpPageAppIds(a, tag) ==
    LET kept == Fetched(index, <<a>>, tag, PAGESIZE, NoTag)
    IN  [ids |-> {k[1] : k \in kept},
         repeats |-> \E k, j \in kept : k # j /\ k[1] = j[1],
         lookupTag |-> NextBookmark(index, <<a>>, tag, PAGESIZE + 1, NoTag),
         totalCount |-> Cardinality(Fetched(index, <<a>>, tag, PAGESIZE + 1, NoTag))]

\* Mutant of LookUpPage: the appTypeId is left out of the partial key, so
\* the scan covers the whole namespace.
LookUpPageNoFilter(a, tag) ==
    LET kept == Fetched(index, <<>>, tag, PAGESIZE, NoTag)
    IN  [ids |-> {k[2] : k \in kept},
         repeats |-> \E k, j \in kept : k # j /\ k[2] = j[2],
         lookupTag |-> NextBookmark(index, <<>>, tag, PAGESIZE + 1, NoTag),
         totalCount |-> Cardinality(Fetched(index, <<>>, tag, PAGESIZE + 1, NoTag))]

\* Mutant of LookUpPage: a page that fetches nothing hands the caller's tag
\* back instead of the ledger's (empty) bookmark.
LookUpPageEchoTag(a, tag) ==
    LET kept == Fetched(index, <<a>>, tag, PAGESIZE, NoTag)
        fetched == Fetched(index, <<a>>, tag, PAGESIZE + 1, NoTag)
    IN  [ids |-> {k[2] : k \in kept},
         repeats |-> \E k, j \in kept : k # j /\ k[2] = j[2],
         lookupTag |-> IF fetched = {} THEN tag
                       ELSE NextBookmark(index, <<a>>, tag, PAGESIZE + 1, NoTag),
         totalCount |-> Cardinality(fetched)]

\* Mutant of LookUpPage: the answer's lookupTag is the key of the last
\* entry the loop kept instead of the ledger's bookmark.
LookUpPageLastKept(a, tag) ==
    LET kept == Fetched(index, <<a>>, tag, PAGESIZE, NoTag)
    IN  [ids |-> {k[2] : k \in kept},
         repeats |-> \E k, j \in kept : k # j /\ k[2] = j[2],
         lookupTag |-> IF kept = {} THEN NoTag
                       ELSE CHOOSE k \in kept : \A j \in kept : k = j \/ KeyLess(j, k),
         totalCount |-> Cardinality(Fetched(index, <<a>>, tag, PAGESIZE + 1, NoTag))]

(***************************************************************************)
(* registryLookUpNext(appTypeId, lookUpTag): processAttributes pads the    *)
(* appTypeId into the partial key; the ledger fetches PAGESIZE + 1 entries *)
(* of its range from the tag; the loop appends their values and breaks    *)
(* once it holds PAGESIZE, so it keeps the first PAGESIZE; the answer      *)
(* carries the ledger's bookmark and fetched count.                        *)
(***************************************************************************)
LookUpPage(a, tag) ==
    LET kept == Fetched(index, <<a>>, tag, PAGESIZE, NoTag)
    IN  [ids |-> {k[2] : k \in kept},
         repeats |-> \E k, j \in kept : k # j /\ k[2] = j[2],
         lookupTag |-> NextBookmark(index, <<a>>, tag, PAGESIZE + 1, NoTag),
         totalCount |-> Cardinality(Fetched(index, <<a>>, tag, PAGESIZE + 1, NoTag))]

\* The ids a lookup of appTypeId a ought to return now.
Matching(a) == {o \in Orgs : <<a, o>> \in index}

\* Phase after an answer: an empty lookupTag ends the session.
PhaseAfter(page) == IF page.lookupTag = NoTag THEN "done" ELSE "paging"

(***************************************************************************)
(* registryLookUp(appTypeId): registryLookUpNext with an empty tag; it     *)
(* starts a new paging session.                                            *)
(***************************************************************************)
RegistryLookUp(a) ==
    /\ pager.phase # "paging"
    /\ LET page == LookUpPage(a, NoTag)
       IN  pager' = [phase |-> PhaseAfter(page), filter |-> a,
                     tag |-> page.lookupTag, got |-> page.ids,
                     dup |-> page.repeats, base |-> Matching(a),
                     stable |-> TRUE]
    /\ UNCHANGED vars

\* The caller forwards the tag of the previous answer to registryLookUpNext.
RegistryLookUpNext ==
    /\ pager.phase = "paging"
    /\ LET page == LookUpPage(pager.filter, pager.tag)
       IN  pager' = [pager EXCEPT
                       !.phase = PhaseAfter(page),
                       !.tag = page.lookupTag,
                       !.got = @ \cup page.ids,
                       !.dup = @ \/ page.repeats \/ page.ids \cap pager.got # {}]
    /\ UNCHANGED vars

\* A write to the index ends the stability of a paging session.
Touch ==
    pager' = IF pager.phase = "paging" THEN [pager EXCEPT !.stable = FALSE]
                                       ELSE pager

LookupNext ==
    \/ \E o \in Orgs, apps \in AppLists :
          (RegistryAdd(o, apps) \/ RegistryUpdate(o, apps)) /\ Touch
    \/ \E o \in Orgs, s \in StatusInputs :
          RegistrySetStatus(o, s) /\ UNCHANGED pager
    \/ \E a \in AppIds : RegistryLookUp(a)
    \/ RegistryLookUpNext

(***************************************************************************)
(* The caller keeps calling registryLookUpNext while it holds a non-empty  *)
(* tag, and the ledger serves every call; writes need no fairness.         *)
(***************************************************************************)
LookupSpec == LookupInit /\ [][LookupNext]_lvars /\ WF_lvars(RegistryLookUpNext)

-----------------------------------------------------------------------------
(***************************************************************************)
(* Paging soundness (registryLookUp / registryLookUpNext across calls,     *)
(* with writes in between): a session never returns an id twice, and a    *)
(* session no write disturbed returns only ids that matched its filter.    *)
(***************************************************************************)
PagerSound ==
    /\ ~pager.dup
    /\ pager.stable => pager.got \subseteq pager.base

(***************************************************************************)
(* The lookupTag moves forward (registryLookUpNext): each call either ends *)
(* the session with an empty tag or hands back a tag strictly after the   *)
(* one it was given, also when writes between the calls removed the entry *)
(* the tag names: a stored tag is the first key of its own scan and is     *)
(* fetched, so the ledger's bookmark lies beyond it.                       *)
(***************************************************************************)
TagAdvances ==
    [][RegistryLookUpNext =>
          pager'.phase = "done" \/ KeyLess(pager.tag, pager'.tag)]_lvars

(***************************************************************************)
(* Paging completeness (spec.md 8, "pagination determinism"): a session no *)
(* write disturbed, once its tag comes back empty, has returned every id   *)
(* that matched.  The loop keeps PAGESIZE of the PAGESIZE + 1 entries it   *)
(* fetches, while the bookmark points past all of them.                    *)
(***************************************************************************)
PagingComplete ==
    pager.phase = "done" /\ pager.stable => pager.got = pager.base

(***************************************************************************)
(* Paging terminates (registryLookUpNext): a caller that keeps forwarding  *)
(* the tag reaches an empty tag, however the index changes meanwhile.      *)
(***************************************************************************)
PagerTerminates == pager.phase = "paging" ~> pager.phase = "done"

=============================================================================
