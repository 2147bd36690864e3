---------------------------- MODULE LegacyProofs ----------------------------
(***************************************************************************)
(* Proofs about the older Receipt chaincode (ReceiptLegacy), for all       *)
(* values of the constants that satisfy LegacyAssumption.                  *)
(*                                                                         *)
(* LegacyTypeOK says, besides the types, that each key of the create index *)
(* holds one workOrderId: PutState replaces the value under a key, which   *)
(* PutKey models by dropping the entry of that key before adding the new  *)
(* one.  The lookup answer's lookupTag is the ledger's bookmark, a CHOOSE  *)
(* of the least key left in the scan, which is a stored key only because  *)
(* the index is finite; so the inductive invariant adds                    *)
(* IsFiniteSet(lindex).                                                    *)
(***************************************************************************)
EXTENDS ReceiptLegacy, PagingProofs, TLAPS

LInv == LegacyTypeOK /\ IsFiniteSet(lindex)

\* A create key is a key of the ledger: a tuple of naturals.
LEMMA CreateKeysAreSeqs == CreateKeys \subseteq Seq(Nat)
<1> SUFFICES ASSUME NEW k \in CreateKeys PROVE k \in Seq(Nat)
  BY DEF CreateKeys
<1>1. k \in [1..4 -> Nat]
  <2>1. /\ ServiceIds \subseteq Nat /\ WorkerIds \subseteq Nat
        /\ RequesterIds \subseteq Nat /\ CreateStatuses \subseteq Nat
    BY LegacyAssumption
  <2>2. PICK a \in ServiceIds, b \in WorkerIds, c \in RequesterIds,
             d \in CreateStatuses : k = <<a, b, c, d>>
    BY DEF CreateKeys
  <2>3. QED
    BY <2>1, <2>2
<1>2. k \in UNION {[1..n -> Nat] : n \in Nat}
  BY <1>1
<1>3. QED
  BY <1>2, SeqDef, Zenon

\* The keys of the index are finitely many create keys.
LEMMA IndexKeysFinite ==
    ASSUME LInv
    PROVE  /\ {e[1] : e \in lindex} \subseteq CreateKeys
           /\ IsFiniteSet({e[1] : e \in lindex})
<1> DEFINE f == [e \in lindex |-> e[1]]
<1>1. f \in Surjection(lindex, {e[1] : e \in lindex})
  BY DEF Surjection
<1>2. QED
  BY <1>1, FS_Surjection DEF LInv, LegacyTypeOK

\* PutKey leaves one entry under the key it puts and keeps the others.
LEMMA PutKeyUnique ==
    ASSUME NEW set, NEW key, NEW val,
           \A e, f \in set : e[1] = f[1] => e = f
    PROVE  \A e, f \in PutKey(set, key, val) : e[1] = f[1] => e = f
BY DEF PutKey

\* workOrderReceiptCreate keeps the index typed, unique per key and finite.
LEMMA CreateStep ==
    ASSUME LInv,
           NEW wo \in WorkOrderIds, NEW svc \in ServiceIds, NEW wk \in WorkerIds,
           NEW req \in RequesterIds, NEW st \in CreateStatuses,
           LegacyReceiptCreate(wo, svc, wk, req, st)
    PROVE  LInv'
<1> DEFINE key == <<svc, wk, req, st>>
<1>1. lreceipt' \in [WorkOrderIds -> LegacyRec \cup {Absent}]
  BY DEF LInv, LegacyTypeOK, LegacyReceiptCreate, LegacyRec
<1>2. lindex' \subseteq CreateKeys \X WorkOrderIds
  BY DEF LInv, LegacyTypeOK, LegacyReceiptCreate, PutKey, CreateKeys
<1>3. \A e, f \in lindex' : e[1] = f[1] => e = f
  BY PutKeyUnique DEF LInv, LegacyTypeOK, LegacyReceiptCreate
<1>4. IsFiniteSet(lindex')
  <2>1. IsFiniteSet({e \in lindex : e[1] # key})
    BY FS_Subset DEF LInv
  <2>2. QED
    BY <2>1, FS_AddElement DEF LegacyReceiptCreate, PutKey
<1>5. QED
  BY <1>1, <1>2, <1>3, <1>4 DEF LInv, LegacyTypeOK, LegacyReceiptCreate

\* A lookup page, from any tag, answers with a typed record.
LEMMA LookUpStep ==
    ASSUME LInv, NEW f \in LegacyFilters, NEW tag, LegacyLookUpNext(f, tag)
    PROVE  LInv'
<1> DEFINE keys == {e[1] : e \in lindex}
<1>1. keys \subseteq Seq(Nat) /\ IsFiniteSet(keys)
  BY IndexKeysFinite, CreateKeysAreSeqs
<1>2. NextBookmark(keys, f, tag, PAGESIZE + 1, NoTag) \in CreateKeys \cup {NoTag}
  BY <1>1, IndexKeysFinite, BookmarkInKeys
<1>3. {e[2] : e \in {e \in lindex : e[1] \in Fetched(keys, f, tag, PAGESIZE, NoTag)}}
         \subseteq WorkOrderIds
  BY DEF LInv, LegacyTypeOK
<1>4. QED
  BY <1>2, <1>3 DEF LegacyLookUpNext, LInv, LegacyTypeOK

(***************************************************************************)
(* Type correctness and key uniqueness (workOrderReceiptCreate and the     *)
(* lookups of the older Receipt chaincode), for all constants: each key of *)
(* the create index holds exactly one workOrderId, however often receipts  *)
(* are created again, and a lookupTag is a stored key or empty.            *)
(***************************************************************************)
THEOREM LegacyTyped == LegacySpec => []LegacyTypeOK
<1>1. LegacyInit => LInv
  BY FS_EmptySet DEF LegacyInit, LInv, LegacyTypeOK
<1>2. LInv /\ [LegacyNext]_legacyVars => LInv'
  <2> SUFFICES ASSUME LInv, [LegacyNext]_legacyVars PROVE LInv'
    OBVIOUS
  <2>1. CASE \E wo \in WorkOrderIds, svc \in ServiceIds, wk \in WorkerIds,
                req \in RequesterIds, st \in CreateStatuses :
                   LegacyReceiptCreate(wo, svc, wk, req, st)
    BY <2>1, CreateStep
  <2>2. CASE \E f \in LegacyFilters : LegacyLookUp(f)
    BY <2>2, LookUpStep DEF LegacyLookUp
  <2>3. CASE \E f \in LegacyFilters, tag \in {e[1] : e \in lindex} :
                LegacyLookUpNext(f, tag)
    BY <2>3, LookUpStep
  <2>4. CASE UNCHANGED legacyVars
    BY <2>4 DEF legacyVars, LInv, LegacyTypeOK
  <2>5. QED
    BY <2>1, <2>2, <2>3, <2>4 DEF LegacyNext
<1>3. QED
  BY <1>1, <1>2, PTL DEF LegacySpec, LInv

=============================================================================
