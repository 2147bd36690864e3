----------------------------- MODULE WorkerProofs -----------------------------
(***************************************************************************)
(* Proof of the Worker chaincode's index soundness for all values of the   *)
(* constants that satisfy WorkerAssumption and WorkerAbsentAssumption.     *)
(* WorkerIndexSound is not inductive alone: a workerUpdate or              *)
(* workerSetStatus keeps the entries only because it keeps the type, the   *)
(* organization and the appTypeIds of a record, and an entry names a       *)
(* worker id only if the index is typed.  The inductive invariant is       *)
(* WInv == StoreTypeOK /\ WorkerIndexSound.                                *)
(***************************************************************************)
EXTENDS Worker, PagingProofs, TLAPS

\* The typing of the stored records and of the index (TypeOK without the
\* lookup answer, which TLC checks).
StoreTypeOK ==
    /\ worker \in [WorkerIds -> WorkerRec \cup {Absent}]
    /\ windex \subseteq WorkerTypes \X OrgIds \X AppTypeIds \X WorkerIds

WInv == StoreTypeOK /\ WorkerIndexSound

\* The lookups change neither the records nor the index.
LEMMA LookUpsKeepStore ==
    ASSUME \/ \E f \in Filters : WorkerLookUp(f)
           \/ /\ answer # NoAnswer
              /\ answer.lookupTag # NoTag
              /\ WorkerLookUpNext(answer.filter, answer.lookupTag)
    PROVE  UNCHANGED <<worker, windex>>
BY DEF WorkerLookUp, WorkerLookUpNext

\* workerRegister stores record r and puts every entry of r.
LEMMA RegisterStep ==
    ASSUME WInv,
           NEW w \in WorkerIds, NEW ty \in WorkerTypes, NEW org \in OrgIds,
           NEW apps \in AppLists, NEW d \in DetailValues,
           WorkerRegister(w, ty, org, apps, d)
    PROVE  WInv'
<1> DEFINE r == [workerType |-> ty, organizationID |-> org, apps |-> apps,
                 details |-> d, status |-> WORKERACTIVE]
<1>1. r \in WorkerRec /\ r # Absent
  BY WorkerAbsentAssumption DEF WorkerRec
<1>2. worker' = [worker EXCEPT ![w] = r] /\ windex' = windex \cup EntryKeys(w, r)
  BY DEF WorkerRegister
<1>3. EntryKeys(w, r) \subseteq WorkerTypes \X OrgIds \X AppTypeIds \X WorkerIds
  BY DEF EntryKeys, AppLists
<1>4. StoreTypeOK'
  BY <1>1, <1>2, <1>3 DEF WInv, StoreTypeOK
<1>5. \A v \in WorkerIds : worker'[v] # Absent => EntryKeys(v, worker'[v]) \subseteq windex'
  BY <1>1, <1>2 DEF WInv, StoreTypeOK, WorkerIndexSound
<1>6. \A k \in windex' : worker'[k[4]] # Absent
  BY <1>1, <1>2 DEF WInv, StoreTypeOK, WorkerIndexSound, EntryKeys
<1>7. QED
  BY <1>4, <1>5, <1>6 DEF WInv, WorkerIndexSound

\* workerUpdate and workerSetStatus change one field that no entry holds.
LEMMA FieldStep ==
    ASSUME WInv, NEW w \in WorkerIds, NEW fld \in {"details", "status"},
           NEW val, worker[w] # Absent,
           [worker[w] EXCEPT ![fld] = val] \in WorkerRec,
           worker' = [worker EXCEPT ![w][fld] = val],
           UNCHANGED windex
    PROVE  WInv'
<1>1. worker[w] \in WorkerRec
  BY DEF WInv, StoreTypeOK
<1>2. /\ worker'[w] \in WorkerRec /\ worker'[w] # Absent
      /\ EntryKeys(w, worker'[w]) = EntryKeys(w, worker[w])
  <2>1. worker'[w] = [worker[w] EXCEPT ![fld] = val]
    BY DEF WInv, StoreTypeOK
  <2>2. worker'[w] \in WorkerRec
    BY <2>1
  <2>3. worker'[w] # Absent
    BY <2>2, WorkerAbsentAssumption
  <2>4. /\ worker'[w].workerType = worker[w].workerType
        /\ worker'[w].organizationID = worker[w].organizationID
        /\ worker'[w].apps = worker[w].apps
    BY <1>1, <2>1 DEF WorkerRec
  <2>5. QED
    BY <2>2, <2>3, <2>4 DEF EntryKeys
<1>3. \A v \in WorkerIds \ {w} : worker'[v] = worker[v]
  BY DEF WInv, StoreTypeOK
<1>4. QED
  BY <1>2, <1>3 DEF WInv, StoreTypeOK, WorkerIndexSound

(***************************************************************************)
(* Index soundness (workerRegister, workerUpdate, workerSetStatus), for    *)
(* all constants: every appTypeId of a stored worker has the entry of its  *)
(* current type and organization, and every entry names a stored worker.   *)
(***************************************************************************)
THEOREM WorkerIndexSoundness == Spec => []WorkerIndexSound
<1>1. Init => WInv
  BY DEF Init, WInv, StoreTypeOK, WorkerIndexSound
<1>2. WInv /\ [Next]_vars => WInv'
  <2> SUFFICES ASSUME WInv, [Next]_vars PROVE WInv'
    OBVIOUS
  <2>1. CASE \E w \in WorkerIds, ty \in WorkerTypes, org \in OrgIds, apps \in AppLists,
                d \in DetailValues : WorkerRegister(w, ty, org, apps, d)
    BY <2>1, RegisterStep
  <2>2. CASE \E w \in WorkerIds, d \in DetailValues : WorkerUpdate(w, d)
    <3>1. PICK w \in WorkerIds, d \in DetailValues : WorkerUpdate(w, d)
      BY <2>2
    <3>2. [worker[w] EXCEPT !["details"] = d] \in WorkerRec
      BY <3>1 DEF WInv, StoreTypeOK, WorkerUpdate, WorkerRec
    <3>3. QED
      BY <3>1, <3>2, FieldStep DEF WorkerUpdate
  <2>3. CASE \E w \in WorkerIds, s \in StatusInputs : WorkerSetStatus(w, s)
    <3>1. PICK w \in WorkerIds, s \in StatusInputs : WorkerSetStatus(w, s)
      BY <2>3
    <3>2. [worker[w] EXCEPT !["status"] = s] \in WorkerRec
      BY <3>1 DEF WInv, StoreTypeOK, WorkerSetStatus, WorkerRec
    <3>3. QED
      BY <3>1, <3>2, FieldStep DEF WorkerSetStatus
  <2>4. CASE \/ \E f \in Filters : WorkerLookUp(f)
             \/ /\ answer # NoAnswer
                /\ answer.lookupTag # NoTag
                /\ WorkerLookUpNext(answer.filter, answer.lookupTag)
    BY <2>4, LookUpsKeepStore DEF WInv, StoreTypeOK, WorkerIndexSound
  <2>5. CASE UNCHANGED vars
    BY <2>5 DEF vars, WInv, StoreTypeOK, WorkerIndexSound
  <2>6. QED
    BY <2>1, <2>2, <2>3, <2>4, <2>5 DEF Next
<1>3. QED
  BY <1>1, <1>2, PTL DEF Spec, WInv

-----------------------------------------------------------------------------
(***************************************************************************)
(* Type correctness of the whole state, the lookup answer included.  The   *)
(* answer's lookupTag is the ledger's bookmark, a CHOOSE of the least key  *)
(* left in the scan, and its totalCount the size of the fetched page: both *)
(* are what the type says only because the index is finite, so the        *)
(* inductive invariant adds IsFiniteSet(windex).  A register adds the      *)
(* entries of a finite appTypeId list, and nothing else adds entries.      *)
(***************************************************************************)
TInv == TypeOK /\ IsFiniteSet(windex)

\* The entries of a register are as many as its appTypeIds.
LEMMA EntryKeysFinite ==
    ASSUME NEW w, NEW r, IsFiniteSet(r.apps)
    PROVE  IsFiniteSet(EntryKeys(w, r))
<1> DEFINE f == [a \in r.apps |-> <<r.workerType, r.organizationID, a, w>>]
<1>1. f \in Surjection(r.apps, EntryKeys(w, r))
  BY DEF Surjection, EntryKeys
<1>2. QED
  BY <1>1, FS_Surjection

\* An index key is a key of the ledger: a tuple of naturals.
LEMMA WorkerKeysAreSeqs ==
    WorkerTypes \X OrgIds \X AppTypeIds \X WorkerIds \subseteq Seq(Nat)
<1> SUFFICES ASSUME NEW k \in WorkerTypes \X OrgIds \X AppTypeIds \X WorkerIds
             PROVE  k \in Seq(Nat)
  OBVIOUS
<1>1. k \in [1..4 -> Nat]
  BY WorkerAssumption
<1>2. k \in UNION {[1..n -> Nat] : n \in Nat}
  BY <1>1
<1>3. QED
  BY <1>2, SeqDef, Zenon

\* A lookup page, from any tag, answers with a typed record.
LEMMA LookUpTyped ==
    ASSUME TInv, NEW f \in Filters, NEW tag, WorkerLookUpNext(f, tag)
    PROVE  TInv'
<1> DEFINE p == LookupAttrs(f)
           kept == Fetched(windex, p, tag, PAGESIZE, NoTag)
<1>1. windex \subseteq Seq(Nat) /\ IsFiniteSet(windex)
  BY WorkerKeysAreSeqs DEF TInv, TypeOK
<1>2. {k[4] : k \in kept} \subseteq WorkerIds
  BY ScanInKeys DEF TInv, TypeOK
<1>3. NextBookmark(windex, p, tag, PAGESIZE + 1, NoTag)
         \in (WorkerTypes \X OrgIds \X AppTypeIds \X WorkerIds) \cup {NoTag}
  BY <1>1, BookmarkInKeys DEF TInv, TypeOK
<1>4. Cardinality(Fetched(windex, p, tag, PAGESIZE + 1, NoTag)) \in Nat
  BY <1>1, FetchedCount
<1>5. QED
  BY <1>2, <1>3, <1>4 DEF WorkerLookUpNext, TInv, TypeOK

\* workerRegister keeps the records typed and the index finite.
LEMMA RegisterTyped ==
    ASSUME TInv,
           NEW w \in WorkerIds, NEW ty \in WorkerTypes, NEW org \in OrgIds,
           NEW apps \in AppLists, NEW d \in DetailValues,
           WorkerRegister(w, ty, org, apps, d)
    PROVE  TInv'
<1> DEFINE r == [workerType |-> ty, organizationID |-> org, apps |-> apps,
                 details |-> d, status |-> WORKERACTIVE]
<1>1. IsFiniteSet(EntryKeys(w, r))
  <2>1. IsFiniteSet(r.apps)
    BY DEF AppLists
  <2>2. QED
    BY <2>1, EntryKeysFinite
<1>2. IsFiniteSet(windex')
  BY <1>1, FS_Union DEF WorkerRegister, TInv
<1>3. StoreTypeOK'
  BY RegisterStep DEF TInv, TypeOK, WInv, StoreTypeOK, WorkerIndexSound,
                      WorkerRegister, EntryKeys, AppLists, WorkerRec
<1>4. QED
  BY <1>2, <1>3 DEF TInv, TypeOK, StoreTypeOK, WorkerRegister

(***************************************************************************)
(* Type correctness (every handler of the Worker chaincode): the records,  *)
(* the index and the caller's last lookup answer keep their types, for all *)
(* constants; in particular a lookupTag is always a stored key or empty.   *)
(***************************************************************************)
THEOREM WorkerTyped == Spec => []TypeOK
<1>1. Init => TInv
  BY FS_EmptySet DEF Init, TInv, TypeOK
<1>2. TInv /\ [Next]_vars => TInv'
  <2> SUFFICES ASSUME TInv, [Next]_vars PROVE TInv'
    OBVIOUS
  <2>1. CASE \E w \in WorkerIds, ty \in WorkerTypes, org \in OrgIds, apps \in AppLists,
                d \in DetailValues : WorkerRegister(w, ty, org, apps, d)
    BY <2>1, RegisterTyped
  <2>2. CASE \E w \in WorkerIds, d \in DetailValues : WorkerUpdate(w, d)
    BY <2>2 DEF WorkerUpdate, TInv, TypeOK, WorkerRec
  <2>3. CASE \E w \in WorkerIds, s \in StatusInputs : WorkerSetStatus(w, s)
    BY <2>3 DEF WorkerSetStatus, TInv, TypeOK, WorkerRec
  <2>4. CASE \E f \in Filters : WorkerLookUp(f)
    BY <2>4, LookUpTyped DEF WorkerLookUp
  <2>5. CASE /\ answer # NoAnswer
             /\ answer.lookupTag # NoTag
             /\ WorkerLookUpNext(answer.filter, answer.lookupTag)
    <3>1. answer.filter \in Filters
      BY <2>5 DEF TInv, TypeOK
    <3>2. QED
      BY <2>5, <3>1, LookUpTyped
  <2>6. CASE UNCHANGED vars
    BY <2>6 DEF vars, TInv, TypeOK
  <2>7. QED
    BY <2>1, <2>2, <2>3, <2>4, <2>5, <2>6 DEF Next
<1>3. QED
  BY <1>1, <1>2, PTL DEF Spec, TInv
=============================================================================
