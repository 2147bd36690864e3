---------------------------- MODULE ReceiptProofs ----------------------------
(***************************************************************************)
(* Proofs about the connector Receipt chaincode, for all values of the     *)
(* constants that satisfy ReceiptAssumption and AbsentAssumption:          *)
(*   - the receipt map keeps its type (the part of TypeOK the other proofs *)
(*     need; the answers of the lookups are left to TLC);                  *)
(*   - UpdateIndexComplete, from the inductive invariant                   *)
(*     RecTypeOK /\ UpdateIndexComplete;                                   *)
(*   - the chaincode implements the abstract UpdateLog under the mapping   *)
(*     UpdatesOf.                                                          *)
(***************************************************************************)
EXTENDS Receipt, PagingProofs, TLAPS

\* The typing of the receipt map alone.
RecTypeOK == receipt \in [WorkOrders -> ReceiptRec \cup {Absent}]

\* The read handlers change no ledger state.
LEMMA ReadsKeepReceipt ==
    ASSUME [Next]_vars,
           ~ \E wo \in WorkOrders, svc \in ServiceIds, wk \in WorkerIds,
                req \in RequesterIds, st \in CreateStatuses :
                   WorkOrderReceiptCreate(wo, svc, wk, req, st),
           ~ \E wo \in WorkOrders, upd \in Updaters, ty \in UpdateTypes :
                   WorkOrderReceiptUpdate(wo, upd, ty)
    PROVE  UNCHANGED <<receipt, uindex>>
<1>1. CASE \E f \in Filters : WorkOrderReceiptLookUp(f)
  BY <1>1 DEF WorkOrderReceiptLookUp, WorkOrderReceiptLookUpNext
<1>2. CASE \E f \in Filters, tag \in {e[1] : e \in cindex} :
              WorkOrderReceiptLookUpNext(f, tag)
  BY <1>2 DEF WorkOrderReceiptLookUpNext
<1>3. CASE \E wo \in WorkOrders, upd \in QueryUpdaters, idx \in {1, LATEST} :
              WorkOrderReceiptUpdateRetrieve(wo, upd, idx)
  BY <1>3 DEF WorkOrderReceiptUpdateRetrieve
<1>4. CASE \E wo \in WorkOrders : WorkOrderReceiptRetrieve(wo)
  BY <1>4 DEF WorkOrderReceiptRetrieve
<1>5. CASE UNCHANGED vars
  BY <1>5 DEF vars
<1>6. QED
  BY <1>1, <1>2, <1>3, <1>4, <1>5 DEF Next

\* workOrderReceiptCreate stores a receipt with an empty update list.
LEMMA CreateTypeOK ==
    ASSUME RecTypeOK,
           NEW wo \in WorkOrders, NEW svc \in ServiceIds, NEW wk \in WorkerIds,
           NEW req \in RequesterIds, NEW st \in CreateStatuses,
           WorkOrderReceiptCreate(wo, svc, wk, req, st)
    PROVE  RecTypeOK'
BY DEF RecTypeOK, WorkOrderReceiptCreate, ReceiptRec

\* workOrderReceiptUpdate appends an UpdateRec or puts the list back.
LEMMA UpdateTypeOK ==
    ASSUME RecTypeOK,
           NEW wo \in WorkOrders, NEW upd \in Updaters, NEW ty \in UpdateTypes,
           WorkOrderReceiptUpdate(wo, upd, ty)
    PROVE  RecTypeOK'
<1>1. receipt[wo] \in ReceiptRec
  BY DEF RecTypeOK, WorkOrderReceiptUpdate
<1>2. [updaterId |-> upd, updateType |-> ty] \in UpdateRec
  BY DEF UpdateRec
<1>3. QED
  BY <1>1, <1>2 DEF RecTypeOK, WorkOrderReceiptUpdate, ReceiptRec

\* Every action keeps the receipt map typed.
LEMMA TypeStep == RecTypeOK /\ [Next]_vars => RecTypeOK'
<1> SUFFICES ASSUME RecTypeOK, [Next]_vars PROVE RecTypeOK'
  OBVIOUS
<1>1. CASE \E wo \in WorkOrders, svc \in ServiceIds, wk \in WorkerIds,
              req \in RequesterIds, st \in CreateStatuses :
                 WorkOrderReceiptCreate(wo, svc, wk, req, st)
  BY <1>1, CreateTypeOK
<1>2. CASE \E wo \in WorkOrders, upd \in Updaters, ty \in UpdateTypes :
                 WorkOrderReceiptUpdate(wo, upd, ty)
  BY <1>2, UpdateTypeOK
<1>3. CASE ~ \/ \E wo \in WorkOrders, svc \in ServiceIds, wk \in WorkerIds,
                  req \in RequesterIds, st \in CreateStatuses :
                     WorkOrderReceiptCreate(wo, svc, wk, req, st)
             \/ \E wo \in WorkOrders, upd \in Updaters, ty \in UpdateTypes :
                     WorkOrderReceiptUpdate(wo, upd, ty)
  BY <1>3, ReadsKeepReceipt DEF RecTypeOK
<1>4. QED
  BY <1>1, <1>2, <1>3

(***************************************************************************)
(* Every stored receipt is a Receipt document with a list of UpdateRecs    *)
(* (workOrderReceiptCreate and workOrderReceiptUpdate), for all constants. *)
(***************************************************************************)
THEOREM ReceiptTyped == Spec => []RecTypeOK
<1>1. Init => RecTypeOK
  BY DEF Init, RecTypeOK
<1>2. QED
  BY <1>1, TypeStep, PTL DEF Spec

-----------------------------------------------------------------------------
\* The inductive invariant behind UpdateIndexComplete: the index argument
\* needs every stored receipt to be a record whose updates form a list.
UInv == RecTypeOK /\ UpdateIndexComplete

\* An update keeps the entries of the list it extends and adds the key of
\* the new position, built from the updaterId of the appended update.
LEMMA UpdateIndexStep ==
    ASSUME UInv,
           NEW wo \in WorkOrders, NEW upd \in Updaters, NEW ty \in UpdateTypes,
           WorkOrderReceiptUpdate(wo, upd, ty)
    PROVE  UpdateIndexComplete'
<1> SUFFICES ASSUME NEW w \in WorkOrders, receipt'[w] # Absent,
                    NEW i \in 1..Len(receipt'[w].updates)
             PROVE  UpdateAttrs(w, receipt'[w].updates[i].updaterId, i) \in uindex'
  BY DEF UpdateIndexComplete
<1>1. receipt[wo] \in ReceiptRec /\ receipt[wo] # Absent
  BY DEF UInv, RecTypeOK, WorkOrderReceiptUpdate
<1>2. uindex \subseteq uindex'
  BY DEF WorkOrderReceiptUpdate
<1>3. CASE w # wo
  <2>1. receipt'[w] = receipt[w]
    BY <1>3 DEF UInv, RecTypeOK, WorkOrderReceiptUpdate
  <2>2. QED
    BY <1>2, <2>1 DEF UInv, UpdateIndexComplete
<1>4. CASE w = wo /\ ty < 256
  <2> DEFINE u == receipt[wo].updates
             v == Append(u, [updaterId |-> upd, updateType |-> ty])
  <2>1. u \in Seq(UpdateRec)
    BY <1>1 DEF ReceiptRec
  <2>2. receipt'[wo].updates = v
    BY <1>1, <1>4 DEF UInv, RecTypeOK, WorkOrderReceiptUpdate
  <2>3. UpdateAttrs(wo, upd, Len(v)) \in uindex'
    BY <1>1, <1>4, <2>2 DEF UInv, RecTypeOK, WorkOrderReceiptUpdate
  <2>4. CASE i <= Len(u)
    <3>1. v[i] = u[i]
      BY <2>1, <2>4
    <3>2. UpdateAttrs(wo, u[i].updaterId, i) \in uindex
      BY <1>1, <2>4 DEF UInv, UpdateIndexComplete
    <3>3. QED
      BY <1>2, <1>4, <2>2, <3>1, <3>2
  <2>5. CASE i = Len(u) + 1
    BY <1>4, <2>1, <2>2, <2>3, <2>5
  <2>6. QED
    BY <1>4, <2>1, <2>2, <2>4, <2>5
<1>5. CASE w = wo /\ ~(ty < 256)
  <2>1. receipt'[wo].updates = receipt[wo].updates
    BY <1>1, <1>5 DEF UInv, RecTypeOK, WorkOrderReceiptUpdate
  <2>2. QED
    BY <1>1, <1>2, <1>5, <2>1 DEF UInv, UpdateIndexComplete
<1>6. QED
  BY <1>3, <1>4, <1>5

\* A create starts an empty list, so it owes no entry; the index is kept.
LEMMA CreateIndexStep ==
    ASSUME UInv,
           NEW wo \in WorkOrders, NEW svc \in ServiceIds, NEW wk \in WorkerIds,
           NEW req \in RequesterIds, NEW st \in CreateStatuses,
           WorkOrderReceiptCreate(wo, svc, wk, req, st)
    PROVE  UpdateIndexComplete'
<1> SUFFICES ASSUME NEW w \in WorkOrders, receipt'[w] # Absent,
                    NEW i \in 1..Len(receipt'[w].updates)
             PROVE  UpdateAttrs(w, receipt'[w].updates[i].updaterId, i) \in uindex'
  BY DEF UpdateIndexComplete
<1>1. w # wo
  BY DEF WorkOrderReceiptCreate, UInv, RecTypeOK
<1>2. QED
  BY <1>1 DEF WorkOrderReceiptCreate, UInv, RecTypeOK, UpdateIndexComplete

(***************************************************************************)
(* Update index completeness (workOrderReceiptUpdate), for all constants:  *)
(* every update in a receipt's list has its "ReceiptUpdate" entry under    *)
(* its updaterId and position.  The index only grows, an update puts the   *)
(* key of the position it fills, and a create empties the list it owes     *)
(* entries for.                                                            *)
(***************************************************************************)
THEOREM UpdateIndexCompleteness == Spec => []UpdateIndexComplete
<1>1. Init => UInv
  BY DEF Init, UInv, RecTypeOK, UpdateIndexComplete
<1>2. UInv /\ [Next]_vars => UInv'
  <2> SUFFICES ASSUME UInv, [Next]_vars PROVE UInv'
    OBVIOUS
  <2>1. RecTypeOK'
    BY TypeStep DEF UInv
  <2>2. CASE \E wo \in WorkOrders, svc \in ServiceIds, wk \in WorkerIds,
                req \in RequesterIds, st \in CreateStatuses :
                   WorkOrderReceiptCreate(wo, svc, wk, req, st)
    BY <2>1, <2>2, CreateIndexStep DEF UInv
  <2>3. CASE \E wo \in WorkOrders, upd \in Updaters, ty \in UpdateTypes :
                   WorkOrderReceiptUpdate(wo, upd, ty)
    BY <2>1, <2>3, UpdateIndexStep DEF UInv
  <2>4. CASE ~ \/ \E wo \in WorkOrders, svc \in ServiceIds, wk \in WorkerIds,
                    req \in RequesterIds, st \in CreateStatuses :
                       WorkOrderReceiptCreate(wo, svc, wk, req, st)
               \/ \E wo \in WorkOrders, upd \in Updaters, ty \in UpdateTypes :
                       WorkOrderReceiptUpdate(wo, upd, ty)
    BY <2>1, <2>4, ReadsKeepReceipt DEF UInv, UpdateIndexComplete
  <2>5. QED
    BY <2>2, <2>3, <2>4
<1>3. UInv => UpdateIndexComplete
  BY DEF UInv
<1>4. QED
  BY <1>1, <1>2, <1>3, PTL DEF Spec

-----------------------------------------------------------------------------
\* workOrderReceiptCreate maps to LogCreate: the list of wo starts empty.
LEMMA CreateRefines ==
    ASSUME RecTypeOK,
           NEW wo \in WorkOrders, NEW svc \in ServiceIds, NEW wk \in WorkerIds,
           NEW req \in RequesterIds, NEW st \in CreateStatuses,
           WorkOrderReceiptCreate(wo, svc, wk, req, st)
    PROVE  UL!LogCreate(wo)
<1>1. receipt'[wo] \in ReceiptRec /\ receipt'[wo].updates = << >>
  BY DEF RecTypeOK, WorkOrderReceiptCreate, ReceiptRec
<1>2. receipt'[wo] # Absent
  BY <1>1, AbsentAssumption
<1>3. \A w \in WorkOrders \ {wo} : receipt'[w] = receipt[w]
  BY DEF RecTypeOK, WorkOrderReceiptCreate
<1>4. QED
  BY <1>1, <1>2, <1>3 DEF RecTypeOK, UL!LogCreate, UpdatesOf

\* workOrderReceiptUpdate maps to LogAppend when it appends, and to a
\* stutter of the log when the updateType is 256 or more.
LEMMA UpdateRefines ==
    ASSUME RecTypeOK,
           NEW wo \in WorkOrders, NEW upd \in Updaters, NEW ty \in UpdateTypes,
           WorkOrderReceiptUpdate(wo, upd, ty)
    PROVE  [UL!LogNext]_UpdatesOf
<1>1. receipt[wo] \in ReceiptRec /\ receipt[wo] # Absent
  BY DEF RecTypeOK, WorkOrderReceiptUpdate
<1>2. receipt[wo].updates \in Seq(UpdateRec)
  BY <1>1 DEF ReceiptRec
<1>3. \A w \in WorkOrders \ {wo} : receipt'[w] = receipt[w]
  BY DEF RecTypeOK, WorkOrderReceiptUpdate
<1>4. CASE ty < 256
  <2> DEFINE e == [updaterId |-> upd, updateType |-> ty]
  <2>1. e \in UpdateRec
    BY DEF UpdateRec
  <2>2. receipt'[wo] = [receipt[wo] EXCEPT !.updates = Append(receipt[wo].updates, e)]
    BY <1>1, <1>4 DEF RecTypeOK, WorkOrderReceiptUpdate
  <2>3. receipt'[wo] \in ReceiptRec /\ receipt'[wo].updates = Append(receipt[wo].updates, e)
    <3>1. Append(receipt[wo].updates, e) \in Seq(UpdateRec)
      BY <1>2, <2>1, AppendProperties
    <3>2. QED
      BY <1>1, <2>2, <3>1 DEF ReceiptRec
  <2>4. receipt'[wo] # Absent /\ receipt[wo].updates # Absent
    BY <1>2, <2>3, AbsentAssumption
  <2>5. UL!LogAppend(wo, e)
    BY <1>1, <1>3, <2>3, <2>4 DEF RecTypeOK, UL!LogAppend, UpdatesOf
  <2>6. QED
    BY <2>1, <2>5 DEF UL!LogNext
<1>5. CASE ~(ty < 256)
  <2>1. receipt'[wo] = receipt[wo]
    BY <1>1, <1>5 DEF RecTypeOK, WorkOrderReceiptUpdate, ReceiptRec
  <2>2. UpdatesOf' = UpdatesOf
    BY <1>3, <2>1 DEF RecTypeOK, UpdatesOf
  <2>3. QED
    BY <2>2
<1>6. QED
  BY <1>4, <1>5

(***************************************************************************)
(* The update log is append-only (workOrderReceiptCreate and               *)
(* workOrderReceiptUpdate), for all constants: the chaincode implements    *)
(* UpdateLog under the mapping UpdatesOf.  Initially no receipt has a log; *)
(* a create maps to LogCreate, an update to LogAppend or, for an           *)
(* updateType of 256 or more, to a stutter, and every read to a stutter.   *)
(***************************************************************************)
THEOREM UpdateLogRefinement == Spec => UpdateLogRefined
<1>1. Init => UL!LogInit
  BY DEF Init, UL!LogInit, UpdatesOf
<1>2. RecTypeOK /\ [Next]_vars => [UL!LogNext]_UpdatesOf
  <2> SUFFICES ASSUME RecTypeOK, [Next]_vars PROVE [UL!LogNext]_UpdatesOf
    OBVIOUS
  <2>1. CASE \E wo \in WorkOrders, svc \in ServiceIds, wk \in WorkerIds,
                req \in RequesterIds, st \in CreateStatuses :
                   WorkOrderReceiptCreate(wo, svc, wk, req, st)
    BY <2>1, CreateRefines DEF UL!LogNext
  <2>2. CASE \E wo \in WorkOrders, upd \in Updaters, ty \in UpdateTypes :
                   WorkOrderReceiptUpdate(wo, upd, ty)
    BY <2>2, UpdateRefines
  <2>3. CASE ~ \/ \E wo \in WorkOrders, svc \in ServiceIds, wk \in WorkerIds,
                    req \in RequesterIds, st \in CreateStatuses :
                       WorkOrderReceiptCreate(wo, svc, wk, req, st)
               \/ \E wo \in WorkOrders, upd \in Updaters, ty \in UpdateTypes :
                       WorkOrderReceiptUpdate(wo, upd, ty)
    BY <2>3, ReadsKeepReceipt DEF UpdatesOf
  <2>4. QED
    BY <2>1, <2>2, <2>3
<1>3. QED
  BY <1>1, <1>2, ReceiptTyped, PTL DEF Spec, UpdateLogRefined, UL!LogSpec

-----------------------------------------------------------------------------
(***************************************************************************)
(* Type correctness of the whole state, the read answers included.  A     *)
(* lookup's lookupTag is the ledger's bookmark, a CHOOSE of the least key  *)
(* left in the scan, which is a stored key only because the create index  *)
(* is finite; so the inductive invariant adds IsFiniteSet(cindex).  A      *)
(* create puts one entry in place of at most one, nothing else adds any.   *)
(***************************************************************************)
RTInv == TypeOK /\ IsFiniteSet(cindex)

\* processAttributes of naturals is a key of naturals.
LEMMA AttrsAreSeqs ==
    ASSUME NEW a \in Nat, NEW b \in Nat, NEW c \in Nat, NEW d \in Nat
    PROVE  /\ CreateAttrs(a, b, c, d) \in Seq(Nat)
           /\ UpdateAttrs(a, b, c) \in Seq(Nat)
<1>1. \A v \in Nat : TokenAttr(v) \in Seq(Nat) /\ NumberAttr(v) \in Seq(Nat)
  BY DEF TokenAttr, NumberAttr
<1>2. QED
  BY <1>1, ConcatProperties DEF CreateAttrs, UpdateAttrs

\* The stored create keys are finitely many keys of naturals.
LEMMA CreateKeysFinite ==
    ASSUME RTInv
    PROVE  /\ {e[1] : e \in cindex} \subseteq Seq(Nat)
           /\ IsFiniteSet({e[1] : e \in cindex})
<1> DEFINE f == [e \in cindex |-> e[1]]
<1>1. f \in Surjection(cindex, {e[1] : e \in cindex})
  BY DEF Surjection
<1>2. QED
  BY <1>1, FS_Surjection DEF RTInv, TypeOK

\* workOrderReceiptCreate: the record is typed and the index stays finite.
LEMMA CreateTyped ==
    ASSUME RTInv,
           NEW wo \in WorkOrders, NEW svc \in ServiceIds, NEW wk \in WorkerIds,
           NEW req \in RequesterIds, NEW st \in CreateStatuses,
           WorkOrderReceiptCreate(wo, svc, wk, req, st)
    PROVE  RTInv'
<1> DEFINE key == CreateAttrs(svc, wk, req, st)
<1>1. RecTypeOK'
  BY CreateTypeOK DEF RTInv, TypeOK, RecTypeOK
<1>2. \A w \in WorkOrders : receipt'[w] # Absent => Len(receipt'[w].updates) <= MAXLOG
  BY ReceiptAssumption DEF RTInv, TypeOK, WorkOrderReceiptCreate
<1>3. key \in Seq(Nat)
  BY ReceiptAssumption, AttrsAreSeqs
<1>4. cindex' \subseteq Seq(Nat) \X WorkOrders
  BY <1>3 DEF RTInv, TypeOK, WorkOrderReceiptCreate, PutEntry
<1>5. IsFiniteSet(cindex')
  <2>1. IsFiniteSet({e \in cindex : e[1] # key})
    BY FS_Subset DEF RTInv
  <2>2. QED
    BY <2>1, FS_AddElement DEF WorkOrderReceiptCreate, PutEntry
<1>6. QED
  BY <1>1, <1>2, <1>4, <1>5 DEF RTInv, TypeOK, RecTypeOK, WorkOrderReceiptCreate

\* workOrderReceiptUpdate: the list grows by at most one under its bound
\* and the new update-index key is a key of naturals.
LEMMA UpdateTyped ==
    ASSUME RTInv,
           NEW wo \in WorkOrders, NEW upd \in Updaters, NEW ty \in UpdateTypes,
           WorkOrderReceiptUpdate(wo, upd, ty)
    PROVE  RTInv'
<1>1. RecTypeOK'
  BY UpdateTypeOK DEF RTInv, TypeOK, RecTypeOK
<1>2. receipt[wo] \in ReceiptRec
  BY DEF RTInv, TypeOK, WorkOrderReceiptUpdate
<1>3. Len(receipt'[wo].updates) <= Len(receipt[wo].updates) + 1
  <2>1. [updaterId |-> upd, updateType |-> ty] \in UpdateRec
    BY DEF UpdateRec
  <2>2. QED
    BY <1>2, <2>1, AppendProperties DEF WorkOrderReceiptUpdate, ReceiptRec
<1>4. \A w \in WorkOrders : receipt'[w] # Absent => Len(receipt'[w].updates) <= MAXLOG
  <2>1. Len(receipt'[wo].updates) <= MAXLOG
    <3>1. Len(receipt[wo].updates) < MAXLOG /\ Len(receipt[wo].updates) \in Nat
      BY <1>2 DEF WorkOrderReceiptUpdate, ReceiptRec
    <3>2. QED
      BY <1>3, <3>1, ReceiptAssumption
  <2>2. \A w \in WorkOrders \ {wo} : receipt'[w] = receipt[w]
    BY DEF RTInv, TypeOK, WorkOrderReceiptUpdate
  <2>3. QED
    BY <2>1, <2>2 DEF RTInv, TypeOK
<1>5. uindex' \subseteq Seq(Nat)
  <2>1. Len(receipt'[wo].updates) \in Nat
    BY <1>1 DEF RecTypeOK, ReceiptRec
  <2>2. UpdateAttrs(wo, upd, Len(receipt'[wo].updates)) \in Seq(Nat)
    BY <2>1, ReceiptAssumption, AttrsAreSeqs
  <2>3. QED
    BY <2>2 DEF RTInv, TypeOK, WorkOrderReceiptUpdate
<1>6. QED
  BY <1>1, <1>4, <1>5 DEF RTInv, TypeOK, RecTypeOK, WorkOrderReceiptUpdate

\* A lookup page, from any tag, answers with a typed record.
LEMMA LookUpTyped ==
    ASSUME RTInv, NEW f \in Filters, NEW tag, WorkOrderReceiptLookUpNext(f, tag)
    PROVE  RTInv'
<1> DEFINE keys == {e[1] : e \in cindex}
           p == CreateAttrs(f[1], f[2], f[3], f[4])
<1>1. NextBookmark(keys, p, tag, PAGESIZE + 1, NoTag) \in Seq(Nat) \cup {NoTag}
  BY CreateKeysFinite, BookmarkInKeys
<1>2. {e[2] : e \in {e \in cindex : e[1] \in Fetched(keys, p, tag, PAGESIZE, NoTag)}}
         \subseteq WorkOrders
  BY DEF RTInv, TypeOK
<1>3. QED
  BY <1>1, <1>2 DEF WorkOrderReceiptLookUpNext, RTInv, TypeOK

\* getUpdate's answer, as the handler computes it and as the spec states
\* it, is an update of the list or an error.
LEMMA UpdateRetrieveTyped ==
    ASSUME RTInv, NEW wo \in WorkOrders, NEW upd \in QueryUpdaters,
           NEW idx \in {1, LATEST}, WorkOrderReceiptUpdateRetrieve(wo, upd, idx)
    PROVE  RTInv'
<1> DEFINE u == receipt[wo].updates
           index == (Len(u) + UINT64 - 1) % UINT64
<1>1. CASE receipt[wo] = Absent
  BY <1>1 DEF WorkOrderReceiptUpdateRetrieve, SpecUpdate, RTInv, TypeOK,
              UpdateAnswers, Err
<1>2. CASE receipt[wo] # Absent
  <2>1. u \in Seq(UpdateRec)
    BY <1>2 DEF RTInv, TypeOK, ReceiptRec
  <2>2. index \in Nat
    <3>1. Len(u) \in Nat /\ UINT64 \in Nat \ {0}
      BY <2>1, ReceiptAssumption
    <3>2. Len(u) + UINT64 - 1 \in Nat /\ UINT64 > 0
      BY <3>1
    <3>3. \A a \in Nat, m \in Nat : m > 0 => a % m \in Nat
      OBVIOUS
    <3>4. QED
      BY <3>1, <3>2, <3>3, Zenon DEF index
  <2>3. index < Len(u) => u[index + 1] \in UpdateRec
    BY <2>1, <2>2
  <2>4. \A n \in 1..Len(u) : u[n] \in UpdateRec
    BY <2>1
  <2>5. SpecUpdate(wo, upd, idx) \in UpdateAnswers
    BY <1>2, <2>4 DEF SpecUpdate, UpdateAnswers, Err
  <2>6. answer'.got \in UpdateAnswers
    BY <1>2, <2>2, <2>3 DEF WorkOrderReceiptUpdateRetrieve, UpdateAnswers, Err
  <2>7. answer' = [kind |-> "updateRetrieve", got |-> answer'.got,
                   want |-> SpecUpdate(wo, upd, idx)]
    BY DEF WorkOrderReceiptUpdateRetrieve
  <2>8. QED
    BY <2>5, <2>6, <2>7 DEF WorkOrderReceiptUpdateRetrieve, RTInv, TypeOK
<1>3. QED
  BY <1>1, <1>2

(***************************************************************************)
(* Type correctness (every handler of the connector Receipt chaincode):   *)
(* the receipts, both indexes and the last read answer keep their types,  *)
(* for all constants; in particular no list outgrows MAXLOG, a lookupTag  *)
(* is a stored create key or empty, and getUpdate's answer is an update   *)
(* of the list or an error, whatever the uint64 index wraps to.            *)
(***************************************************************************)
THEOREM ReceiptTypeCorrect == Spec => []TypeOK
<1>1. Init => RTInv
  BY FS_EmptySet DEF Init, RTInv, TypeOK
<1>2. RTInv /\ [Next]_vars => RTInv'
  <2> SUFFICES ASSUME RTInv, [Next]_vars PROVE RTInv'
    OBVIOUS
  <2>1. CASE \E wo \in WorkOrders, svc \in ServiceIds, wk \in WorkerIds,
                req \in RequesterIds, st \in CreateStatuses :
                   WorkOrderReceiptCreate(wo, svc, wk, req, st)
    BY <2>1, CreateTyped
  <2>2. CASE \E wo \in WorkOrders, upd \in Updaters, ty \in UpdateTypes :
                   WorkOrderReceiptUpdate(wo, upd, ty)
    BY <2>2, UpdateTyped
  <2>3. CASE \E f \in Filters : WorkOrderReceiptLookUp(f)
    BY <2>3, LookUpTyped DEF WorkOrderReceiptLookUp
  <2>4. CASE \E f \in Filters, tag \in {e[1] : e \in cindex} :
                WorkOrderReceiptLookUpNext(f, tag)
    BY <2>4, LookUpTyped
  <2>5. CASE \E wo \in WorkOrders, upd \in QueryUpdaters, idx \in {1, LATEST} :
                WorkOrderReceiptUpdateRetrieve(wo, upd, idx)
    BY <2>5, UpdateRetrieveTyped
  <2>6. CASE \E wo \in WorkOrders : WorkOrderReceiptRetrieve(wo)
    BY <2>6, ReceiptAssumption DEF WorkOrderReceiptRetrieve, RTInv, TypeOK, ReceiptRec
  <2>7. CASE UNCHANGED vars
    BY <2>7 DEF vars, RTInv, TypeOK
  <2>8. QED
    BY <2>1, <2>2, <2>3, <2>4, <2>5, <2>6, <2>7 DEF Next
<1>3. QED
  BY <1>1, <1>2, PTL DEF Spec, RTInv
=============================================================================
