---------------------------- MODULE ReceiptLegacy ----------------------------
(***************************************************************************)
(* The older Receipt chaincode of the sdk                                 *)
(* (sdk/avalon_sdk/fabric/chaincode/receipt/go), which the connector       *)
(* version superseded.                                                     *)
(*                                                                         *)
(* World state: the Receipt record under its workOrderId, and one entry    *)
(* per create under the composite key                                      *)
(*   "Receipt" | workerServiceId | workerId | requesterId | createStatus   *)
(* whose value is the workOrderId.  The key has no workOrderId, so a later *)
(* create with the same four values replaces the entry's value; the entry  *)
(* of a receipt created again with other values stays.  There is no       *)
(* update log: workOrderReceiptUpdate always returns "Not Implemented",   *)
(* a stuttering step.  Each handler is one ledger transaction; a failing  *)
(* one commits nothing.                                                    *)
(*                                                                         *)
(* Data abstraction: identifiers are naturals ordered like their padded    *)
(* encodings, the empty token being 0; workOrderRequestHash is read by no  *)
(* later call and is left out.                                             *)
(***************************************************************************)
EXTENDS Naturals, FiniteSets, FabricPaging

CONSTANTS
    WorkOrderIds,    \* workOrderIds callers use
    ServiceIds,      \* workerServiceIds
    WorkerIds,       \* workerIds
    RequesterIds,    \* requesterIds
    CreateStatuses,  \* receiptCreateStatus values (parsed uint64)
    PAGESIZE,        \* ids per lookup page
    Absent,          \* no receipt stored under a workOrderId
    NoTag,           \* the empty lookupTag
    NoAnswer         \* no lookup answered yet

ASSUME LegacyAssumption ==
    /\ WorkOrderIds \cup ServiceIds \cup WorkerIds \cup RequesterIds \subseteq Nat
    /\ CreateStatuses \subseteq Nat
    /\ PAGESIZE \in Nat \ {0}
    /\ NoTag \notin Seq(Nat)

\* The Receipt struct, with the fields an index or a later call reads.
LegacyRec ==
    [workerServiceId : ServiceIds, workerId : WorkerIds,
     requesterId : RequesterIds, receiptCreateStatus : CreateStatuses]

\* A composite key of the create index, and a lookup filter: both are the
\* four padded values in this order.
CreateKeys == ServiceIds \X WorkerIds \X RequesterIds \X CreateStatuses
LegacyFilters ==
    (ServiceIds \cup {0}) \X (WorkerIds \cup {0}) \X (RequesterIds \cup {0})
        \X (CreateStatuses \cup {0})

VARIABLES
    lreceipt,  \* workOrderId -> Receipt record, or Absent
    lindex,    \* set of create-index entries <<key, workOrderId>>
    lanswer    \* the last lookup answer, or NoAnswer

legacyVars == <<lreceipt, lindex, lanswer>>

\* PutState on a key of the create index: the entry's value is replaced.
PutKey(set, key, val) == {e \in set : e[1] # key} \cup {<<key, val>>}

LegacyTypeOK ==
    /\ lreceipt \in [WorkOrderIds -> LegacyRec \cup {Absent}]
    /\ lindex \subseteq CreateKeys \X WorkOrderIds
    /\ \A e, f \in lindex : e[1] = f[1] => e = f
    /\ lanswer \in {NoAnswer} \cup
         [filter : LegacyFilters, ids : SUBSET WorkOrderIds,
          lookupTag : CreateKeys \cup {NoTag}]

LegacyInit ==
    /\ lreceipt = [w \in WorkOrderIds |-> Absent]
    /\ lindex = {}
    /\ lanswer = NoAnswer

\* Mutant of LegacyReceiptCreate: the entry's value is the workerId.
LegacyReceiptCreateWorkerValue(wo, svc, wk, req, st) ==
    /\ lreceipt' = [lreceipt EXCEPT ![wo] =
                      [workerServiceId |-> svc, workerId |-> wk,
                       requesterId |-> req, receiptCreateStatus |-> st]]
    /\ lindex' = PutKey(lindex, <<svc, wk, req, st>>, wk)
    /\ UNCHANGED lanswer

(***************************************************************************)
(* workOrderReceiptCreate: with six arguments and a status that parses,    *)
(* put the record under the workOrderId, replacing any receipt there, then *)
(* put the workOrderId under the key of the four padded values.            *)
(***************************************************************************)
LegacyReceiptCreate(wo, svc, wk, req, st) ==
    /\ lreceipt' = [lreceipt EXCEPT ![wo] =
                      [workerServiceId |-> svc, workerId |-> wk,
                       requesterId |-> req, receiptCreateStatus |-> st]]
    /\ lindex' = PutKey(lindex, <<svc, wk, req, st>>, wo)
    /\ UNCHANGED lanswer

(***************************************************************************)
(* workOrderReceiptLookUpNext(svc, worker, requester, status, tag): the    *)
(* four filter values, padded, are the partial key; the ledger fetches     *)
(* PAGESIZE + 1 entries from the tag; the loop keeps the values of the     *)
(* first PAGESIZE; the answer carries the ledger's bookmark.  The filter   *)
(* is recorded beside it for the property.                                 *)
(***************************************************************************)
LegacyLookUpNext(f, tag) ==
    LET keys == {e[1] : e \in lindex}
        kept == Fetched(keys, f, tag, PAGESIZE, NoTag)
    IN  /\ lanswer' = [filter |-> f,
                       ids |-> {e[2] : e \in {e \in lindex : e[1] \in kept}},
                       lookupTag |-> NextBookmark(keys, f, tag, PAGESIZE + 1, NoTag)]
        /\ UNCHANGED <<lreceipt, lindex>>

\* workOrderReceiptLookUp: workOrderReceiptLookUpNext with an empty tag.
LegacyLookUp(f) == LegacyLookUpNext(f, NoTag)

LegacyNext ==
    \/ \E wo \in WorkOrderIds, svc \in ServiceIds, wk \in WorkerIds,
          req \in RequesterIds, st \in CreateStatuses :
          LegacyReceiptCreate(wo, svc, wk, req, st)
    \/ \E f \in LegacyFilters : LegacyLookUp(f)
    \* the handler takes any key as lookupTag, not only one it handed out
    \/ \E f \in LegacyFilters, tag \in {e[1] : e \in lindex} : LegacyLookUpNext(f, tag)

LegacySpec == LegacyInit /\ [][LegacyNext]_legacyVars

-----------------------------------------------------------------------------
\* The four values of a receipt's create key.
RecKey(r) == <<r.workerServiceId, r.workerId, r.requesterId, r.receiptCreateStatus>>

(***************************************************************************)
(* Lookup soundness (spec.md 8, retract-before-insert: an entity never     *)
(* appears under both its old and its new attributes): every id a lookup   *)
(* returns is of a receipt whose current create values are the filter.    *)
(* workOrderReceiptCreate over an existing workOrderId puts the new record *)
(* and a new entry but never deletes the entry of the old values.          *)
(***************************************************************************)
LegacyLookUpSound ==
    lanswer # NoAnswer =>
        \A id \in lanswer.ids : RecKey(lreceipt[id]) = lanswer.filter

=============================================================================
