------------------------------ MODULE Receipt ------------------------------
(***************************************************************************)
(* The work-order Receipt chaincode                                        *)
(* (sdk/avalon_sdk/connector/blockchains/fabric/chaincode/receipt/go).     *)
(*                                                                         *)
(* World state: the Receipt document of each work order under its          *)
(* workOrderId (the create fields and the list of updates), one entry per  *)
(* create under the composite key "ReceiptCreate" | attrs whose value is   *)
(* the workOrderId, and one entry per update call under "ReceiptUpdate" |  *)
(* attrs.  A put to an existing key replaces its value.  Each handler is   *)
(* one ledger transaction and one atomic action; its error paths stutter.  *)
(* The caller's last answer from a read handler is kept, with what the     *)
(* spec says it should have been, so that properties can judge it.         *)
(*                                                                         *)
(* Data abstraction: tokens and numbers are naturals ordered like their    *)
(* padded encodings; the empty token is 0.  updateData, updateSignature,   *)
(* signatureRules and workOrderRequestHash are never indexed nor read by a *)
(* property and are left out; the value of an update entry (the whole      *)
(* Receipt document) is never read back and is left out too.               *)
(***************************************************************************)
EXTENDS Naturals, Sequences, FiniteSets, FabricPaging

CONSTANTS
    WorkOrders,      \* workOrderIds
    ServiceIds,      \* workerServiceIds receipts are created with
    WorkerIds,       \* workerIds receipts are created with
    RequesterIds,    \* requesterIds receipts are created with
    CreateStatuses,  \* receiptCreateStatus values (parsed uint64)
    Updaters,        \* updaterIds of workOrderReceiptUpdate calls
    QueryUpdaters,   \* updaterIds of getUpdate calls (0: the empty one)
    UpdateTypes,     \* updateType values (parsed uint64)
    MAXLOG,          \* bound on the updates of one receipt
    UINT64,          \* modulus of uint64 arithmetic
    PAGESIZE,        \* ids per lookup page
    Absent,          \* no receipt stored under a workOrderId
    NoTag,           \* the empty lookupTag
    NoAnswer         \* no read answered yet

ASSUME ReceiptAssumption ==
    /\ WorkOrders \cup ServiceIds \cup WorkerIds \cup RequesterIds \subseteq Nat \ {0}
    /\ Updaters \subseteq Nat \ {0}
    /\ QueryUpdaters \subseteq Nat
    /\ CreateStatuses \cup UpdateTypes \subseteq Nat
    /\ MAXLOG \in Nat /\ PAGESIZE \in Nat \ {0}
    /\ UINT64 \in Nat /\ UINT64 > MAXLOG + 1
    /\ NoTag \notin Seq(Nat)

\* definitions.go: receipt status codes; 255 is "any status" in queries and
\* 256 asks workOrderReceiptUpdateRetrieve for the latest update.
PENDING == 0
COMPLETED == 1
PROCESSED == 2
FAILED == 3
REJECTED == 4
ANYSTATUS == 255
LATEST == 256

\* An entry of ReceiptUpdates, with the fields a property reads.
UpdateRec == [updaterId : Updaters, updateType : UpdateTypes]

ReceiptRec ==
    [workerServiceId : ServiceIds, workerId : WorkerIds, requesterId : RequesterIds,
     receiptCreateStatus : CreateStatuses, updates : Seq(UpdateRec)]

\* Absent is neither a stored receipt nor an update list.
ASSUME AbsentAssumption == Absent \notin ReceiptRec \cup Seq(UpdateRec)

VARIABLES
    receipt,  \* workOrderId -> Receipt document, or Absent
    cindex,   \* set of <<key, workOrderId>>: the "ReceiptCreate" entries
    uindex,   \* set of keys of the "ReceiptUpdate" entries
    answer    \* the last answer of a read handler, or NoAnswer

vars == <<receipt, cindex, uindex, answer>>

(***************************************************************************)
(* processAttributes, one attribute at a time: a token is appended padded  *)
(* unless the raw input is empty; a number is appended padded, and         *)
(* appended a second time when it is not zero.                             *)
(***************************************************************************)
TokenAttr(v) == IF v = 0 THEN << >> ELSE <<v>>
NumberAttr(v) == IF v # 0 THEN <<v, v>> ELSE <<v>>

\* The attributes of the "ReceiptCreate" key, and of a lookup's partial key.
CreateAttrs(svc, wk, req, st) ==
    TokenAttr(svc) \o TokenAttr(wk) \o TokenAttr(req) \o NumberAttr(st)

\* The attributes of the "ReceiptUpdate" key.
UpdateAttrs(wo, upd, n) == TokenAttr(wo) \o TokenAttr(upd) \o NumberAttr(n)

\* PutState on a composite key of the create index: the value is replaced.
PutEntry(set, key, val) == {e \in set : e[1] # key} \cup {<<key, val>>}

\* The status an update sets, as the handler's comment states it: the last
\* update of type 0..255, else the create status.
CurrentStatus(wo) ==
    LET u == receipt[wo].updates
    IN  IF u = << >> THEN receipt[wo].receiptCreateStatus ELSE u[Len(u)].updateType

\* A lookup filter: workerServiceId, workerId, requesterId, receiptStatus;
\* 0 is the empty token and the zero status.
Filters ==
    (ServiceIds \cup {0}) \X (WorkerIds \cup {0}) \X (RequesterIds \cup {0})
        \X (CreateStatuses \cup {t \in UpdateTypes : t < 256} \cup {0, ANYSTATUS})

\* What a read handler answers: an update, or an error by name.
Err(name) == [error |-> name]
UpdateAnswers == UpdateRec \cup {Err(n) : n \in {"notFound", "noMatch", "panic"}}

TypeOK ==
    /\ receipt \in [WorkOrders -> ReceiptRec \cup {Absent}]
    /\ \A wo \in WorkOrders : receipt[wo] # Absent => Len(receipt[wo].updates) <= MAXLOG
    /\ cindex \subseteq Seq(Nat) \X WorkOrders
    /\ uindex \subseteq Seq(Nat)
    /\ answer \in {NoAnswer}
         \cup [kind : {"lookup"}, filter : Filters, first : BOOLEAN,
               ids : SUBSET WorkOrders, lookupTag : Seq(Nat) \cup {NoTag},
               matching : SUBSET WorkOrders]
         \cup [kind : {"updateRetrieve"}, got : UpdateAnswers, want : UpdateAnswers]
         \cup [kind : {"retrieve"}, got : Nat]

Init ==
    /\ receipt = [wo \in WorkOrders |-> Absent]
    /\ cindex = {}
    /\ uindex = {}
    /\ answer = NoAnswer

\* Mutant of WorkOrderReceiptCreate: the create status is parsed from
\* args[3], the requesterId, instead of args[4].
WorkOrderReceiptCreateWrongArg(wo, svc, wk, req, st) ==
    /\ receipt' = [receipt EXCEPT ![wo] =
                     [workerServiceId |-> svc, workerId |-> wk, requesterId |-> req,
                      receiptCreateStatus |-> req, updates |-> << >>]]
    /\ cindex' = PutEntry(cindex, CreateAttrs(svc, wk, req, req), wo)
    /\ UNCHANGED <<uindex, answer>>

(***************************************************************************)
(* workOrderReceiptCreate: store a Receipt with no updates under the       *)
(* workOrderId, replacing any receipt there, and put the workOrderId under *)
(* the key of its service, worker, requester and create status.  The key   *)
(* has no workOrderId: a later receipt with the same attributes replaces   *)
(* the entry.  The entry of a replaced receipt stays.                      *)
(***************************************************************************)
WorkOrderReceiptCreate(wo, svc, wk, req, st) ==
    /\ receipt' = [receipt EXCEPT ![wo] =
                     [workerServiceId |-> svc, workerId |-> wk, requesterId |-> req,
                      receiptCreateStatus |-> st, updates |-> << >>]]
    /\ cindex' = PutEntry(cindex, CreateAttrs(svc, wk, req, st), wo)
    /\ UNCHANGED <<uindex, answer>>

\* Mutant of WorkOrderReceiptUpdate: the entry's key takes the length of
\* ReceiptUpdates read before the append.
WorkOrderReceiptUpdateOldLen(wo, upd, ty) ==
    /\ receipt[wo] # Absent
    /\ Len(receipt[wo].updates) < MAXLOG
    /\ LET u == IF ty < 256
                  THEN Append(receipt[wo].updates, [updaterId |-> upd, updateType |-> ty])
                  ELSE receipt[wo].updates
       IN  /\ receipt' = [receipt EXCEPT ![wo].updates = u]
           /\ uindex' = uindex \cup {UpdateAttrs(wo, upd, Len(receipt[wo].updates))}
    /\ UNCHANGED <<cindex, answer>>

\* Mutant of WorkOrderReceiptUpdate: ReceiptUpdates is set to the new update
\* alone instead of having it appended.
WorkOrderReceiptUpdateReplace(wo, upd, ty) ==
    /\ receipt[wo] # Absent
    /\ Len(receipt[wo].updates) < MAXLOG
    /\ LET u == IF ty < 256
                  THEN <<[updaterId |-> upd, updateType |-> ty]>>
                  ELSE receipt[wo].updates
       IN  /\ receipt' = [receipt EXCEPT ![wo].updates = u]
           /\ uindex' = uindex \cup {UpdateAttrs(wo, upd, Len(u))}
    /\ UNCHANGED <<cindex, answer>>

(***************************************************************************)
(* workOrderReceiptUpdate: the receipt must exist.  An updateType below    *)
(* 256 is appended to ReceiptUpdates; any other only sets the event's      *)
(* error code.  Either way the receipt is put back and an entry is put     *)
(* under the workOrderId, the updaterId and the length of ReceiptUpdates.  *)
(***************************************************************************)
WorkOrderReceiptUpdate(wo, upd, ty) ==
    /\ receipt[wo] # Absent
    /\ Len(receipt[wo].updates) < MAXLOG
    /\ LET u == IF ty < 256
                  THEN Append(receipt[wo].updates, [updaterId |-> upd, updateType |-> ty])
                  ELSE receipt[wo].updates
       IN  /\ receipt' = [receipt EXCEPT ![wo].updates = u]
           /\ uindex' = uindex \cup {UpdateAttrs(wo, upd, Len(u))}
    /\ UNCHANGED <<cindex, answer>>

\* Receipt wo matches filter f as spec.md 4.4 and 4.5 state it: an empty
\* token, a zero status and the status 255 do not constrain, and the status
\* is the receipt's current one.
SpecMatches(wo, f) ==
    /\ receipt[wo] # Absent
    /\ f[1] \in {0, receipt[wo].workerServiceId}
    /\ f[2] \in {0, receipt[wo].workerId}
    /\ f[3] \in {0, receipt[wo].requesterId}
    /\ f[4] \in {0, ANYSTATUS, CurrentStatus(wo)}

(***************************************************************************)
(* workOrderReceiptLookUpNext(svc, worker, requester, status, tag): the    *)
(* partial key is processAttributes of the filter; the ledger fetches      *)
(* PAGESIZE + 1 entries of the "ReceiptCreate" range from the tag; the     *)
(* loop keeps the values of the first PAGESIZE; the answer carries the     *)
(* ledger's bookmark.                                                      *)
(***************************************************************************)
WorkOrderReceiptLookUpNext(f, tag) ==
    LET p == CreateAttrs(f[1], f[2], f[3], f[4])
        keys == {e[1] : e \in cindex}
        kept == Fetched(keys, p, tag, PAGESIZE, NoTag)
    IN  /\ answer' =
             [kind |-> "lookup", filter |-> f, first |-> tag = NoTag,
              ids |-> {e[2] : e \in {e \in cindex : e[1] \in kept}},
              lookupTag |-> NextBookmark(keys, p, tag, PAGESIZE + 1, NoTag),
              matching |-> {wo \in WorkOrders : SpecMatches(wo, f)}]
        /\ UNCHANGED <<receipt, cindex, uindex>>

\* workOrderReceiptLookUp: workOrderReceiptLookUpNext with an empty tag.
WorkOrderReceiptLookUp(f) == WorkOrderReceiptLookUpNext(f, NoTag)

\* The spec's answer to getUpdate(wo, upd, idx) (spec.md 4.5); the updater
\* 0 is the empty updaterId, which filters nothing.
SpecUpdate(wo, upd, idx) ==
    LET u == receipt[wo].updates
        n == IF idx = LATEST THEN Len(u) ELSE idx
    IN  IF receipt[wo] = Absent \/ n \notin 1..Len(u) THEN Err("notFound")
        ELSE IF upd = 0 \/ u[n].updaterId = upd THEN u[n]
        ELSE Err("noMatch")

(***************************************************************************)
(* workOrderReceiptUpdateRetrieve(wo, upd, idx): for idx = 256 the index   *)
(* of the last update is len - 1 computed in uint64, so the "index < 0"    *)
(* check never holds and an empty list is indexed out of range, which      *)
(* panics.  Any other idx reaches the scan, whose lookup-tag argument is   *)
(* args[4] of a three-argument call: out of range, a panic.                *)
(***************************************************************************)
WorkOrderReceiptUpdateRetrieve(wo, upd, idx) ==
    LET u == receipt[wo].updates
        index == (Len(u) + UINT64 - 1) % UINT64
        got == IF receipt[wo] = Absent THEN Err("notFound")
               ELSE IF idx # LATEST THEN Err("panic")
               ELSE IF index < 0 THEN Err("notFound")
               ELSE IF index >= Len(u) THEN Err("panic")
               ELSE IF upd = 0 \/ u[index + 1].updaterId = upd THEN u[index + 1]
               ELSE Err("noMatch")
    IN  /\ answer' = [kind |-> "updateRetrieve", got |-> got,
                      want |-> SpecUpdate(wo, upd, idx)]
        /\ UNCHANGED <<receipt, cindex, uindex>>

(***************************************************************************)
(* workOrderReceiptRetrieve(wo): the receipt must exist; the answer's      *)
(* currentReceiptStatus is copied from receiptCreateStatus.                *)
(***************************************************************************)
WorkOrderReceiptRetrieve(wo) ==
    /\ receipt[wo] # Absent
    /\ answer' = [kind |-> "retrieve", got |-> receipt[wo].receiptCreateStatus]
    /\ UNCHANGED <<receipt, cindex, uindex>>

Next ==
    \/ \E wo \in WorkOrders, svc \in ServiceIds, wk \in WorkerIds, req \in RequesterIds,
          st \in CreateStatuses : WorkOrderReceiptCreate(wo, svc, wk, req, st)
    \/ \E wo \in WorkOrders, upd \in Updaters, ty \in UpdateTypes :
          WorkOrderReceiptUpdate(wo, upd, ty)
    \/ \E f \in Filters : WorkOrderReceiptLookUp(f)
    \* the handler takes any key as lookupTag, not only one it handed out
    \/ \E f \in Filters, tag \in {e[1] : e \in cindex} :
          WorkOrderReceiptLookUpNext(f, tag)
    \/ \E wo \in WorkOrders, upd \in QueryUpdaters, idx \in {1, LATEST} :
          WorkOrderReceiptUpdateRetrieve(wo, upd, idx)
    \/ \E wo \in WorkOrders : WorkOrderReceiptRetrieve(wo)

Spec == Init /\ [][Next]_vars

-----------------------------------------------------------------------------
(***************************************************************************)
(* Update index completeness (workOrderReceiptUpdate): every update in a   *)
(* receipt's list has its "ReceiptUpdate" entry under its updaterId and    *)
(* its 1-based position, the position a getUpdate scan asks for.  The key  *)
(* is built from the length of the list after the append.                  *)
(***************************************************************************)
UpdateIndexComplete ==
    \A wo \in WorkOrders : receipt[wo] # Absent =>
        LET u == receipt[wo].updates
        IN  \A i \in 1..Len(u) : UpdateAttrs(wo, u[i].updaterId, i) \in uindex

\* The refinement mapping: the abstract log of a receipt is the
\* ReceiptUpdates list of the stored record.
UpdatesOf == [wo \in WorkOrders |-> IF receipt[wo] = Absent THEN Absent
                                                          ELSE receipt[wo].updates]

UL == INSTANCE UpdateLog WITH Ids <- WorkOrders, Entries <- UpdateRec, log <- UpdatesOf

(***************************************************************************)
(* The update log is append-only (spec.md 4.5; workOrderReceiptCreate and  *)
(* workOrderReceiptUpdate): the chaincode implements UpdateLog, so every   *)
(* step either leaves all ReceiptUpdates lists alone, starts one afresh by *)
(* a create, or adds one update at the end of an existing receipt's list.  *)
(***************************************************************************)
UpdateLogRefined == UL!LogSpec

(***************************************************************************)
(* Update index exactness (spec.md 4.5: an entry is written by every       *)
(* successful append): every "ReceiptUpdate" entry names an update of the  *)
(* list at its position.  An updateType of 256 or more appends nothing but *)
(* the handler still puts an entry under the unchanged length.             *)
(***************************************************************************)
UpdateIndexExact ==
    \A k \in uindex : \E wo \in WorkOrders :
        /\ receipt[wo] # Absent
        /\ \E i \in 1..Len(receipt[wo].updates) :
              k = UpdateAttrs(wo, receipt[wo].updates[i].updaterId, i)

(***************************************************************************)
(* getUpdate answers (spec.md 4.5, workOrderReceiptUpdateRetrieve): the    *)
(* latest update, the update at a position, "notFound" or "noMatch", as    *)
(* the spec says, and never a runtime failure of the handler.              *)
(***************************************************************************)
UpdateRetrieveCorrect ==
    answer # NoAnswer /\ answer.kind = "updateRetrieve" => answer.got = answer.want

(***************************************************************************)
(* Lookup completeness (spec.md 4.4 and 8, workOrderReceiptLookUp): a      *)
(* first answer with an empty tag holds every receipt whose attributes and *)
(* current status match the filter, an empty token, a zero status and the  *)
(* status 255 matching any.                                                *)
(***************************************************************************)
ReceiptLookUpComplete ==
    answer # NoAnswer /\ answer.kind = "lookup" /\ answer.first
        /\ answer.lookupTag = NoTag => answer.matching \subseteq answer.ids

=============================================================================
