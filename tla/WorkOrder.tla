----------------------------- MODULE WorkOrder -----------------------------
(***************************************************************************)
(* The WorkOrder chaincode (sdk/avalon_sdk/fabric/chaincode/order/go).     *)
(*                                                                         *)
(* World state: one WorkOrder record per workOrderId, and nothing else: no *)
(* index, no log.  workOrderSubmit puts a record with status               *)
(* ORDERSUBMITTED and an empty response; workOrderComplete reads it back,  *)
(* sets ORDERCOMPLETED and the response and puts it again.  Each handler   *)
(* is one ledger transaction, so one atomic action; a failing handler      *)
(* commits nothing.  Nothing checks the caller, the order's state or       *)
(* whether the workOrderId is already taken, so a caller that re-issues a  *)
(* submit it saw time out, or a worker that re-sends its completion, is    *)
(* just another call of the same handler.                                  *)
(*                                                                         *)
(* Data abstraction: workerId, requesterId and workOrderRequest are        *)
(* written once and read by no later call, so they are left out; a        *)
(* response is a member of a small set, the empty string being NoResponse. *)
(***************************************************************************)
EXTENDS Naturals

CONSTANTS
    OrderIds,    \* workOrderIds callers use
    Responses,   \* workOrderResponse strings
    NoResponse,  \* the empty response ""
    NoOrder      \* no work order stored under a workOrderId

ASSUME OrderAssumption ==
    /\ NoResponse \notin Responses
    /\ NoOrder \notin [status : Nat, response : Responses \cup {NoResponse}]

\* definitions.go: work order status codes.
ORDERSUBMITTED == 0
ORDERCOMPLETED == 1
ORDERFAILED == 2

\* The WorkOrder struct, with the fields a later call reads.
OrderRec ==
    [status : {ORDERSUBMITTED, ORDERCOMPLETED},
     response : Responses \cup {NoResponse}]

VARIABLE order  \* workOrderId -> WorkOrder record, or NoOrder

ovars == <<order>>

OrderTypeOK == order \in [OrderIds -> OrderRec \cup {NoOrder}]

OrderInit == order = [w \in OrderIds |-> NoOrder]

\* Mutant of WorkOrderSubmit: a submit over an existing record keeps the
\* response stored there.
WorkOrderSubmitKeepResponse(w) ==
    order' = [order EXCEPT ![w] =
                [status |-> ORDERSUBMITTED,
                 response |-> IF @ = NoOrder THEN NoResponse ELSE @.response]]

(***************************************************************************)
(* workOrderSubmit(workOrderId, workerId, requestId, workOrderRequest):    *)
(* with four arguments, put a fresh record with status ORDERSUBMITTED and  *)
(* an empty response under the workOrderId, replacing whatever is there.   *)
(***************************************************************************)
WorkOrderSubmit(w) ==
    order' = [order EXCEPT ![w] = [status |-> ORDERSUBMITTED, response |-> NoResponse]]

\* Mutant of WorkOrderComplete: the neighbouring constant ORDERFAILED is
\* stored instead of ORDERCOMPLETED.
WorkOrderCompleteFailed(w, r) ==
    /\ order[w] # NoOrder
    /\ order' = [order EXCEPT ![w].status = ORDERFAILED, ![w].response = r]

(***************************************************************************)
(* workOrderComplete(workOrderId, workOrderResponse): getOrderByID fails   *)
(* when no record exists; otherwise the record gets status ORDERCOMPLETED  *)
(* and the response, whatever its status was, and is put back.            *)
(***************************************************************************)
WorkOrderComplete(w, r) ==
    /\ order[w] # NoOrder
    /\ order' = [order EXCEPT ![w].status = ORDERCOMPLETED, ![w].response = r]

OrderNext ==
    \/ \E w \in OrderIds : WorkOrderSubmit(w)
    \/ \E w \in OrderIds, r \in Responses \cup {NoResponse} : WorkOrderComplete(w, r)

OrderSpec == OrderInit /\ [][OrderNext]_ovars

-----------------------------------------------------------------------------
(***************************************************************************)
(* A submitted order has no response (workOrderSubmit / workOrderComplete  *)
(* / workOrderGet): whoever reads an order as ORDERSUBMITTED, after any    *)
(* sequence of submits and completions, re-submits included, never sees a *)
(* response left from an earlier completion.                               *)
(***************************************************************************)
SubmittedHasNoResponse ==
    \A w \in OrderIds :
        order[w] # NoOrder /\ order[w].status = ORDERSUBMITTED
            => order[w].response = NoResponse

=============================================================================
