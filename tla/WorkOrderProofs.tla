---------------------------- MODULE WorkOrderProofs ----------------------------
(***************************************************************************)
(* Proofs about the WorkOrder chaincode for all values of the constants    *)
(* that satisfy OrderAssumption.  SubmittedHasNoResponse needs the typing  *)
(* of the order map: a completion sets the status and the response of a   *)
(* record that getOrderByID found, and the other fields of a record are   *)
(* the two the properties read.                                            *)
(***************************************************************************)
EXTENDS WorkOrder, TLAPS

OInv == OrderTypeOK /\ SubmittedHasNoResponse

\* workOrderSubmit puts a fresh SUBMITTED record with an empty response.
LEMMA SubmitStep ==
    ASSUME OInv, NEW w \in OrderIds, WorkOrderSubmit(w)
    PROVE  OInv'
BY DEF OInv, OrderTypeOK, SubmittedHasNoResponse, WorkOrderSubmit, OrderRec,
       ORDERSUBMITTED

\* workOrderComplete leaves a COMPLETED record, whatever the response.
LEMMA CompleteStep ==
    ASSUME OInv, NEW w \in OrderIds, NEW r \in Responses \cup {NoResponse},
           WorkOrderComplete(w, r)
    PROVE  OInv'
<1>1. order[w] \in OrderRec
  BY DEF OInv, OrderTypeOK, WorkOrderComplete
<1>2. order'[w] = [status |-> ORDERCOMPLETED, response |-> r]
  BY <1>1 DEF OInv, OrderTypeOK, WorkOrderComplete, OrderRec
<1>4. \A v \in OrderIds \ {w} : order'[v] = order[v]
  BY DEF OInv, OrderTypeOK, WorkOrderComplete
<1>5. OrderTypeOK'
  <2>1. order'[w] \in OrderRec
    BY <1>2 DEF OrderRec, ORDERSUBMITTED, ORDERCOMPLETED
  <2>2. order' = [order EXCEPT ![w] = order'[w]]
    BY <1>4 DEF OInv, OrderTypeOK, WorkOrderComplete
  <2>3. QED
    BY <2>1, <2>2 DEF OInv, OrderTypeOK
<1>6. SubmittedHasNoResponse'
  BY <1>2, <1>4 DEF OInv, SubmittedHasNoResponse, ORDERSUBMITTED, ORDERCOMPLETED
<1>7. QED
  BY <1>5, <1>6 DEF OInv

\* OInv holds in every state of the WorkOrder chaincode.
LEMMA OInvInvariant == OrderSpec => []OInv
<1>1. OrderInit => OInv
  BY DEF OrderInit, OInv, OrderTypeOK, SubmittedHasNoResponse
<1>2. OInv /\ [OrderNext]_ovars => OInv'
  <2> SUFFICES ASSUME OInv, [OrderNext]_ovars PROVE OInv'
    OBVIOUS
  <2>1. CASE \E w \in OrderIds : WorkOrderSubmit(w)
    BY <2>1, SubmitStep
  <2>2. CASE \E w \in OrderIds, r \in Responses \cup {NoResponse} : WorkOrderComplete(w, r)
    BY <2>2, CompleteStep
  <2>3. CASE UNCHANGED ovars
    BY <2>3 DEF ovars, OInv, OrderTypeOK, SubmittedHasNoResponse
  <2>4. QED
    BY <2>1, <2>2, <2>3 DEF OrderNext
<1>3. QED
  BY <1>1, <1>2, PTL DEF OrderSpec

(***************************************************************************)
(* Type correctness (workOrderSubmit, workOrderComplete), for all          *)
(* constants: every stored order is a record with a status the handlers   *)
(* write and a response or the empty one.                                  *)
(***************************************************************************)
THEOREM OrderTyped == OrderSpec => []OrderTypeOK
BY OInvInvariant, PTL DEF OInv

(***************************************************************************)
(* A submitted order has no response (workOrderSubmit, workOrderComplete), *)
(* for all constants: re-submits and repeated completions included, a      *)
(* record read as ORDERSUBMITTED never carries an earlier response.        *)
(***************************************************************************)
THEOREM SubmittedClean == OrderSpec => []SubmittedHasNoResponse
BY OInvInvariant, PTL DEF OInv

=============================================================================
