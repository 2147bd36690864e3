----------------------------- MODULE MCWorker -----------------------------
(***************************************************************************)
(* Model-checking instance of Worker: three workers of one type and one   *)
(* organization that register, and re-register, with two appTypeIds, so    *)
(* that three entries share one range (one page holds one id and fetches   *)
(* two, so the third makes the ledger hand back a bookmark) and a          *)
(* re-registration drops an appTypeId.  Identifiers of different kinds are *)
(* numbered apart.                                                         *)
(***************************************************************************)
EXTENDS Worker

MCWorkerIds == {1, 2, 4}
MCWorkerTypes == {3}
MCOrgIds == {5}
MCAppTypeIds == {7, 8}
MCDetailValues == {9}
MCStatusInputs == {WORKEROFFLINE}
=============================================================================
