------------------------------- MODULE MCSdk -------------------------------
(***************************************************************************)
(* Model-checking instance of the two chaincodes of the sdk's fabric       *)
(* package, WorkOrder and the older Receipt, deployed side by side: they   *)
(* share no world state, so a step of the channel is a step of one of     *)
(* them.  Two work orders, one response; two receipts under one service,   *)
(* worker and requester with two create statuses, so that create keys     *)
(* both collide and differ and a range holds more than one page (one id   *)
(* per page).  Identifiers of different kinds are numbered apart.          *)
(***************************************************************************)
EXTENDS WorkOrder, ReceiptLegacy

MCOrderIds == {1, 2}
MCResponses == {11}
MCWorkOrderIds == {1, 2}
MCServiceIds == {3}
MCWorkerIds == {4}
MCRequesterIds == {5}
MCCreateStatuses == {0, 1}

sdkVars == <<order, lreceipt, lindex, lanswer>>

SdkInit == OrderInit /\ LegacyInit

SdkNext ==
    \/ OrderNext /\ UNCHANGED legacyVars
    \/ LegacyNext /\ UNCHANGED ovars

SdkSpec == SdkInit /\ [][SdkNext]_sdkVars
=============================================================================
