----------------------------- MODULE MCReceipt -----------------------------
(***************************************************************************)
(* Model-checking instance of Receipt: two work orders with the same       *)
(* service, worker and requester, so that their create entries collide;    *)
(* one updater, with getUpdate calls for it, for the empty updaterId and   *)
(* for an updater that never updated; two status-setting updateTypes and  *)
(* one application-specific one (300); up to two updates per receipt,     *)
(* enough for an entry at position 2 and for "latest" to differ from       *)
(* "first".  uint64 arithmetic wraps at 2^16 here: only the wrap below     *)
(* zero matters.  Identifiers of different kinds are numbered apart.       *)
(***************************************************************************)
EXTENDS Receipt

MCWorkOrders == {1, 2}
MCServiceIds == {3}
MCWorkerIds == {4}
MCRequesterIds == {5}
MCCreateStatuses == {PENDING}
MCUpdaters == {6}
MCQueryUpdaters == {0, 6, 7}

\* The store run appends two status-setting types, so that the order and
\* the content of an update list are visible to the refinement; type 300,
\* which appends nothing, is left to the update-index run to keep the
\* number of distinct lists small.
MCStoreUpdateTypes == {COMPLETED, PROCESSED}
MCUpdateTypes == {COMPLETED, PROCESSED, 300}
MCUint64 == 2^16
=============================================================================
