------------------------------ MODULE UpdateLog ------------------------------
(***************************************************************************)
(* What the receipt update log promises (spec.md 4.5): an append-only      *)
(* sub-ledger of ordered updates per receipt.  A receipt that exists has a *)
(* log; creating the receipt, again or for the first time, starts an empty *)
(* log (spec.md 4.2: a create silently replaces the record); after that    *)
(* the only change to a log is one entry added at its end.  Nothing is     *)
(* edited, removed or reordered, and no log of another receipt changes.    *)
(*                                                                         *)
(* The connector Receipt module implements this specification under the    *)
(* mapping log <- the ReceiptUpdates list of each stored receipt.          *)
(***************************************************************************)
EXTENDS Sequences

CONSTANTS
    Ids,      \* receipt identifiers (workOrderIds)
    Entries,  \* the updates a log may hold
    Absent    \* no receipt, hence no log

VARIABLE log  \* receipt id -> its sequence of updates, or Absent

LogInit == log = [i \in Ids |-> Absent]

\* A create of receipt i: its log starts empty, whatever it held.
LogCreate(i) == log' = [log EXCEPT ![i] = << >>]

\* An update of an existing receipt i: entry e is added at the end.
LogAppend(i, e) ==
    /\ log[i] # Absent
    /\ log' = [log EXCEPT ![i] = Append(@, e)]

LogNext == \E i \in Ids : LogCreate(i) \/ \E e \in Entries : LogAppend(i, e)

LogSpec == LogInit /\ [][LogNext]_log

=============================================================================
