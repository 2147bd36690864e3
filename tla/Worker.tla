------------------------------- MODULE Worker -------------------------------
(***************************************************************************)
(* The Worker registry chaincode                                           *)
(* (client_sdk/.../fabric/chaincode/worker/go/main.go, with the constants  *)
(* of connector/.../worker/go/definitions.go).                             *)
(*                                                                         *)
(* World state: the primary record of each worker under its workerID, and  *)
(* one index entry per appTypeId under the composite key                   *)
(*   "WorkerRegister" | workerType | organizationID | appTypeId | workerID *)
(* whose value is the workerID.  Each handler is one ledger transaction,   *)
(* so it is one atomic action and its error paths are stuttering steps.    *)
(* The caller's last lookup answer is kept with what it was asked and what *)
(* matched when it was asked, so that properties can judge it.             *)
(*                                                                         *)
(* Data abstraction: identifiers are naturals ordered like their padded    *)
(* encodings; the empty token "" pads to spaces only and so sorts first:   *)
(* it is 0, like the numeric zero.  details is a member of a small set.    *)
(***************************************************************************)
EXTENDS Naturals, FiniteSets, FabricPaging

CONSTANTS
    WorkerIds,     \* workerIDs callers use
    WorkerTypes,   \* workerTypes workers register with
    OrgIds,        \* organizationIDs workers register with
    AppTypeIds,    \* appTypeIds workers register with
    DetailValues,  \* details strings
    StatusInputs,  \* statuses passed to workerSetStatus (parsed uint64)
    PAGESIZE,      \* ids per lookup page
    Absent,        \* no worker stored under a workerID
    NoTag,         \* the empty lookupTag
    NoAnswer       \* no lookup answered yet

ASSUME WorkerAssumption ==
    /\ WorkerIds \cup WorkerTypes \cup OrgIds \cup AppTypeIds \subseteq Nat
    /\ StatusInputs \subseteq Nat
    /\ PAGESIZE \in Nat \ {0}
    /\ NoTag \notin Seq(Nat)

\* definitions.go: worker status codes.
WORKERACTIVE == 1
WORKEROFFLINE == 2
WORKERDECOMMISSIONED == 3
WORKERCOMPROMISED == 4

\* strings.Split(args[3], ",") yields a finite list, never an empty one.
AppLists == {a \in SUBSET AppTypeIds : a # {} /\ IsFiniteSet(a)}

\* The WorkerRegistry struct (workerID is the key it is stored under).
WorkerRec ==
    [workerType : WorkerTypes, organizationID : OrgIds, apps : AppLists,
     details : DetailValues, status : StatusInputs \cup {WORKERACTIVE}]

\* Absent is not a WorkerRegistry record.
ASSUME WorkerAbsentAssumption == Absent \notin WorkerRec

\* A lookup filter: workerType, organizationID, appTypeId.  Zero is the
\* spec's "any" value for the first two.
Filters == (WorkerTypes \cup {0}) \X (OrgIds \cup {0}) \X AppTypeIds

VARIABLES
    worker,  \* workerID -> WorkerRegistry record, or Absent
    windex,  \* set of composite keys <<type, org, appTypeId, workerID>>
    answer   \* the last lookup answer, or NoAnswer

vars == <<worker, windex, answer>>

\* The index entries workerRegister puts for record r of worker w.
EntryKeys(w, r) ==
    {<<r.workerType, r.organizationID, a, w>> : a \in r.apps}

\* processAttributes of a lookup filter: each of the three values is padded
\* and kept, whatever it is.
LookupAttrs(f) == <<f[1], f[2], f[3]>>

\* Worker w matches filter f as spec.md 4.4 states it: a zero workerType or
\* an empty organizationID does not constrain.
SpecMatches(w, f) ==
    /\ worker[w] # Absent
    /\ f[1] \in {0, worker[w].workerType}
    /\ f[2] \in {0, worker[w].organizationID}
    /\ f[3] \in worker[w].apps

TypeOK ==
    /\ worker \in [WorkerIds -> WorkerRec \cup {Absent}]
    /\ windex \subseteq WorkerTypes \X OrgIds \X AppTypeIds \X WorkerIds
    /\ answer \in {NoAnswer} \cup
         [filter : Filters, first : BOOLEAN, ids : SUBSET WorkerIds,
          lookupTag : (WorkerTypes \X OrgIds \X AppTypeIds \X WorkerIds) \cup {NoTag},
          totalCount : Nat, matching : SUBSET WorkerIds]

Init ==
    /\ worker = [w \in WorkerIds |-> Absent]
    /\ windex = {}
    /\ answer = NoAnswer

\* Mutant of WorkerRegister: the status is left at the uint64 zero value.
WorkerRegisterNoStatus(w, ty, org, apps, d) ==
    LET r == [workerType |-> ty, organizationID |-> org, apps |-> apps,
              details |-> d, status |-> 0]
    IN  /\ worker' = [worker EXCEPT ![w] = r]
        /\ windex' = windex \cup EntryKeys(w, r)
        /\ UNCHANGED answer

\* Mutant of WorkerRegister: the loop returns after its first PutState, so
\* only one appTypeId of the list gets its entry.
WorkerRegisterFirstOnly(w, ty, org, apps, d) ==
    LET r == [workerType |-> ty, organizationID |-> org, apps |-> apps,
              details |-> d, status |-> WORKERACTIVE]
    IN  /\ worker' = [worker EXCEPT ![w] = r]
        /\ windex' = windex \cup {<<ty, org, CHOOSE a \in apps : TRUE, w>>}
        /\ UNCHANGED answer

(***************************************************************************)
(* workerRegister: store the record with status WORKERACTIVE under the     *)
(* workerID, replacing any record there, and put one entry per appTypeId.  *)
(* The entries of a replaced record stay.  The "workerRegistered" event    *)
(* carries no state.                                                       *)
(***************************************************************************)
WorkerRegister(w, ty, org, apps, d) ==
    LET r == [workerType |-> ty, organizationID |-> org, apps |-> apps,
              details |-> d, status |-> WORKERACTIVE]
    IN  /\ worker' = [worker EXCEPT ![w] = r]
        /\ windex' = windex \cup EntryKeys(w, r)
        /\ UNCHANGED answer

\* workerUpdate: the worker must exist; only its details change.
WorkerUpdate(w, d) ==
    /\ worker[w] # Absent
    /\ worker' = [worker EXCEPT ![w].details = d]
    /\ UNCHANGED <<windex, answer>>

\* workerSetStatus: the status must parse and the worker must exist; only
\* its status changes.
WorkerSetStatus(w, s) ==
    /\ worker[w] # Absent
    /\ worker' = [worker EXCEPT ![w].status = s]
    /\ UNCHANGED <<windex, answer>>

(***************************************************************************)
(* workerLookUpNext(workerType, organizationID, appTypeId, tag):           *)
(* processAttributes pads all three filter values, zero and empty ones     *)
(* included, into the partial key; the ledger fetches PAGESIZE + 1 entries *)
(* from the tag; the loop keeps the values of the first PAGESIZE; the      *)
(* answer carries the ledger's bookmark and fetched count.                 *)
(***************************************************************************)
WorkerLookUpNext(f, tag) ==
    LET p == LookupAttrs(f)
        kept == Fetched(windex, p, tag, PAGESIZE, NoTag)
    IN  /\ answer' =
             [filter |-> f, first |-> tag = NoTag, ids |-> {k[4] : k \in kept},
              lookupTag |-> NextBookmark(windex, p, tag, PAGESIZE + 1, NoTag),
              totalCount |-> Cardinality(Fetched(windex, p, tag, PAGESIZE + 1, NoTag)),
              matching |-> {w \in WorkerIds : SpecMatches(w, f)}]
        /\ UNCHANGED <<worker, windex>>

\* workerLookUp: workerLookUpNext with an empty tag.
WorkerLookUp(f) == WorkerLookUpNext(f, NoTag)

Next ==
    \/ \E w \in WorkerIds, ty \in WorkerTypes, org \in OrgIds, apps \in AppLists,
          d \in DetailValues : WorkerRegister(w, ty, org, apps, d)
    \/ \E w \in WorkerIds, d \in DetailValues : WorkerUpdate(w, d)
    \/ \E w \in WorkerIds, s \in StatusInputs : WorkerSetStatus(w, s)
    \/ \E f \in Filters : WorkerLookUp(f)
    \* the caller forwards the tag of the previous answer
    \/ /\ answer # NoAnswer
       /\ answer.lookupTag # NoTag
       /\ WorkerLookUpNext(answer.filter, answer.lookupTag)

Spec == Init /\ [][Next]_vars

-----------------------------------------------------------------------------
(***************************************************************************)
(* Index soundness (workerRegister, workerUpdate, workerSetStatus): every  *)
(* appTypeId of a stored worker has the entry of the worker's current type *)
(* and organization, and every entry's value names a stored worker.        *)
(***************************************************************************)
WorkerIndexSound ==
    /\ \A w \in WorkerIds : worker[w] # Absent => EntryKeys(w, worker[w]) \subseteq windex
    /\ \A k \in windex : worker[k[4]] # Absent

(***************************************************************************)
(* Lookup completeness with wildcards (spec.md 4.4 and 8): a first answer  *)
(* with an empty tag holds every worker that matches the filter, a zero    *)
(* workerType or empty organizationID matching any.  processAttributes     *)
(* pads the zero and the empty value into the partial key like any other.  *)
(***************************************************************************)
LookUpComplete ==
    answer # NoAnswer /\ answer.first /\ answer.lookupTag = NoTag
        => answer.matching \subseteq answer.ids

=============================================================================
