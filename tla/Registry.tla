------------------------------ MODULE Registry ------------------------------
(***************************************************************************)
(* The organization Registry chaincode                                     *)
(* (client_sdk/.../fabric/chaincode/registry/go/main.go).                  *)
(*                                                                         *)
(* World state: the primary record of each organization under its orgID,   *)
(* and one secondary index entry per (appTypeId, orgID) under the          *)
(* composite key "Registry" | appTypeId | orgID, whose value is the orgID. *)
(* Every handler runs as one ledger transaction: its writes are committed  *)
(* together or not at all, and a failing handler commits nothing, so each  *)
(* handler is one atomic action and its error paths are stuttering steps.  *)
(* The lookups, which only read, are in RegistryLookup.                   *)
(*                                                                         *)
(* Data abstraction: orgIDs and appTypeIds are naturals whose order is the *)
(* order of their padded encodings; uri and scAddr, which no index and no  *)
(* property reads, are left out; the comma-separated appTypeIds list is    *)
(* its (never empty) set of elements, which is all the index depends on.   *)
(***************************************************************************)
EXTENDS Naturals, FiniteSets

CONSTANTS
    Orgs,          \* orgIDs callers use
    AppIds,        \* appTypeIds callers use
    StatusInputs,  \* statuses passed to registrySetStatus (parsed uint64)
    Absent         \* no record stored under an orgID

ASSUME RegistryAssumption ==
    /\ Orgs \subseteq Nat
    /\ AppIds \subseteq Nat
    /\ StatusInputs \subseteq Nat
    /\ Absent \notin [apps : SUBSET AppIds, status : Nat]

\* definitions.go: registry status codes.
ACTIVE == 1
OFFLINE == 2
DECOMMISSIONED == 3

\* strings.Split(args[3], ",") yields a finite list, never an empty one.
AppLists == {a \in SUBSET AppIds : a # {} /\ IsFiniteSet(a)}

Statuses == StatusInputs \cup {ACTIVE}

\* The Registry struct, with the fields an index or a property reads.
RegistryRec == [apps : AppLists, status : Statuses]

VARIABLES
    registry,  \* orgID -> Registry record, or Absent
    index      \* set of composite keys <<appTypeId, orgID>> present

vars == <<registry, index>>

\* processAttributes + CreateCompositeKey(OBJECTTYPE, {appTypeID, orgID})
\* for every appTypeId of a record.
IndexKeys(o, apps) == {<<a, o>> : a \in apps}

TypeOK ==
    /\ registry \in [Orgs -> RegistryRec \cup {Absent}]
    /\ index \subseteq AppIds \X Orgs

Init ==
    /\ registry = [o \in Orgs |-> Absent]
    /\ index = {}

(***************************************************************************)
(* registryAdd: store the record with status ACTIVE under orgID (silently  *)
(* replacing any record already there) and put an index entry for each of *)
(* its appTypeIds.  Nothing removes the entries of a replaced record.      *)
(***************************************************************************)
RegistryAdd(o, apps) ==
    /\ registry' = [registry EXCEPT ![o] = [apps |-> apps, status |-> ACTIVE]]
    /\ index' = index \cup IndexKeys(o, apps)

\* Mutant of RegistryUpdate: the new entries are put before the old ones are
\* deleted, so an appTypeId kept by the update loses its entry.
RegistryUpdatePutFirst(o, apps) ==
    /\ registry[o] # Absent
    /\ registry' = [registry EXCEPT ![o].apps = apps]
    /\ index' = (index \cup IndexKeys(o, apps)) \ IndexKeys(o, registry[o].apps)

(***************************************************************************)
(* registryUpdate: fails if no record exists; otherwise stores the new     *)
(* appTypeIds, deletes the entries of the old ones, then puts the entries  *)
(* of the new ones.  The ledger keeps the last write to a key, so a key    *)
(* both deleted and put ends up present.                                   *)
(***************************************************************************)
RegistryUpdate(o, apps) ==
    /\ registry[o] # Absent
    /\ registry' = [registry EXCEPT ![o].apps = apps]
    /\ index' = (index \ IndexKeys(o, registry[o].apps)) \cup IndexKeys(o, apps)

(***************************************************************************)
(* registrySetStatus: the status must parse as a uint64 (StatusInputs are  *)
(* the ones that do) and the record must exist; only the record changes.   *)
(***************************************************************************)
RegistrySetStatus(o, s) ==
    /\ registry[o] # Absent
    /\ registry' = [registry EXCEPT ![o].status = s]
    /\ UNCHANGED index

Next ==
    \/ \E o \in Orgs, apps \in AppLists :
          RegistryAdd(o, apps) \/ RegistryUpdate(o, apps)
    \/ \E o \in Orgs, s \in StatusInputs : RegistrySetStatus(o, s)

Spec == Init /\ [][Next]_vars

-----------------------------------------------------------------------------
(***************************************************************************)
(* Index soundness (registryAdd / registryUpdate): every appTypeId of a    *)
(* stored record has its index entry, so a lookup can find it, and every   *)
(* index entry names a stored record.  Update's retract-then-insert order  *)
(* matters when the old and new lists share an appTypeId.                  *)
(***************************************************************************)
IndexComplete ==
    \A o \in Orgs : registry[o] # Absent => IndexKeys(o, registry[o].apps) \subseteq index

IndexRegistered == \A k \in index : registry[k[2]] # Absent

IndexSound == IndexComplete /\ IndexRegistered

(***************************************************************************)
(* No stale entries (spec.md 3 and 4.3): every index entry describes an    *)
(* appTypeId its record has now.  registryAdd over an existing orgID       *)
(* never retracts the old entries.                                         *)
(***************************************************************************)
IndexExact ==
    \A k \in index : registry[k[2]] # Absent /\ k[1] \in registry[k[2]].apps

=============================================================================
