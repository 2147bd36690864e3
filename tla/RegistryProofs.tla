--------------------------- MODULE RegistryProofs ---------------------------
(***************************************************************************)
(* Proofs about the Registry chaincode's write handlers, for every set of  *)
(* organizations, application types and statuses.                         *)
(***************************************************************************)
EXTENDS Registry, TLAPS

\* A stored record is never the Absent marker, by the constants' assumption.
LEMMA RecNotAbsent == \A r \in RegistryRec : r # Absent
<1> SUFFICES ASSUME NEW r \in RegistryRec PROVE r # Absent
  OBVIOUS
<1>1. r.apps \in SUBSET AppIds
  BY DEF RegistryRec, AppLists
<1>2. r.status \in Nat
  <2>1. r.status \in Statuses
    BY DEF RegistryRec
  <2>2. Statuses \subseteq Nat
    <3>1. StatusInputs \subseteq Nat
      BY RegistryAssumption
    <3>. QED
      BY <3>1 DEF Statuses, ACTIVE
  <2>. QED
    BY <2>1, <2>2
<1>3. r = [apps |-> r.apps, status |-> r.status]
  BY DEF RegistryRec
<1>4. r \in [apps : SUBSET AppIds, status : Nat]
  BY <1>1, <1>2, <1>3
<1>. QED
  BY <1>4, RegistryAssumption

\* Each handler keeps the state well typed.
LEMMA AddTypeOK ==
    ASSUME TypeOK, NEW o \in Orgs, NEW apps \in AppLists, RegistryAdd(o, apps)
    PROVE  TypeOK'
<1>1. [apps |-> apps, status |-> ACTIVE] \in RegistryRec
  BY DEF RegistryRec, Statuses
<1>2. registry' \in [Orgs -> RegistryRec \cup {Absent}]
  BY <1>1 DEF TypeOK, RegistryAdd
<1>3. index' \subseteq AppIds \X Orgs
  BY DEF TypeOK, RegistryAdd, IndexKeys, AppLists
<1>. QED
  BY <1>2, <1>3 DEF TypeOK

LEMMA UpdateTypeOK ==
    ASSUME TypeOK, NEW o \in Orgs, NEW apps \in AppLists, RegistryUpdate(o, apps)
    PROVE  TypeOK'
<1>1. registry[o] \in RegistryRec
  BY DEF TypeOK, RegistryUpdate
<1>2. [registry[o] EXCEPT !.apps = apps] \in RegistryRec
  BY <1>1 DEF RegistryRec
<1>3. registry' \in [Orgs -> RegistryRec \cup {Absent}]
  BY <1>2 DEF TypeOK, RegistryUpdate
<1>4. index' \subseteq AppIds \X Orgs
  BY DEF TypeOK, RegistryUpdate, IndexKeys, AppLists
<1>. QED
  BY <1>3, <1>4 DEF TypeOK

LEMMA SetStatusTypeOK ==
    ASSUME TypeOK, NEW o \in Orgs, NEW s \in StatusInputs, RegistrySetStatus(o, s)
    PROVE  TypeOK'
<1>1. registry[o] \in RegistryRec
  BY DEF TypeOK, RegistrySetStatus
<1>2. [registry[o] EXCEPT !.status = s] \in RegistryRec
  BY <1>1 DEF RegistryRec, Statuses
<1>. QED
  BY <1>2 DEF TypeOK, RegistrySetStatus

(***************************************************************************)
(* Type correctness: the records and the index keep their types.           *)
(***************************************************************************)
THEOREM TypeCorrect == Spec => []TypeOK
<1>1. Init => TypeOK
  BY DEF Init, TypeOK
<1>2. TypeOK /\ [Next]_vars => TypeOK'
  <2> SUFFICES ASSUME TypeOK, [Next]_vars PROVE TypeOK'
    OBVIOUS
  <2>1. CASE \E o \in Orgs, apps \in AppLists : RegistryAdd(o, apps)
    BY <2>1, AddTypeOK
  <2>2. CASE \E o \in Orgs, apps \in AppLists : RegistryUpdate(o, apps)
    BY <2>2, UpdateTypeOK
  <2>3. CASE \E o \in Orgs, s \in StatusInputs : RegistrySetStatus(o, s)
    BY <2>3, SetStatusTypeOK
  <2>4. CASE UNCHANGED vars
    BY <2>4 DEF TypeOK, vars
  <2>. QED
    BY <2>1, <2>2, <2>3, <2>4 DEF Next
<1>. QED
  BY <1>1, <1>2, PTL DEF Spec

-----------------------------------------------------------------------------
(***************************************************************************)
(* Index soundness is inductive together with TypeOK: registryAdd puts the *)
(* entries of the record it stores, registryUpdate retracts the old        *)
(* entries before it puts the new ones (so the put wins on a shared        *)
(* appTypeId), and registrySetStatus leaves the appTypeIds and the index   *)
(* alone.  No handler removes a record, so an entry never loses its        *)
(* record.                                                                 *)
(***************************************************************************)
IInv == TypeOK /\ IndexSound

LEMMA AddIndexSound ==
    ASSUME IInv, NEW o \in Orgs, NEW apps \in AppLists, RegistryAdd(o, apps)
    PROVE  IndexSound'
<1>1. IndexComplete'
  BY DEF IInv, TypeOK, IndexSound, IndexComplete, RegistryAdd, IndexKeys
<1>2. IndexRegistered'
  <2>1. registry'[o] # Absent
    BY RecNotAbsent DEF RegistryAdd, RegistryRec, Statuses, IInv, TypeOK
  <2>. QED
    BY <2>1 DEF IInv, TypeOK, IndexSound, IndexRegistered, RegistryAdd, IndexKeys
<1>. QED
  BY <1>1, <1>2 DEF IndexSound

LEMMA UpdateIndexSound ==
    ASSUME IInv, NEW o \in Orgs, NEW apps \in AppLists, RegistryUpdate(o, apps)
    PROVE  IndexSound'
<1>1. IndexComplete'
  <2> SUFFICES ASSUME NEW p \in Orgs, registry'[p] # Absent
               PROVE  IndexKeys(p, registry'[p].apps) \subseteq index'
    BY DEF IndexComplete
  <2>1. CASE p = o
    BY <2>1 DEF IInv, TypeOK, RegistryUpdate, RegistryRec
  <2>2. CASE p # o
    <3>1. registry'[p] = registry[p]
      BY <2>2 DEF IInv, TypeOK, RegistryUpdate
    <3>2. IndexKeys(p, registry[p].apps) \subseteq index
      BY <3>1 DEF IInv, IndexSound, IndexComplete
    <3>3. IndexKeys(p, registry[p].apps) \cap IndexKeys(o, registry[o].apps) = {}
      BY <2>2 DEF IndexKeys
    <3>. QED
      BY <3>1, <3>2, <3>3 DEF RegistryUpdate
  <2>. QED
    BY <2>1, <2>2
<1>2. IndexRegistered'
  <2>1. registry'[o] # Absent
    <3>1. registry[o] \in RegistryRec
      BY DEF IInv, TypeOK, RegistryUpdate
    <3>2. registry'[o] = [registry[o] EXCEPT !.apps = apps]
      BY DEF IInv, TypeOK, RegistryUpdate
    <3>3. [registry[o] EXCEPT !.apps = apps] \in RegistryRec
      BY <3>1 DEF RegistryRec
    <3>. QED
      BY <3>2, <3>3, RecNotAbsent
  <2>. QED
    BY <2>1 DEF IInv, TypeOK, IndexSound, IndexRegistered, RegistryUpdate, IndexKeys
<1>. QED
  BY <1>1, <1>2 DEF IndexSound

LEMMA SetStatusIndexSound ==
    ASSUME IInv, NEW o \in Orgs, NEW s \in StatusInputs, RegistrySetStatus(o, s)
    PROVE  IndexSound'
<1>1. registry[o] \in RegistryRec
  BY DEF IInv, TypeOK, RegistrySetStatus
<1>2. [registry[o] EXCEPT !.status = s] \in RegistryRec
  BY <1>1 DEF RegistryRec, Statuses
<1>3. registry'[o] # Absent /\ registry'[o].apps = registry[o].apps
  BY <1>1, <1>2, RecNotAbsent DEF IInv, TypeOK, RegistrySetStatus, RegistryRec
<1>4. \A p \in Orgs \ {o} : registry'[p] = registry[p]
  BY DEF IInv, TypeOK, RegistrySetStatus
<1>5. \A p \in Orgs : \/ registry'[p] # Absent /\ registry'[p].apps = registry[p].apps
                      \/ registry'[p] = Absent /\ registry[p] = Absent
  <2> SUFFICES ASSUME NEW p \in Orgs
               PROVE  \/ registry'[p] # Absent /\ registry'[p].apps = registry[p].apps
                      \/ registry'[p] = Absent /\ registry[p] = Absent
    OBVIOUS
  <2>1. CASE p = o
    BY <2>1, <1>3
  <2>2. CASE p # o
    BY <2>2, <1>4
  <2>. QED
    BY <2>1, <2>2
<1>6. IndexComplete'
  BY <1>5 DEF IInv, IndexSound, IndexComplete, RegistrySetStatus
<1>7. IndexRegistered'
  <2> SUFFICES ASSUME NEW k \in index' PROVE registry'[k[2]] # Absent
    BY DEF IndexRegistered
  <2>1. k \in index /\ k[2] \in Orgs
    BY DEF IInv, TypeOK, RegistrySetStatus
  <2>2. registry[k[2]] # Absent
    BY <2>1 DEF IInv, IndexSound, IndexRegistered
  <2>. QED
    BY <1>5, <2>1, <2>2
<1>. QED
  BY <1>6, <1>7 DEF IndexSound

(***************************************************************************)
(* Every index entry belongs to a stored record, and every appTypeId of a  *)
(* stored record has its entry, in every reachable state.                  *)
(***************************************************************************)
THEOREM IndexSoundness == Spec => []IndexSound
<1>1. Init => IInv
  BY DEF Init, IInv, TypeOK, IndexSound, IndexComplete, IndexRegistered
<1>2. IInv /\ [Next]_vars => IInv'
  <2> SUFFICES ASSUME IInv, [Next]_vars PROVE IInv'
    OBVIOUS
  <2>1. TypeOK'
    BY TypeCorrect, AddTypeOK, UpdateTypeOK, SetStatusTypeOK DEF IInv, Next, vars, TypeOK
  <2>2. CASE \E o \in Orgs, apps \in AppLists : RegistryAdd(o, apps)
    BY <2>1, <2>2, AddIndexSound DEF IInv
  <2>3. CASE \E o \in Orgs, apps \in AppLists : RegistryUpdate(o, apps)
    BY <2>1, <2>3, UpdateIndexSound DEF IInv
  <2>4. CASE \E o \in Orgs, s \in StatusInputs : RegistrySetStatus(o, s)
    BY <2>1, <2>4, SetStatusIndexSound DEF IInv
  <2>5. CASE UNCHANGED vars
    BY <2>1, <2>5 DEF IInv, vars, IndexSound, IndexComplete, IndexRegistered
  <2>. QED
    BY <2>2, <2>3, <2>4, <2>5 DEF Next
<1>3. IInv => IndexSound
  BY DEF IInv
<1>. QED
  BY <1>1, <1>2, <1>3, PTL DEF Spec

=============================================================================
