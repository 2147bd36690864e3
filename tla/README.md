# Formal models of the Avalon Fabric chaincodes

This directory holds TLA+ models of the Hyperledger Fabric chaincodes in `src/`:
the organization Registry, the Worker registry, the work-order Receipt
(connector version), and the sdk's WorkOrder and older Receipt chaincodes.
It also holds TLC configurations that check the models on small instances, and TLAPS proofs of the main invariants and of one refinement.

## The system

Each chaincode keeps an **indexed record store** in the ledger's world state:

* **Primary records.** Each record is stored under its id: an orgID, a workerID
  or a workOrderId.
* **Secondary index entries.** Each is stored under a composite key
  `objectType | attr1 | ... | attrN`, whose value is the record's id.
  `processAttributes` pads each attribute to a fixed width: numbers are
  zero-padded on the left, tokens space-padded on the right. The ledger joins
  the attributes with a U+0000 delimiter, so keys sort component by component,
  and a proper prefix sorts first.
* **Paged lookups.** A lookup is answered by
  `GetStateByPartialCompositeKeyWithPagination(objectType, attrs, PAGESIZE+1,
  bookmark)`. The answer holds the ids found, the bookmark (the `lookupTag`)
  and the count of fetched entries. The caller passes the tag to the next
  `...LookUpNext` call.
* **An update log (Receipt only).** Each receipt carries a list of updates.
  Each update call also writes an entry under `(workOrderId, updaterId,
  length)`.

Every handler runs as one Fabric transaction. Its writes commit together or
not at all, and a handler that returns an error commits nothing. MVCC
validation serialises conflicting transactions. The model therefore treats
each handler as **one atomic action**, and treats its error paths as
stuttering steps.

The concurrency that remains is between calls: one caller's lookup pages and
other callers' writes interleave. The ledger does not snapshot a paging
session; the bookmark is just a key.

## Modules

| Module | Models | State | Actions |
|---|---|---|---|
| `FabricPaging` | the ledger's paged scan (spec.md §6; not in this repository, so spec-modelled) | none (operators) | `ScanRange`, `Fetched`, `NextBookmark` |
| `Registry` | `registry/go/main.go` writes | `registry` (orgID → record or Absent), `index` (set of `<<appTypeId, orgID>>`) | `RegistryAdd`, `RegistryUpdate`, `RegistrySetStatus` |
| `RegistryLookup` | `registryLookUp`/`registryLookUpNext`, composed with the writes | adds `pager`, one caller's paging session | `RegistryLookUp`, `RegistryLookUpNext`, writes with `Touch` |
| `Worker` | `worker/go/main.go` | `worker`, `windex` (set of `<<type, org, appTypeId, workerID>>`), `answer` | `WorkerRegister`, `WorkerUpdate`, `WorkerSetStatus`, `WorkerLookUp`, `WorkerLookUpNext` |
| `Receipt` | `connector/.../receipt/go/main.go` | `receipt` (create fields and update list), `cindex` (set of `<<key, workOrderId>>`; a put replaces the value), `uindex`, `answer` | `WorkOrderReceiptCreate`, `WorkOrderReceiptUpdate`, `...LookUp`, `...LookUpNext`, `...UpdateRetrieve`, `...Retrieve` |
| `UpdateLog` | the abstract promise of spec.md §4.5: one append-only log per receipt | `log` (id → sequence or Absent) | `LogCreate`, `LogAppend` |
| `WorkOrder` | `sdk/.../order/go/main.go` | `order` (workOrderId → `[status, response]` or NoOrder) | `WorkOrderSubmit`, `WorkOrderComplete` |
| `ReceiptLegacy` | the older `sdk/.../receipt/go/main.go` | `lreceipt`, `lindex` (create-key entries), `lanswer` | `LegacyReceiptCreate`, `LegacyLookUp`, `LegacyLookUpNext` |
| `PagingProofs`, `RegistryProofs`, `RegistryLookupProofs`, `WorkerProofs`, `ReceiptProofs`, `LegacyProofs`, `WorkOrderProofs` | TLAPS proofs (see Proofs) | | |
| `MCRegistry`, `MCRegistryLookup`, `MCWorker`, `MCReceipt`, `MCSdk` | model-checking instances | | |

### Composition

The chaincodes share no state: each one owns its own keys in its own
namespace. So they are composed only where a run needs it. `RegistryLookup`
interleaves one caller's paging session with every Registry write. `MCSdk`
runs the two sdk chaincodes side by side, with
`SdkNext == (OrderNext /\ UNCHANGED legacyVars) \/ (LegacyNext /\ UNCHANGED ovars)`.
This is the order flow a client drives: it submits an order, the worker
completes it, and the worker creates its receipt.

### Refinement

`UpdateLog` states what the receipt update list promises. A create starts an
empty log, and the only other change is one entry added at the end of one
log. `Receipt` instantiates it with

```
UL == INSTANCE UpdateLog WITH Ids <- WorkOrders, Entries <- UpdateRec,
                              log <- UpdatesOf
```

Here `UpdatesOf` maps each stored receipt to its `ReceiptUpdates` list, and an
absent receipt to `Absent`. The property `UpdateLogRefined == UL!LogSpec`
makes the mapping concrete:

* `workOrderReceiptCreate` maps to `LogCreate`;
* an update whose type is below 256 maps to `LogAppend`;
* every other step maps to a stutter. This includes an update of type 256 or
  more, which writes only an update-index entry.

### Data abstraction

Ids and attribute values are naturals, ordered like their padded encodings.
The empty token pads to spaces only, so it sorts first and is modelled as 0.

Free-text fields are left out, because no index and no property reads them.
These are uri, scAddr, details (kept in Worker as a small set), updateData,
signatures and the request hash. The value of an update-index entry is the
whole Receipt document, which is never read back, so it is left out too.

`processAttributes` is modelled by what it does to the attribute list. The
Registry and Worker versions keep every value. The connector Receipt version
skips an empty token, appends a zero number once, and appends a non-zero
number twice (`TokenAttr`, `NumberAttr`).

uint64 arithmetic appears once: the `r_size - 1` in `UpdateRetrieve`. It is
computed modulo the constant `UINT64`. TLC cannot hold 2^64, so the instance
uses 2^16; only the wrap below zero matters.

### Read handlers

Read handlers change no ledger state. The model records the caller's last
answer in `answer`, next to what spec.md says the answer should be: the
matching ids under the spec's wildcard rules, or the update at the position.
Properties compare the two.

`RegistryLookup` instead follows one caller through a whole paging session.
`pager` records:

* `got`: the ids received so far;
* `dup`: whether an id came twice;
* `base`: the ids that matched when the session began;
* `stable`: whether any write touched the index since the session began.

## Runs

| Run | Checks | Result | What it shows |
|---|---|---|---|
| `registry_lookup` | `LookupTypeOK`, `IndexSound`, `PagerSound`, `PagerTerminates`, `TagAdvances` | pass, 26877 states | Every appTypeId of a stored organization has its entry, and every entry names a stored organization; this depends on `registryUpdate` deleting before putting. A session never returns an id twice. Without interleaved writes it returns only matching ids. Each `registryLookUpNext` call ends the session or moves the tag strictly forward. A caller that keeps forwarding the tag reaches an empty tag, whatever writes interleave. |
| `registry_readd_stale` | `IndexExact` | violation | `registryAdd` over an existing orgID keeps the entries of dropped appTypeIds. |
| `registry_paging_skip` | `PagingComplete` | violation | The loop keeps PAGESIZE of the PAGESIZE+1 fetched entries, but the bookmark points past all of them, so an id is lost. |
| `worker_store` | `TypeOK`, `WorkerIndexSound` | pass, 78k states | Index soundness for workers under register, update and setStatus. |
| `worker_wildcard` | `LookUpComplete` | violation | workerType 0 and organizationID "" are matched literally, not as "any" (spec.md §4.4). |
| `receipt_store` | `TypeOK`, `UpdateIndexComplete`, `UpdateLogRefined` | pass, 72.6k states | Every update has its update-index entry at its position. The update lists implement the append-only `UpdateLog`. |
| `receipt_update_index` | `UpdateIndexExact` | violation | An updateType ≥ 256 appends nothing but still writes an update entry, under the unchanged length. |
| `receipt_update_retrieve` | `UpdateRetrieveCorrect` | violation | "latest" on an empty list indexes at 2^64-1, and any other index reads `args[4]` of a three-argument call; both panic. |
| `receipt_lookup` | `ReceiptLookUpComplete` | violation | A status 0 and empty tokens do not act as wildcards. The same property also covers two other defects: the create key has no workOrderId, so equal-attribute receipts collide, and the key carries the create status, not the current one. |
| `sdk_store` (`MCSdk.cfg`) | `OrderTypeOK`, `SubmittedHasNoResponse`, `LegacyTypeOK` | pass, 8656 states | In the WorkOrder and older Receipt chaincodes side by side, an order read as submitted never carries a response left by an earlier completion, and each key of the older create index holds one workOrderId. A re-submit or a repeated completion replaces the stored order. spec.md §4.2 accepts this as an inherited design property, so no property claims that a completion is final. |
| `legacy_recreate_stale` | `LegacyLookUpSound` | violation | The older Receipt lookup returns workOrderIds whose receipts no longer have the filter's values. This happens after a re-create under other values, whose old entry is never deleted (spec.md §8, retract-before-insert), and from a lookupTag outside the filter's range. |

Each property of a passing run is also checked against a mutant of the code it
is about (PROJECT.json, `mutants`), and TLC reports that mutant as violating
the property. For example, `RegistryUpdatePutFirst` puts before it deletes and
breaks `IndexSound`. `WorkOrderSubmitKeepResponse` keeps an old response and
breaks `SubmittedHasNoResponse`. `WorkOrderReceiptUpdateReplace` overwrites
the list and breaks `UpdateLogRefined`.

### Bounds

* **Registry.** Three orgIDs and two appTypeIds. This is enough for an update
  that keeps one appTypeId and drops another. With PAGESIZE = 1 in the lookup
  runs, a range of two or three ids spans several pages and reaches the
  PAGESIZE+1 boundary.
* **Worker.** Three workers, one type, one organization and two appTypeIds.
  Three entries in one range are needed before the ledger hands back a
  bookmark, with one id per page and two fetched. A second organization
  makes the instance too large for TLC.
* **Receipt.** Two work orders with identical attributes, so that their create
  keys collide, and up to two updates per receipt. getUpdate is called for the
  updater, for the empty updaterId and for an updater that never updated.
  `workOrderReceiptLookUpNext` accepts any key as its lookupTag, not only one
  it handed out. The model therefore calls it with every stored create key,
  which exercises the bookmark path without a third receipt.
  * The violation runs use the update types {COMPLETED, PROCESSED, 300}.
  * `receipt_store` uses two storable types, {COMPLETED, PROCESSED}. Two types
    let the refinement tell an append from an overwrite: with a single
    storable value, a list that is overwritten looks the same as one that
    grows. The type 300 adds nothing to those properties but states.
* **sdk.** Two workOrderIds and one response, so that a re-submit can meet a
  completed order. The older Receipt chaincode has one service, worker and
  requester, and two create statuses, so that a re-create can change the key.
  PAGESIZE = 1.
* **Unbounded counters.** The update list is capped by `MAXLOG` in the update
  guard.

### Fairness

`RegistryLookup` assumes weak fairness of `RegistryLookUpNext` only. This
models a caller that keeps calling while it holds a non-empty tag, on a ledger
that serves every call. Writes get no fairness: they may stop at any time, and
termination must not depend on them. No other module states liveness, so they
assume no fairness.

## Proofs

`tlapm` checks seven proof modules. Each proves its theorems for every value
of the constants that satisfies the assumptions of the modules it extends.
The assumptions say that:

* ids and values are naturals or members of the declared sets (`RegistryAssumption`,
  `WorkerAssumption`, `ReceiptAssumption`, `LegacyAssumption`, `OrderAssumption`);
* the "nothing stored" value is not a record (`AbsentAssumption`,
  `WorkerAbsentAssumption`, the last conjunct of `OrderAssumption`);
* the empty tag is not a key (`NoTag \notin Seq(Nat)`, and likewise for the
  other lookups);
* `UINT64 > MAXLOG + 1`, `PAGESIZE > 0`, and `AppIds # {}` (the lookup
  session's initial filter is a `CHOOSE` from it).

TLC evaluates these assumptions on every run.

None of the proved invariants is inductive alone. Each step needs the typing
of the store, and it needs to know that a stored record is not the absent
value. So every proof conjoins the module's typing to the invariant and shows
that each action preserves the conjunction. There is one lemma per action.

The lookups need one more conjunct: the index is finite. The bookmark a page
returns is `NextBookmark`, a `CHOOSE` of the least key the page left out.
That key exists only because the index is finite and `KeyLess` is a strict
total order. The proofs therefore carry `IsFiniteSet(index)`. To keep it
true, the appTypeIds list of a write is a finite set (`AppLists` in
`Registry` and `Worker`): `strings.Split` yields a finite list.

* **`PagingProofs`** holds the facts about the ledger's scan that the lookup
  proofs cite:
  * `KeyLess` is irreflexive, transitive and total on `Seq(Nat)`.
  * `LeastKey`: a finite non-empty set of keys has a least key. The proof
    picks a key with the fewest keys below it, using `WFMin` on `Nat`.
  * `BookmarkInKeys` and `BookmarkInRest`: the bookmark is the empty tag or
    a key of the scan that the page left out.
  * `FetchedBelowRest`: every fetched key sorts below every key left out.
  * `FetchedGrows`: a page of n keys is inside the page of n + 1 keys.
  * `ScanFirstAttr`: a scan of `<<a>>` from the empty tag or from a key of
    `a` visits only keys of `a`.
  * `BookmarkAdvances`: the bookmark lies strictly beyond a non-empty start.
* **`RegistryProofs`.**
  * `TypeCorrect`: `Spec => []TypeOK`.
  * `IndexSoundness`: `Spec => []IndexSound`, with `IInv == TypeOK /\ IndexSound`.
    * `RegistryAdd` inserts the entries of the record it stores.
    * `RegistryUpdate` removes only entries of its own orgID, whose keys are
      disjoint from every other organization's.
    * `RegistrySetStatus` changes neither the appTypeIds nor the index.
* **`RegistryLookupProofs`.** Three theorems: `LookupTyped`
  (`LookupSpec => []LookupTypeOK`), `PagerSoundness`
  (`LookupSpec => []PagerSound`) and `TagAdvance`
  (`LookupSpec => TagAdvances`, an action property). All three rest on
  `PInv`. TLC checked `PInv` as an invariant of the `registry_lookup`
  instance before it was proved. `PInv` adds to the typing and finiteness:
  * while the session pages, its tag is a key of the filtered appTypeId, and
    every id received so far has its key below the tag;
  * while no write has touched the index, the base is still `Matching(filter)`.

  `PageFacts` gives, for one page, what the step lemmas use:
  * the ids match the filter, with no orgID twice;
  * each id's key is at or above the tag;
  * the new tag is empty, or a key of the filter at or above the old tag and
    above every key of the page.

  So a new page cannot repeat an id, and every id received stays below the
  new tag. `TagAdvanceStep` needs one more fact, from `BookmarkAdvances`: a
  tag still stored is the first key of its own scan and is fetched. So each
  call ends the session or moves the tag strictly forward. This holds even
  when writes between the calls removed the tag's entry.
* **`WorkerProofs`.**
  * `WorkerIndexSoundness`: `Spec => []WorkerIndexSound`, with
    `WInv == StoreTypeOK /\ WorkerIndexSound`.
    * `RegisterStep`: a register adds every entry of the record it stores.
    * `FieldStep`: `workerUpdate` and `workerSetStatus` change a field that
      no entry holds.
    * `LookUpsKeepStore`: the lookups change nothing stored.
  * `WorkerTyped`: `Spec => []TypeOK`, the lookup answer included, with
    `TInv == TypeOK /\ IsFiniteSet(windex)`.
* **`ReceiptProofs`.**
  * `ReceiptTyped`: every stored receipt is typed (`RecTypeOK`). The
    `Append` step rests on `AppendProperties` of `SequenceTheorems`.
  * `ReceiptTypeCorrect`: `Spec => []TypeOK`, the answers of the lookups and
    of `UpdateRetrieve` included, with `RTInv == TypeOK /\ IsFiniteSet(cindex)`.
    The `r_size - 1` index stays a natural because `% UINT64` does.
  * `UpdateIndexCompleteness`: `Spec => []UpdateIndexComplete`, with
    `UInv == RecTypeOK /\ UpdateIndexComplete`. An append writes the entry
    for the new length. A create empties the list, so the entry a replaced
    receipt leaves behind does no harm.
  * `UpdateLogRefinement`: `Spec => UpdateLogRefined`, proved in two parts:
    * the initial states map to `UL!LogInit`;
    * under `RecTypeOK`, every step maps to `LogCreate`, `LogAppend` or a
      stutter of `UpdatesOf` (lemmas `CreateRefines` and `UpdateRefines`).
* **`LegacyProofs`.** `LegacyTyped`: `LegacySpec => []LegacyTypeOK`, which
  includes that each create key holds one workOrderId. `PutKeyUnique`: a put
  drops the entry of its key before adding the new one.
* **`WorkOrderProofs`.** `OrderTyped` (`OrderSpec => []OrderTypeOK`) and
  `SubmittedClean` (`OrderSpec => []SubmittedHasNoResponse`), both from
  `OInv == OrderTypeOK /\ SubmittedHasNoResponse`.

Every property of a passing run is proved, except one:

* **`PagerTerminates`**, a liveness property. Liveness under fairness and
  `ENABLED` are out of the prover's reach, so TLC checks it.
  `TagAdvance` proves its safety half: each call moves the tag strictly
  forward over a finite set of keys. Only the step from there to "eventually
  done" is left to TLC.

The violation runs need no proof either. They state what the spec says, TLC
refutes it, and TLC's trace is the evidence. `PagingComplete` fails on the
code in this way.

## Not modelled

* **Events, caller identity, Init, main.** These are I/O, with no state that a
  later call reads. `SetEvent` is the last call of each handler, and its
  failure aborts the transaction, which the atomic action already covers.
* **Single-record readers.** `workOrderGet`, the `query`/`...Retrieve` readers
  of Registry and Worker, and the older Receipt's `workOrderReceiptRetrieve`
  and query. Each reads one record and changes nothing.
* **The older `workOrderReceiptUpdate`.** It returns "Not Implemented" and
  changes nothing, so it is a stuttering step.
* **Argument-count checks.** `workerUpdate` and `workerSetStatus` read
  `args[0]` before checking the count, so an empty call panics. A panic
  commits nothing, so it behaves like the error path it replaces.
* **Padding aliasing.** `%-32v` pads but does not truncate. The model's tokens
  are distinct naturals, so it cannot show two ids that alias after padding.
* **The Python and client code** that calls the chaincodes. It is not a state
  machine over the ledger, so it is out of scope here.
