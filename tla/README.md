# TLA+ models of the DNS entry reconciliation core

This directory holds TLA+ models of the entry reconciliation state engine of
the DNS controller, and the TLC configurations that check them. The code is in
`src/pkg/controller/source/service/handler.go`. That file bundles four sources:

| Lines | Source |
|---|---|
| 17–48 | service `GetTargets` |
| 66–148 | direct record-set helpers |
| 166–770 | `provider/state_entry.go` |
| 777–866 | `I_modify` from `resources`: the create path and the update loop |

Line numbers below refer to that file.

## The system

Users create `DNSEntry` and `DNSLock` objects. The controller is built around
four pieces:

- **Work queue.** The controller watches both kinds of object through an
  informer. A pool of workers takes object keys off a work queue, reads the
  object from the cache and runs `HandleUpdateEntry` (424–480) or
  `EntryDeleted` (482–507) on it.
- **`AddEntryVersion` (276–392).** This is the state-transition kernel, run
  under the global lock. It:
  - builds the new entry;
  - on deletion, releases the DNS-name claim and either parks the entry in
    `outdated` until the provider has deleted its record, or removes the
    finalizer;
  - otherwise, sets the finalizer and installs the entry;
  - cleans up the claim of a renamed entry;
  - arbitrates the claim on the DNS name. Two entries on one name are ordered
    by (creation timestamp, object name). The later one becomes a
    *duplicate* in status `error`. If the later one held the name, it is
    marked duplicate and requeued.
- **Zone reconciler.** `HandleUpdateEntry` triggers the hosted zone of a
  modified entry. The zone reconciler then writes the zone's records, deletes
  the records of `outdated` entries and removes their finalizers, and sets
  bound entries `ready`. Its code is not in this repository.
- **`cleanupEntry` (509–541).** It drops an entry and releases its claim. It
  requeues the earliest duplicate waiting for the name, so that the duplicate
  takes the name over.

Lock objects take a separate branch of `HandleUpdateEntry` (450–456):

- **`checkAndUpdateLock` (543–631)** reads the TXT record set of the lock
  name. It marks the lock `stale` if the record carries another lock id. It
  backs off if the record's timestamp is later than its own. Otherwise it
  writes its record when that differs from the one it read.
- **`checkAndDeleteLock` (633–656)** deletes the record if the lock id is ours
  and the timestamp is not later than ours. It then removes the finalizer.
- **`UpdateLockStates` (658–743)** runs periodically. It looks each lock name
  up through the resolver and writes the status. It records the first failed
  lookup. When failures have lasted more than 2×TTL since a first failure
  recorded after startup, or started while the lock was not ready, it sets
  `updateRequired` and requeues the lock, so the record is written again.

## Modules

| Module | Models | State |
|---|---|---|
| `EntryState` | AddEntryVersion, HandleUpdateEntry, EntryDeleted, cleanupEntry, plus the zone reconciler (from spec 4.4) and a controller restart | cluster: `phase`, `spec`, `fin`, `state`, `szone`, `ctime`; controller: `entries`, `dnsnames`, `outdated`, `queue`, `busy` (the snapshot a worker read), `zq` (triggered zones); provider: `records` |
| `MCEntryState` | model values and small maps for `EntryState` | |
| `DNSLock` | the lock branch of HandleUpdateEntry, checkAndUpdateLock, checkAndDeleteLock, UpdateLockStates, restart | cluster: `phase`, `lts` (spec timestamp), `fin`, `sstate`, `ffl` (firstFailedDNSLookup as an age); controller: `seen`, `upd` (updateRequired), `pc` (the step between read and write, and whether the worker holds the entry lock), `rf` (the entry the refresh loop has looked up and not yet written the status of), `queue`; DNS: `txt` (lock id and timestamp, which may be `Garbled`) |
| `MCDNSLock` | two lock objects, rival ids or one shared id | |
| `TxtAttr` | `RecordSet.GetAttr` (136–148) and the TXT parsing loop of `UpdateLockStates` (673–692) as pure operators | `attrs` (the attributes a lock encodes), `rs` (the record set), both fixed in the initial state |
| `MCTxtAttr` | a 3-character alphabet and one-character keys | |
| `ObjectModify` | `I_modify` (807–866): the create path and the retry loop, with concurrent writers on one object | server: `obj` (`Absent`, or resourceVersion and fields); informer: `cache`; per writer: `pc`, `data` (its working copy), `cnt`, `res`, `startRv`; history: `expect` |
| `MCObjectModify` | four writers: the status refresh, the finalizer, and two lock clients that create or renew the object | |

### How `EntryState` corresponds to the code

- **Pure operators.** `AddEntryVersion` is a pure operator over the current
  state. It returns the new index, the new claims, the outdated set, the
  finalizer, the status, the keys and zones to trigger, the returned entry
  and the error. `HandleUpdateEntry` applies that result and adds the zone
  trigger of line 464 and the requeue on error. So one step is the whole
  handler, with every call it makes.
- **Source paths.** The CASE arms of `AddLiveVersion` are the code's paths:
  - the SetFinalizer failure (328–333);
  - the not-managing return (348–351);
  - the new entry arriving as a duplicate (358–369);
  - the claim, which marks and requeues the displaced holder (371–388).
- **Snapshot and handler.** `Dequeue` reads the object into `busy`, and
  `HandleUpdateEntry` later commits it. Between the two, the cluster can
  change the object, which is the informer-cache staleness the code lives
  with.
- **Finalizer writes.** `SetFinalizerOk` and `RemoveFinalizerOk` model the
  API server. Adding a finalizer to a deleting object is refused. A bounded
  number of writes (`MaxApiErrors`) may fail.
- **Parts modelled from the spec**, because their code is outside the
  repository:
  - `Before` (Entry.Before);
  - `IsActive` (activezone set);
  - `SameEntry`: Entry.Update keeps the same Entry iff the DNS name is kept.
    Line 336 shows a renamed entry is a new object;
  - `EntriesDelete`;
  - `ReconcileZone`;
  - `Restart`.
- **Assumptions in those parts:**
  - activezone is the zone the entry was last bound to, initialised from
    `status.zone`;
  - a version is *modified* when it differs from the previous one, follows a
    duplicate, or its status is not yet `ready`;
  - at startup the providers trigger all their zones.

### How `DNSLock` corresponds to the code

- **Read and write are separate steps.** The per-entry lock serialises the
  steps of one object only. So the read of the record set in
  `checkAndUpdateLock` and `checkAndDeleteLock` (`HandleLock`) and the
  dependent write or delete (`WriteLock`, `DeleteLock`) are separate steps.
  The steps of other lock objects can fall between them. Those objects may be
  handled by other workers or by controllers of other clusters.
- **The entry lock.** `HandleUpdateEntry` locks the entry only when it
  already exists (lines 426-429). `HandleLock` records this in
  `pc[l].locked`: the first handling of an object, and the first after a
  restart, hold no lock between read and write (`EntryLocked`).
- **`UpdateLockStates`** is two steps per entry. `LookupLock` is the
  `LookupTXT` and the decision taken from the status as it reads it, outside
  the entry lock (668-711). `RefreshStatus` is the status write under the
  entry lock, followed by setting `updateRequired` and the requeue
  (713-740). The loop handles one entry at a time, so `rf` holds at most one
  entry. Any record set found counts as a successful lookup. `rf.own`
  records whether it carried the lock's own id and a timestamp that parses,
  which the status's attributes and timestamp reflect.
- **Another party** may lose the record, or garble its timestamp
  (`EditRecord`). `checkAndUpdateLock` marks a lock with a garbled
  timestamp stale (575). `checkAndDeleteLock` parses it as 0 (`ParsedTs`,
  646).
- **Time.** The age of `firstFailedDNSLookup` is what the code compares with
  2×TTL. `ffl[l].age` counts ticks and saturates at 2×TTL+1. `ffl[l].cur`
  records whether the failure was recorded after `startupTime`.
- **`updateRequired`** is set by NewEntry/Entry.Update, which are outside the
  repository. The model sets it when the entry is new or its spec timestamp
  changed (`UpdateRequired`).

### How `TxtAttr` corresponds to the code

Strings are sequences over a small alphabet, because both readers work on
characters: `GetAttr` slices after the prefix `"<name>=` and drops the last
character; the lookup loop trims quotes (`TrimQuotes`), splits on every `=`
(`SplitEq`), gives a string that is not one key and one value the next
synthetic key (`ParseFrom`), and parses the timestamp. The initial states are
every record set a lock of at most 2 attributes with values of at most 2
characters can write, optionally after a foreign string; `Next` leaves them
unchanged, so each run checks the operators on all those inputs. The encoding
`Encode` (quoted `"<key>=<value>"`) is taken from spec 5, since the writer is
in the dnsutils package outside the repository.

`UpdateLockDecision` and `DeleteLockDecision` are the decisions of
`checkAndUpdateLock` (559–585) and `checkAndDeleteLock` (637–648) on the
record set they read, for a reader `me` (lock id and timestamp) chosen in the
initial state. Both parse the timestamp with `ParseTimestamp`, which is
`strconv.ParseInt`: the decimal value of a digit string, or 0 and an error.
The update path checks the error; the delete path ignores it.

### How `ObjectModify` corresponds to the code

- `Start` is the `DeepCopyObject` of the writer's object and `cnt := 10`
  (`MaxTries`). A writer called without `create` was handed the object by
  the informer, so it starts from the cached copy and only once the cache
  holds the object. A creator starts from its own object (`Template`).
- **The create path.** `CreateGet` is the first `I_get`: an existing object
  replaces the copy and the loop follows; NotFound leads to `CreateAttempt`.
  That step is the modifier on the copy (`Modified`) and `I_create`. It
  succeeds only if the object is still absent. Otherwise `AlreadyExists` is
  followed by `I_get`, and the loop starts from the fetched object. The
  get, the create and the fetch after `AlreadyExists` are separate calls;
  the model merges the last two, because the object exists at both.
- Errors other than NotFound, AlreadyExists and Conflict return at once
  without changing anything, and are left out.
- `Attempt` is one loop iteration: the modifier, the no-change return, the
  `I_update` or `I_updateStatus` call, and on a conflict the `I_get` refetch
  (`Refetch`) and `cnt--`, ending with the conflict error at zero.
- An update succeeds only if the working copy's resourceVersion is the
  server's. `I_updateStatus` replaces the status fields from the copy and
  keeps the others; `I_update` the reverse (`Written`).
- `SyncCache` is the informer, bounded by `MaxSyncs`; writers may start from a
  lagging copy.

## Runs

| Run | Cfg | Expect | What it shows |
|---|---|---|---|
| entry_safety | MCEntryState_safety.cfg | pass | Two entries on a served and a foreign name, with renames, deletions, one failed finalizer write and one restart. There are never two active claimants (`SingleActiveClaimant`) and never a claim on an entry that is not active (`ClaimIsIndexed`). A valid-only spec never gets a record without a finalizer (`FinalizerCoversRecord`). |
| entry_liveness | MCEntryState_liveness.cfg | pass | `EventuallyConverged`. Once the objects stop changing, each served name is held by its earliest live entry, whose record is set and which is ready. Every later entry is a duplicate in error, and no deletion is pending. Ties in creation time are broken by object name: an order on timestamps alone leaves the entry handled last holding the name. |
| entry_invalid_spec_finalizer | MCEntryState_invalid.cfg | violation | `FinalizerCoversRecord` fails once specs can be invalid (finding 1). |
| entry_foreign_rename_delete | MCEntryState_rename.cfg | violation | `DeletionCompletes` fails when an entry is renamed out of every served domain and deleted (finding 2). |
| entry_promote_three | MCEntryState_promote.cfg | violation | `IdleHolderIsEarliest` fails with three entries on one name: the remaining duplicate is never promoted (finding 3). |
| lock_rivals | MCDNSLock_liveness.cfg | pass | Two rival lock ids, a record lost or garbled by another party, and a restart, with the refresh's lookup and status write as separate steps. A lost record of a live lock is written again (`RecordRestored`). This holds even when a late status write restores a first failure the worker had just cleared. |
| lock_handover | MCDNSLock_handover.cfg | pass | Two objects of one lock id, timestamps 1..2 and a renewal. When one object's `checkAndDeleteLock` deletes the record that the other had found to be its own, the other's refresh requests a rewrite and the record comes back (`RecordRestored`). |
| lock_monotonic | MCDNSLock_monotonic.cfg | violation | `LockMonotonic` (spec 8.4 and the deletion rule of 4.5) fails: the read/write race lets timestamp 1 overwrite timestamp 2, and the read/delete race deletes a later record written after the read (finding 4). |
| lock_contested_ready | MCDNSLock_contested.cfg | violation | `ReadyMeansOwnRecord` fails: the refresh reports ready for a lock whose record has a garbled timestamp, or carries another id (finding 5). |
| txt_getattr | MCTxtAttr_getattr.cfg | pass | Over every lock encoding with values in {d, v, =}, `GetAttr` returns the encoded value of each key, `=` in values included (`GetAttrMatchesEncoding`). On every record set with a numeric timestamp, the delete path deletes exactly what the update path would accept as its own (`LockPathsAgree`). |
| txt_delete_unparsable | MCTxtAttr_delete.cfg | violation | `DeleteOnlyAcceptedRecord` fails: the delete path deletes a record set of its lock id whose timestamp is missing or unparsable (finding 6). |
| object_modify | MCObjectModify.cfg | pass | Four concurrent `I_modify` calls, two of them creating, against an object that exists or is still to be created, from a lagging cache, with 2 tries each: no successful write is lost (`NoLostUpdate`) and a call gives up only after MaxTries−1 updates by others (`GivesUpOnlyUnderContention`). |

### Findings

1. **A record is written for an object without a finalizer.** Lines 287 and
   328–331: Entry.Update changes the indexed entry in place before
   SetFinalizer. When SetFinalizer fails, the changed entry stays indexed and
   keeps the claim, and line 464 still triggers the zone. Arbitration does not
   look at validity, so an invalid version may already hold the claim. The
   zone reconciler then writes a record for an object without a finalizer.
2. **A deletion hangs after a rename out of every served domain.** The
   outdated entry waits on its old zone (297–302). Line 464 triggers only the
   premise zone of the current name, which is empty, so the old zone is never
   triggered and the deletion never finishes. This finding depends on the
   spec-modelled reading of activezone and ZoneId.
3. **A duplicate can be left unpromoted.** Entries 1 < 2 < 3 claim one name,
   1 holds it, and 1 and 2 are deleted. 1's cleanup releases the name and
   requeues only the earliest duplicate, 2 (537). 2's handler sees its
   deletion. It never held the claim, so its cleanup triggers no one (512).
   The controller goes idle with the name unclaimed and no record, while 3
   stays a duplicate in `error`. Spec 4.3 says the next entry is promoted
   when the winner disappears. Only a later event on 3 repairs this, or a
   periodic resync configured outside the repository. The 2-object liveness
   run cannot show this: with two entries the earliest duplicate is the only
   one.
4. **The lock read and the write or delete are not atomic.**
   - `checkAndUpdateLock` reads the TXT record at 559 and writes it at 605.
     The write is unconditional, so another writer's newer lock can be
     overwritten. This is the trace TLC reports.
   - `checkAndDeleteLock` reads at 637 and deletes at 649. Object `b` with
     the same lock id holding timestamp 2 can write in between, and
     object `a`'s delete (timestamp 1) removes `b`'s newer lock. TLC finds
     this half too when the overwrite half is taken out of the property.
     Whether a provider refuses to delete values that changed depends on its
     adapter.
5. **A lock reports ready for a record that is not its own.**
   `UpdateLockStates` sets `ready` after every successful lookup (719),
   whatever the record set carries. Two cases:
   - A rival lock id. This undoes the `stale` that line 568 set.
   - The lock's own id with a timestamp that does not parse.
     `checkAndUpdateLock` marks such a lock stale at 575 and neither rewrites
     nor requeues it. Each refresh then reports it ready, while the record
     stays garbled until the spec changes.

   TLC's shortest trace takes the garbled case: the lock writes its record,
   another party garbles the timestamp, and the refresh looks it up and
   writes ready. With no edits allowed, it finds the rival-id trace.
6. **The delete path removes a record the update path refuses.**
   `checkAndDeleteLock` ignores the `ParseInt` error (646), so a missing or
   unparsable timestamp counts as 0 and the record set of our lock id is
   deleted. `checkAndUpdateLock` (574–580) treats the same record set as
   invalid and marks the lock stale without touching it.

### Stated but not run

`TxtAttr` also states two properties that fail, for which no run is kept:

- **`LookupParsesEncoding`.** The lookup loop splits each string on every `=`
  (679) and treats anything but exactly two fields as unnamed. So the
  attribute `k=a=b` appears in `status.attributes` as `_0: k=a=b`. Only the
  status is affected; the controller reads attributes through `GetAttr`.
- **`GetAttrTotal`.** A record-set value equal to the prefix `"<name>=`,
  without a closing quote, makes the slice at 140 have low > high, and
  `GetAttr` panics. This needs another party to put such a string into the
  lock's record set.

Either one fails at once with `MCTxtAttr_getattr.cfg` if the invariant is
replaced. For `GetAttrTotal`, `Foreign` must also be set to `MCForeign`.

## Bounds

**EntryState**

- 2 objects and 2 names: n1 is in the served zone z1, and n2 is in z2, which
  no provider serves.
  - Two objects on one name exercise both arbitration directions and the
    takeover through cleanupEntry.
  - The foreign name exercises the not-managing path.
  - Creation timestamps are either equal (ties are broken by name) or
    increasing.
- 1 update: a rename into n1 or a validity change.
- Safety run: 1 failed finalizer write and 1 restart.
- The liveness run has neither a failed write nor a restart. With them it
  takes about 4 minutes.
- A third object is needed to make the choice of *the earliest* duplicate in
  cleanupEntry matter. `EventuallyConverged` on three objects does not finish
  in 10 minutes. The promote run therefore checks the safety form
  `IdleHolderIsEarliest` on one name, with no updates, errors or restarts,
  which leaves the three-way arbitration and the deletions. It finds the
  violation after 341k states in about 20 seconds.

**DNSLock**

- 2 lock objects.
- TTL = 0. The code uses time only to test whether a first failure is older
  than 2×TTL, so two ages suffice: 0 (within) and 1 (beyond). A larger TTL
  adds ages that no guard tells apart, and with the split refresh it
  multiplies the state space about fivefold.
- Rivals: timestamp 1, 1 edit by another party (loss or garbled timestamp),
  1 restart. About 496k states in about 2 minutes.
- Handover: timestamps 1..2, 1 renewal. About 345k states in under 2
  minutes. The lock entry is handled unlocked the first time in both runs.
- No run has a transient lookup failure of a present record
  (`MaxLookupFailures` = 0). The failed-lookup path is reached through the
  lost record instead; adding both doubles the state space.
- Contested: rival ids with 1 edit by another party, so both the garbled and
  the rival-id traces exist.
- Monotonic: two objects of one lock id created with timestamps 1 and 2 (no
  renewal is needed), so the later one can write
  while the other is between its read and its write or delete.

**TxtAttr**

- Values of up to 2 characters over {d, v, =}, up to 2 attributes over the
  keys `l` (lock id) and `t` (timestamp). Two characters suffice for an empty,
  a numeric, a non-numeric and an `=`-carrying value.
- The digit `d` stands for 1, so the timestamps are `d` = 1 and `dd` = 11.
  The reader has timestamp 1 or 2 and lock id `d` or `v`. This covers equal,
  earlier and later timestamps and a matching and a foreign id.

**ObjectModify**

- 4 writers. The status writer and the three non-status writers cover the
  status/non-status split. The finalizer and the clients cover several
  writers on one subresource. The two clients set one field to different
  values, and both may create the object, so the create race and its
  `AlreadyExists` path happen. The initial object exists or is absent.
  A second status writer (the lock-status update) grows the state space
  from 77k to about 5M states and adds no case. It is left out. `MaxTries` = 2 makes
  giving up reachable (the code's 10 only lengthens the same loop); 2 cache
  refreshes let writers start from the current or an older copy.

## Fairness

- **Work queue.** It hands out every queued key. A worker finishes the handler
  it started. This is weak fairness on `Dequeue`/`HandleUpdateEntry`/
  `EntryDeleted`, and on `HandleLock`/`WriteLock`/`DeleteLock`.
- **Zone worker.** It runs every triggered zone: `ReconcileZone`.
- **API server.** It removes objects without finalizers: `Remove`.
- **UpdateLockStates.** It runs periodically (spec 4.5) and finishes each
  entry it looked up: `LookupLock` and `RefreshStatus`.
- **Time.** It advances: `Tick`.
- **Not fair.** Client actions, losses and restarts are bounded and not
  fair.
- `TxtAttr` and `ObjectModify` have no liveness properties and no fairness.
- **Deadlock checking.** It is off (`CHECK_DEADLOCK FALSE`), because once the
  bounded events are used up the controller is idle, which is the intended
  end state.

## Not modelled

- **Owner-driven triggers** (`TriggerEntries*`, `GetEntriesByOwner`). There
  are no owner objects.
- **The blockingEntries delay.** It is timing only.
- **The premise re-check and Repeat.** Providers are fixed.
- **Adapter errors.** Delay requeues the key.
- **The status attributes and timestamps of locks.** `AssureTimestamp` and
  `EqualAttrs` only decide whether the status changed.
- **`GetTargets`, `FromPlainRecordSet`, `ToPlainRecordset`.** These are
  single loops that copy fields or pick an ingress's IP, or its hostname if
  it has no IP. They have no state, no interaction and no boundary a
  property could be about, so a model would only restate them.
- **The generated listers and go.mod.** They have no behaviour.
- **An abstract specification of the claims.** The arbitration guard
  `HolderWins` is the spec's (creation time, object name) order itself, so a
  refinement to an abstract spec where only an earlier entry takes a name
  over restates that guard. The order is checked by its effect instead:
  `EventuallyConverged` fails when ties in creation time are not broken by
  name.
- **A failed status write of the lock refresh.** `UpdateLockStates` ignores
  the error of `ModifyStatus` (715). `ObjectModify` shows that such a write
  is dropped only under contention. `DNSLock` lets every refresh status
  write succeed, because its runs are already at their time limit.

## Plan for further work

1. **Liveness of duplicate promotion** on three objects, with a smaller
   encoding of the work queue.
