----------------------------- MODULE EntryState -----------------------------
(***************************************************************************)
(* The entry reconciliation state engine of the DNS controller            *)
(* (pkg/dns/provider/state_entry.go): the entry index, the dnsnames claim  *)
(* map, duplicate arbitration, finalizer handling on deletion, the         *)
(* outdated set and the zone triggers, driven by a work queue whose       *)
(* workers read an object from the informer cache and then commit it.     *)
(*                                                                         *)
(* The cluster (object lifecycle, finalizers, status) and the provider    *)
(* (one record per DNS name) are modelled around it; the zone reconciler  *)
(* is modelled from the spec (section 4.4), its code is not in the        *)
(* repository.  All entries are of the regular kind; the lock kind is     *)
(* modelled in DNSLock.                                                    *)
(***************************************************************************)
EXTENDS Integers, FiniteSets

CONSTANTS
    Objects,        \* names of DNSEntry objects; numeric order = name order
    Names,          \* DNS names
    Zones,          \* hosted zones
    ZoneOf,         \* [Names -> Zones]: the zone a DNS name falls into
    ProviderZones,  \* zones some valid provider serves (this.zones)
    NoObj, NoZone, NoEntry, Idle, Vanished,
    MaxUpdates,     \* bound on spec updates of live objects
    MaxApiErrors,   \* bound on failed finalizer writes
    MaxRestarts,    \* bound on controller restarts
    SpecValidity,   \* validity outcomes a spec can have: {TRUE} or BOOLEAN
    RenameNames     \* the DNS names an update may move an entry to

ASSUME Objects \subseteq Nat /\ ProviderZones \subseteq Zones
ASSUME ZoneOf \in [Names -> Zones]

VARIABLES
    phase,      \* cluster: "absent" | "live" | "deleting" | "gone"
    spec,       \* cluster: [name, ok] of each object's spec
    fin,        \* cluster: the controller's finalizer is on the object
    state,      \* cluster: status.state
    szone,      \* cluster: status.zone, the zone the entry was last bound to
    ctime,      \* cluster: creation timestamp
    clock,      \* cluster: last creation timestamp handed out
    entries,    \* controller: this.entries, object -> Entry
    dnsnames,   \* controller: this.dnsnames, DNS name -> object of the claim
    outdated,   \* controller: this.outdated, entries awaiting provider delete
    queue,      \* controller: work queue of object keys
    busy,       \* controller: the object snapshot a worker holds for a key
    zq,         \* controller: triggered hosted zones
    records,    \* provider: DNS name -> object whose record is set
    updates, apiErrors, restarts

cluster    == <<phase, spec, fin, state, szone, ctime, clock>>
controller == <<entries, dnsnames, outdated, queue, busy, zq>>
vars == <<cluster, controller, records, updates, apiErrors, restarts>>

States == {"", "pending", "ready", "error", "invalid", "stale"}
Entry  == [name: Names, zone: Zones \cup {NoZone}, active: Zones \cup {NoZone},
           valid: BOOLEAN,
           deleting: BOOLEAN, dup: BOOLEAN, modified: BOOLEAN]
Snapshot == [name: Names, ok: BOOLEAN, deleting: BOOLEAN, szone: Zones \cup {NoZone}]

\* Entry.Before: creation timestamp, then object name
Before(a, b) == \/ ctime[a] < ctime[b]
                \/ ctime[a] = ctime[b] /\ a < b

\* EntryPremise: the zone of the provider whose domains cover the name
PremiseZone(n) == IF ZoneOf[n] \in ProviderZones THEN ZoneOf[n] ELSE NoZone

\* state.IsManaging: the provider type set by the premise is enabled
IsManaging(v) == v.zone # NoZone

\* Entry.IsActive: the entry is bound to a zone (activezone is set)
IsActive(v) == v.active # NoZone

\* Entry identity: Entry.Update keeps the Entry iff the DNS name is kept
SameEntry(x, y) == x # NoEntry /\ y # NoEntry /\ x.name = y.name

\* NewEntryVersion + EntryVersion.Setup + Entry.Update: a fresh version of
\* the object; an Entry kept by Update keeps its activezone, a new Entry
\* starts from the zone in the object's status.  A version is modified
\* when it differs from the previous one, follows a duplicate, or the
\* status is not ready yet.
NewVersion(o, s, old) ==
    [name |-> s.name, zone |-> PremiseZone(s.name),
     active |-> IF old # NoEntry /\ old.name = s.name THEN old.active ELSE s.szone,
     valid |-> s.ok,
     deleting |-> s.deleting, dup |-> FALSE,
     modified |-> \/ s.deleting \/ old = NoEntry \/ old.name # s.name
                  \/ old.valid # s.ok \/ old.dup \/ state[o] # "ready"]

\* Entries.Delete: removes the entry only if it is the indexed one
EntriesDelete(ix, o, e) == IF SameEntry(ix[o], e) THEN [ix EXCEPT ![o] = NoEntry]
                                                  ELSE ix

\* cleanupEntry's scan: the earliest duplicate claiming the same name
DuplicateToReactivate(ix, n) ==
    LET dups == {a \in Objects : ix[a] # NoEntry /\ ix[a].dup /\ ix[a].name = n}
    IN  IF dups = {} THEN NoObj
        ELSE CHOOSE a \in dups : \A b \in dups \ {a} : Before(a, b)

\* Mutation of CleanupEntry: the claim of the dropped entry is kept
CleanupEntryKeepsClaim(ix, dn, o, e) ==
    LET found == DuplicateToReactivate(EntriesDelete(ix, o, e), e.name)
    IN  [ix |-> EntriesDelete(ix, o, e), dn |-> dn,
         trig |-> IF dn[e.name] = o /\ found # NoObj THEN {found} ELSE {}]

\* Mutation of CleanupEntry: the duplicate is not triggered
CleanupEntryNoTrigger(ix, dn, o, e) ==
    [ix |-> EntriesDelete(ix, o, e),
     dn |-> IF dn[e.name] = o THEN [dn EXCEPT ![e.name] = NoObj] ELSE dn,
     trig |-> {}]

\* Mutation of CleanupEntry: the claim is cleared with the entry sentinel
CleanupEntryWrongSentinel(ix, dn, o, e) ==
    [ix |-> EntriesDelete(ix, o, e),
     dn |-> IF dn[e.name] = o THEN [dn EXCEPT ![e.name] = NoEntry] ELSE dn,
     trig |-> {}]

\* cleanupEntry: drop e from the index and release its claim, triggering
\* the duplicate that is to take it over
CleanupEntry(ix, dn, o, e) ==
    LET ix1   == EntriesDelete(ix, o, e)
        held  == dn[e.name] = o
        found == DuplicateToReactivate(ix1, e.name)
    IN  [ix   |-> ix1,
         dn   |-> IF held THEN [dn EXCEPT ![e.name] = NoObj] ELSE dn,
         trig |-> IF held /\ found # NoObj THEN {found} ELSE {}]

NoCleanup(ix, dn) == [ix |-> ix, dn |-> dn, trig |-> {}]

\* Mutation of HolderWins: entries are ordered by creation timestamp only
HolderWinsByTime(cur, o) == cur \notin {NoObj, o} /\ ctime[cur] < ctime[o]

\* Arbitration in AddEntryVersion: the name is held by another object that
\* is before the new entry (cur.Before(new))
HolderWins(cur, o) == cur \notin {NoObj, o} /\ Before(cur, o)

\* Mutation of MarkDuplicate: the displaced holder is left active
MarkDuplicateNoop(ix, cur, n) == ix

\* The displaced holder of a name becomes a duplicate
MarkDuplicate(ix, cur, n) ==
    IF ix[cur] # NoEntry /\ ix[cur].name = n
    THEN [ix EXCEPT ![cur].dup = TRUE, ![cur].modified = FALSE]
    ELSE ix

\* Finalizer writes against the API server: adding a new finalizer to an
\* object that is being deleted or gone is refused, removing one that is
\* not there is a no-op; fail models a failed or conflicting update.
SetFinalizerOk(o, fail)    == fin[o] \/ (~fail /\ phase[o] = "live")
RemoveFinalizerOk(o, fail) == ~fin[o] \/ ~fail

\* Mutation of ReleaseFinalizer: the finalizer of a valid entry bound to a
\* served zone is dropped at once instead of after the provider delete
ReleaseFinalizerEarly(o, v) ==
    \/ v.valid /\ (~IsActive(v) \/ szone[o] = NoZone \/ v.active \in ProviderZones)
    \/ ~v.valid /\ (~IsActive(v) \/ state[o] # "stale")

\* AddEntryVersion, deleting input: whether the finalizer is removed at
\* once: the zone the entry was bound to is gone, or the entry is invalid
\* (unless it is an active stale one)
ReleaseFinalizer(o, v) ==
    \/ v.valid /\ v.active \notin ProviderZones
       /\ (~IsActive(v) \/ szone[o] = NoZone)
    \/ ~v.valid /\ (~IsActive(v) \/ state[o] # "stale")

\* AddEntryVersion, deleting input: release the claim, then either queue
\* the entry for provider-side deletion or drop the finalizer at once
AddDeletingVersion(o, v, old, fail) ==
    LET c      == IF old # NoEntry THEN CleanupEntry(entries, dnsnames, o, old)
                                   ELSE NoCleanup(entries, dnsnames)
        wait   == v.valid /\ v.active \in ProviderZones /\ fin[o]
        remove == ReleaseFinalizer(o, v)
        err    == remove /\ ~RemoveFinalizerOk(o, fail)
    IN  [ix  |-> IF err THEN [c.ix EXCEPT ![o] = v] ELSE c.ix,
         dn  |-> c.dn,
         out |-> IF wait THEN outdated \cup {[obj |-> o, zone |-> v.active]}
                         ELSE outdated,
         fin |-> IF remove /\ ~err THEN FALSE ELSE fin[o],
         st  |-> state[o], trig |-> c.trig, zt |-> {}, new |-> v, err |-> err]

\* AddEntryVersion, live input: set the finalizer, install the entry,
\* clean up a renamed one, and arbitrate the claim on the DNS name
AddLiveVersion(o, v, old, fail) ==
    LET st0     == IF v.valid THEN state[o] ELSE "invalid"
        needFin == v.valid /\ IsManaging(v)
        ix1     == [entries EXCEPT ![o] = v]
        renamed == old # NoEntry /\ ~SameEntry(old, v)
        c       == IF renamed THEN CleanupEntry(ix1, dnsnames, o, old)
                              ELSE NoCleanup(ix1, dnsnames)
        zt      == IF renamed /\ old.active # NoZone /\ old.active # v.zone
                      /\ old.active \in ProviderZones THEN {old.active} ELSE {}
        cur     == c.dn[v.name]
        contest == cur \notin {NoObj, o}
        dupv    == [v EXCEPT !.dup = TRUE, !.modified = FALSE]
    IN  CASE needFin /\ ~SetFinalizerOk(o, fail) ->
               [ix |-> IF SameEntry(old, v) THEN ix1 ELSE entries,
                dn |-> dnsnames, out |-> outdated, fin |-> fin[o], st |-> st0,
                trig |-> {}, zt |-> {}, new |-> v, err |-> TRUE]
          [] ~IsManaging(v) ->
               [ix |-> c.ix, dn |-> c.dn, out |-> outdated, fin |-> fin[o],
                st |-> st0, trig |-> c.trig, zt |-> zt, new |-> NoEntry,
                err |-> FALSE]
          [] HolderWins(cur, o) ->
               [ix |-> [c.ix EXCEPT ![o] = dupv], dn |-> c.dn, out |-> outdated,
                fin |-> needFin \/ fin[o],
                st |-> IF v.valid THEN "error" ELSE st0,
                trig |-> c.trig, zt |-> zt, new |-> dupv, err |-> FALSE]
          [] OTHER ->
               [ix |-> IF contest THEN MarkDuplicate(c.ix, cur, v.name) ELSE c.ix,
                dn |-> [c.dn EXCEPT ![v.name] = o], out |-> outdated,
                fin |-> needFin \/ fin[o],
                st |-> IF v.valid /\ st0 \notin {"ready", "pending"}
                       THEN "pending" ELSE st0,
                trig |-> c.trig \cup (IF contest THEN {cur} ELSE {}),
                zt |-> zt, new |-> v, err |-> FALSE]

AddEntryVersion(o, v, old, fail) ==
    IF v.deleting THEN AddDeletingVersion(o, v, old, fail)
                  ELSE AddLiveVersion(o, v, old, fail)

-----------------------------------------------------------------------------
(* The cluster: objects are created, updated, marked for deletion, and    *)
(* removed once no finalizer is left; every event enqueues the key.       *)

Init ==
    /\ phase = [o \in Objects |-> "absent"]
    /\ spec = [o \in Objects |-> [name |-> CHOOSE n \in Names : TRUE, ok |-> TRUE]]
    /\ fin = [o \in Objects |-> FALSE]
    /\ state = [o \in Objects |-> ""]
    /\ szone = [o \in Objects |-> NoZone]
    /\ ctime = [o \in Objects |-> 0]
    /\ clock = 0
    /\ entries = [o \in Objects |-> NoEntry]
    /\ dnsnames = [n \in Names |-> NoObj]
    /\ outdated = {}
    /\ queue = {}
    /\ busy = [o \in Objects |-> Idle]
    /\ zq = {}
    /\ records = [n \in Names |-> NoObj]
    /\ updates = 0 /\ apiErrors = 0 /\ restarts = 0

Create(o) ==
    /\ phase[o] = "absent"
    /\ \E n \in Names, ok \in SpecValidity, t \in {clock, clock + 1} :
          /\ spec' = [spec EXCEPT ![o] = [name |-> n, ok |-> ok]]
          /\ ctime' = [ctime EXCEPT ![o] = t]
          /\ clock' = t
    /\ phase' = [phase EXCEPT ![o] = "live"]
    /\ queue' = queue \cup {o}
    /\ UNCHANGED <<fin, state, szone, entries, dnsnames, outdated, busy, zq, records,
                   updates, apiErrors, restarts>>

\* An update of the spec: a new DNS name or a spec that fails validation
Update(o) ==
    /\ phase[o] = "live" /\ updates < MaxUpdates
    /\ \E n \in RenameNames, ok \in SpecValidity :
          /\ [name |-> n, ok |-> ok] # spec[o]
          /\ spec' = [spec EXCEPT ![o] = [name |-> n, ok |-> ok]]
    /\ updates' = updates + 1
    /\ queue' = queue \cup {o}
    /\ UNCHANGED <<phase, fin, state, szone, ctime, clock, entries, dnsnames, outdated,
                   busy, zq, records, apiErrors, restarts>>

Delete(o) ==
    /\ phase[o] = "live"
    /\ phase' = [phase EXCEPT ![o] = IF fin[o] THEN "deleting" ELSE "gone"]
    /\ queue' = queue \cup {o}
    /\ UNCHANGED <<spec, fin, state, szone, ctime, clock, entries, dnsnames, outdated,
                   busy, zq, records, updates, apiErrors, restarts>>

\* The API server removes a deleted object once its finalizer is gone
Remove(o) ==
    /\ phase[o] = "deleting" /\ ~fin[o]
    /\ phase' = [phase EXCEPT ![o] = "gone"]
    /\ queue' = queue \cup {o}
    /\ UNCHANGED <<spec, fin, state, szone, ctime, clock, entries, dnsnames, outdated,
                   busy, zq, records, updates, apiErrors, restarts>>

-----------------------------------------------------------------------------
(* The controller: a worker takes a key off the queue and reads the       *)
(* object from the cache; later it runs the handler on what it read.      *)

Dequeue(o) ==
    /\ o \in queue /\ busy[o] = Idle
    /\ queue' = queue \ {o}
    /\ busy' = [busy EXCEPT ![o] =
                  IF phase[o] = "gone" THEN Vanished
                  ELSE [name |-> spec[o].name, ok |-> spec[o].ok,
                        deleting |-> phase[o] = "deleting", szone |-> szone[o]]]
    /\ UNCHANGED <<cluster, entries, dnsnames, outdated, zq, records,
                   updates, apiErrors, restarts>>

\* HandleUpdateEntry (UpdateEntry / DeleteEntry) for a regular entry
HandleUpdateEntry(o) ==
    /\ busy[o] \in Snapshot
    /\ \E fail \in IF apiErrors < MaxApiErrors THEN BOOLEAN ELSE {FALSE} :
       LET old == entries[o]
           v   == NewVersion(o, busy[o], old)
           r   == AddEntryVersion(o, v, old, fail)
           zt  == IF r.new # NoEntry /\ r.new.modified /\ r.new.zone # NoZone
                  THEN {r.new.zone} ELSE {}
       IN  /\ entries' = r.ix
           /\ dnsnames' = r.dn
           /\ outdated' = r.out
           /\ fin' = [fin EXCEPT ![o] = r.fin]
           /\ state' = [state EXCEPT ![o] = r.st]
           /\ zq' = zq \cup r.zt \cup zt
           /\ queue' = queue \cup r.trig \cup (IF r.err THEN {o} ELSE {})
           /\ apiErrors' = IF r.err THEN apiErrors + 1 ELSE apiErrors
    /\ busy' = [busy EXCEPT ![o] = Idle]
    /\ UNCHANGED <<phase, spec, szone, ctime, clock, records, updates, restarts>>

\* EntryDeleted: the object is gone from the cluster
EntryDeleted(o) ==
    /\ busy[o] = Vanished
    /\ LET old == entries[o]
           c   == IF old # NoEntry THEN CleanupEntry(entries, dnsnames, o, old)
                                   ELSE NoCleanup(entries, dnsnames)
       IN  /\ entries' = c.ix
           /\ dnsnames' = c.dn
           /\ queue' = queue \cup c.trig
           /\ zq' = IF old # NoEntry /\ PremiseZone(old.name) # NoZone
                    THEN zq \cup {PremiseZone(old.name)} ELSE zq
    /\ busy' = [busy EXCEPT ![o] = Idle]
    /\ UNCHANGED <<cluster, outdated, records, updates, apiErrors, restarts>>

\* Zone reconciliation (spec 4.4): the zone's records become the claims of
\* valid live entries; outdated entries of the zone lose their finalizer
\* once their records are deleted; the claimants become ready.
Desired(n) == /\ dnsnames[n] # NoObj
              /\ entries[dnsnames[n]] # NoEntry
              /\ entries[dnsnames[n]].valid
              /\ ~entries[dnsnames[n]].deleting

\* The claim on a name of zone z that the zone reconciler binds
BoundIn(o, z) == \E n \in Names : ZoneOf[n] = z /\ Desired(n) /\ dnsnames[n] = o

ReconcileZone(z) ==
    /\ z \in zq
    /\ zq' = zq \ {z}
    /\ records' = [n \in Names |->
                     IF ZoneOf[n] # z THEN records[n]
                     ELSE IF Desired(n) THEN dnsnames[n] ELSE NoObj]
    /\ fin' = [o \in Objects |->
                 IF [obj |-> o, zone |-> z] \in outdated THEN FALSE ELSE fin[o]]
    /\ outdated' = {d \in outdated : d.zone # z}
    /\ state' = [o \in Objects |-> IF BoundIn(o, z) THEN "ready" ELSE state[o]]
    /\ szone' = [o \in Objects |-> IF BoundIn(o, z) THEN z ELSE szone[o]]
    /\ entries' = [o \in Objects |-> IF BoundIn(o, z)
                                      THEN [entries[o] EXCEPT !.active = z]
                                      ELSE entries[o]]
    /\ UNCHANGED <<phase, spec, ctime, clock, dnsnames, queue, busy,
                   updates, apiErrors, restarts>>

\* A controller restart: the in-memory state is lost, the initial list of
\* the informer enqueues every object that still exists, and the providers
\* listed at startup trigger their zones
Restart ==
    /\ restarts < MaxRestarts
    /\ restarts' = restarts + 1
    /\ entries' = [o \in Objects |-> NoEntry]
    /\ dnsnames' = [n \in Names |-> NoObj]
    /\ outdated' = {}
    /\ zq' = ProviderZones
    /\ busy' = [o \in Objects |-> Idle]
    /\ queue' = {o \in Objects : phase[o] \in {"live", "deleting"}}
    /\ UNCHANGED <<cluster, records, updates, apiErrors>>

-----------------------------------------------------------------------------
Next ==
    \/ \E o \in Objects :
          \/ Create(o) \/ Update(o) \/ Delete(o) \/ Remove(o)
          \/ Dequeue(o) \/ HandleUpdateEntry(o) \/ EntryDeleted(o)
    \/ \E z \in Zones : ReconcileZone(z)
    \/ Restart

\* The work queue hands every queued key to a worker, a worker finishes the
\* handler it started, the zone worker runs every triggered zone, and the
\* API server removes objects without finalizers.
Fairness ==
    /\ \A o \in Objects : /\ WF_vars(Dequeue(o))
                          /\ WF_vars(HandleUpdateEntry(o))
                          /\ WF_vars(EntryDeleted(o))
                          /\ WF_vars(Remove(o))
    /\ \A z \in Zones : WF_vars(ReconcileZone(z))

Spec == Init /\ [][Next]_vars /\ Fairness

-----------------------------------------------------------------------------
TypeOK ==
    /\ phase \in [Objects -> {"absent", "live", "deleting", "gone"}]
    /\ spec \in [Objects -> [name: Names, ok: BOOLEAN]]
    /\ fin \in [Objects -> BOOLEAN]
    /\ state \in [Objects -> States]
    /\ szone \in [Objects -> Zones \cup {NoZone}]
    /\ entries \in [Objects -> Entry \cup {NoEntry}]
    /\ dnsnames \in [Names -> Objects \cup {NoObj}]
    /\ outdated \subseteq [obj: Objects, zone: Zones]
    /\ queue \subseteq Objects
    /\ busy \in [Objects -> Snapshot \cup {Idle, Vanished}]
    /\ zq \subseteq Zones
    /\ records \in [Names -> Objects \cup {NoObj}]

\* An entry takes part in the claim on its name: indexed, managed, not a
\* duplicate and not being deleted
Active(o) == /\ entries[o] # NoEntry
             /\ ~entries[o].dup /\ ~entries[o].deleting
             /\ entries[o].zone # NoZone

\* Duplicate arbitration in AddEntryVersion and the reactivation in
\* cleanupEntry never leave two active entries on one DNS name, across
\* renames, deletions, failed finalizer writes and restarts.
SingleActiveClaimant ==
    \A a, b \in Objects :
        a # b /\ Active(a) /\ Active(b) => entries[a].name # entries[b].name

\* The claim in dnsnames always names the indexed, active entry for that
\* name: cleanupEntry releases every claim of an entry it drops.
ClaimIsIndexed ==
    \A n \in Names : dnsnames[n] # NoObj =>
        /\ Active(dnsnames[n])
        /\ entries[dnsnames[n]].name = n

\* Finalizer discipline (spec 3 and 6): an object whose record is set in
\* the provider carries the finalizer, so it cannot disappear before the
\* record is deleted; AddEntryVersion sets the finalizer before the entry
\* can be bound and drops it only for entries that were never bound.
FinalizerCoversRecord ==
    \A n \in Names : records[n] # NoObj => fin[records[n]]

\* The live objects that claim DNS name n in a zone a provider serves
Claimants(n) == {o \in Objects : /\ phase[o] = "live"
                                 /\ spec[o].name = n
                                 /\ PremiseZone(n) # NoZone}

Earliest(S) == CHOOSE a \in S : \A b \in S \ {a} : Before(a, b)

Converged ==
    /\ \A o \in Objects : phase[o] # "deleting"
    /\ \A n \in Names :
         IF Claimants(n) = {}
         THEN dnsnames[n] = NoObj /\ records[n] = NoObj
         ELSE LET w == Earliest(Claimants(n)) IN
              /\ dnsnames[n] = w
              /\ records[n] = IF spec[w].ok THEN w ELSE NoObj
              /\ spec[w].ok => state[w] = "ready"
              /\ \A o \in Claimants(n) \ {w} :
                    entries[o] # NoEntry /\ entries[o].dup /\ (spec[o].ok => state[o] = "error")

\* Whenever the controller is idle (no key queued, no handler running),
\* every served DNS name that live entries claim is held by the earliest
\* of them: when a holder goes, cleanupEntry hands the name to the
\* earliest waiting duplicate, not to any of them.
ControllerIdle == queue = {} /\ \A o \in Objects : busy[o] = Idle

IdleHolderIsEarliest ==
    ControllerIdle =>
        \A n \in Names : Claimants(n) # {} => dnsnames[n] = Earliest(Claimants(n))

\* Once the objects stop changing, the controller settles: deletions
\* complete, each DNS name is held by its earliest live entry whose record
\* is set and which is ready, and every later one is an erroneous
\* duplicate (entries created in the same second are ordered by object
\* name in Entry.Before); no periodic resync is needed for this.
EventuallyConverged == <>[]Converged

\* An object marked for deletion carries the finalizer only until the
\* provider has deleted its record, so every deletion eventually
\* completes (spec 6: the finalizer is removed once cleanup is done).
DeletionCompletes == \A o \in Objects : phase[o] = "deleting" ~> phase[o] = "gone"

=============================================================================
