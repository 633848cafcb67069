------------------------------ MODULE DNSLock -------------------------------
(***************************************************************************)
(* The DNS lock sub-protocol of the entry state engine                    *)
(* (checkAndUpdateLock, checkAndDeleteLock, UpdateLockStates): lock        *)
(* objects, possibly handled by controllers of different clusters, own a  *)
(* TXT record on one shared DNS name.  Each lock object has its own       *)
(* worker; the per-entry lock serialises the steps of one object only, so *)
(* the read of the record set and the write or delete that depends on it *)
(* are separate steps that other lock objects can interleave.             *)
(*                                                                         *)
(* The TXT record set is abstracted to the lock id and timestamp it       *)
(* carries (the attributes and TTL are the same for all versions of a     *)
(* lock), whose timestamp another party may have Garbled; time is       *)
(* abstracted to the age of a first failed lookup, saturating just above  *)
(* the 2*TTL resurrection threshold.                                       *)
(***************************************************************************)
EXTENDS Integers

CONSTANTS
    Locks,          \* DNSLock objects targeting the same DNS name
    LockIds,        \* lock ids
    LockIdOf,       \* [Locks -> LockIds]: spec.lockId of each object
    MaxTs,          \* largest spec.timestamp a client sets
    TTL,            \* spec.ttl, in ticks of the refresh clock
    MaxRenews,      \* bound on timestamp renewals by clients
    MaxLosses,      \* bound on TXT records lost outside the controller
    MaxLookupFailures, \* bound on transient resolver failures
    MaxRestarts,    \* bound on controller restarts
    Empty, None, NoEntry, Idle,
    Garbled         \* a timestamp attribute that does not parse as an integer

ASSUME LockIdOf \in [Locks -> LockIds] /\ MaxTs \in Nat \ {0} /\ TTL \in Nat

\* Ages beyond this are all "more than 2*TTL"
AgeCap == 2 * TTL + 1

VARIABLES
    phase,      \* cluster: "absent" | "live" | "deleting" | "gone"
    lts,        \* cluster: spec.timestamp of each lock object
    fin,        \* cluster: the controller's finalizer is on the object
    sstate,     \* cluster: status.state: "" | "ready" | "stale"
    ffl,        \* cluster: status.firstFailedDNSLookup: None or [age, cur]
    seen,       \* controller: the timestamp the indexed entry was built from
    upd,        \* controller: entry.updateRequired
    pc,         \* controller: the step a worker is in for the object
    rf,         \* controller: Idle, or the entry UpdateLockStates' loop has
                \* looked up and not yet written the status of
    queue,      \* controller: work queue of object keys
    txt,        \* DNS: Empty or the [id, ts] the TXT record set carries
    renews, losses, lookupFails, restarts

cluster    == <<phase, lts, fin, sstate, ffl>>
controller == <<seen, upd, pc, rf, queue>>
counters   == <<renews, losses, lookupFails, restarts>>
vars == <<cluster, controller, txt, counters>>

\* Record sets on the name; the controller only ever writes OwnRecords
OwnRecord == [id: LockIds, ts: 1..MaxTs]
Record == [id: LockIds, ts: (1..MaxTs) \cup {Garbled}]

\* strconv.ParseInt of the timestamp attribute, 0 on error
ParsedTs(r) == IF r.ts = Garbled THEN 0 ELSE r.ts

\* Mutation of Own: the record set is built without the timestamp attribute
OwnWithoutTimestamp(l) == [id |-> LockIdOf[l], ts |-> 0]

\* The record set a lock object wants on the name (newRS)
Own(l) == [id |-> LockIdOf[l], ts |-> lts[l]]

-----------------------------------------------------------------------------
(* The cluster: lock objects are created, renewed by their client,        *)
(* marked for deletion and removed once no finalizer is left.             *)

Init ==
    /\ phase = [l \in Locks |-> "absent"]
    /\ lts = [l \in Locks |-> 1]
    /\ fin = [l \in Locks |-> FALSE]
    /\ sstate = [l \in Locks |-> ""]
    /\ ffl = [l \in Locks |-> None]
    /\ seen = [l \in Locks |-> NoEntry]
    /\ upd = [l \in Locks |-> FALSE]
    /\ pc = [l \in Locks |-> Idle]
    /\ rf = Idle
    /\ queue = {}
    /\ txt = Empty
    /\ renews = 0 /\ losses = 0 /\ lookupFails = 0 /\ restarts = 0

Create(l) ==
    /\ phase[l] = "absent"
    /\ \E t \in 1..MaxTs : lts' = [lts EXCEPT ![l] = t]
    /\ phase' = [phase EXCEPT ![l] = "live"]
    /\ queue' = queue \cup {l}
    /\ UNCHANGED <<fin, sstate, ffl, seen, upd, pc, rf, txt, counters>>

\* A client renews its lock with a later timestamp
Renew(l) ==
    /\ phase[l] = "live" /\ lts[l] < MaxTs /\ renews < MaxRenews
    /\ lts' = [lts EXCEPT ![l] = lts[l] + 1]
    /\ renews' = renews + 1
    /\ queue' = queue \cup {l}
    /\ UNCHANGED <<phase, fin, sstate, ffl, seen, upd, pc, rf, txt,
                   losses, lookupFails, restarts>>

Delete(l) ==
    /\ phase[l] = "live"
    /\ phase' = [phase EXCEPT ![l] = IF fin[l] THEN "deleting" ELSE "gone"]
    /\ queue' = queue \cup {l}
    /\ UNCHANGED <<lts, fin, sstate, ffl, seen, upd, pc, rf, txt, counters>>

Remove(l) ==
    /\ phase[l] = "deleting" /\ ~fin[l]
    /\ phase' = [phase EXCEPT ![l] = "gone"]
    /\ queue' = queue \cup {l}
    /\ UNCHANGED <<lts, fin, sstate, ffl, seen, upd, pc, rf, txt, counters>>

\* Another party edits the TXT record set outside the controller: it is
\* lost (zone edited, provider data lost) or its timestamp no longer parses
EditRecord ==
    /\ txt # Empty /\ losses < MaxLosses
    /\ txt' \in {Empty, [txt EXCEPT !.ts = Garbled]} \ {txt}
    /\ losses' = losses + 1
    /\ UNCHANGED <<cluster, controller, renews, lookupFails, restarts>>

-----------------------------------------------------------------------------
(* The controller: HandleUpdateEntry for a lock object, the write or      *)
(* delete that completes it, and the periodic lookup refresh.             *)

\* NewEntry / Entry.Update: a new entry, or one whose lock spec changed,
\* requires the record to be written
UpdateRequired(l) == seen[l] # lts[l] \/ upd[l]

\* checkAndDeleteLock: the record carries our lock id and a timestamp
\* that is not after ours
LockDeletable(l) == txt # Empty /\ txt.id = LockIdOf[l] /\ ParsedTs(txt) <= lts[l]

\* checkAndUpdateLock: the record carries our lock id and a timestamp that
\* parses
OwnReadable(l) == txt # Empty /\ txt.id = LockIdOf[l] /\ txt.ts # Garbled

\* HandleUpdateEntry holds the entry lock through the handler only when the
\* entry already existed (old != nil)
EntryLocked(l) == pc[l] # Idle /\ pc[l].locked

\* Mutation of LookupExpired: the age is taken with swapped operands
LookupExpiredSwapped(f) == 0 - f.age > 2 * TTL

\* UpdateLockStates: a first failure recorded since startup is older than
\* twice the TTL
LookupExpired(f) == f.age > 2 * TTL

\* HandleUpdateEntry for a lock object: the entry is (re)built, the
\* finalizer set, and checkAndUpdateLock reads the TXT record set and
\* decides; for a deleting object checkAndDeleteLock reads and decides.
\* The dependent write or delete is a later step of the same worker.
HandleLock(l) ==
    /\ l \in queue /\ pc[l] = Idle
    /\ queue' = queue \ {l}
    /\ LET locked == seen[l] # NoEntry IN
       CASE phase[l] = "gone" ->
              /\ seen' = [seen EXCEPT ![l] = NoEntry]
              /\ upd' = [upd EXCEPT ![l] = FALSE]
              /\ UNCHANGED <<cluster, pc, txt>>
         [] phase[l] = "deleting" ->
              /\ seen' = [seen EXCEPT ![l] = lts[l]]
              /\ pc' = [pc EXCEPT ![l] =
                          [op |-> IF LockDeletable(l) THEN "delete" ELSE "release",
                           rec |-> Own(l), locked |-> locked]]
              /\ UNCHANGED <<cluster, upd, txt>>
         [] phase[l] = "live" ->
              LET u == UpdateRequired(l) IN
              /\ seen' = [seen EXCEPT ![l] = lts[l]]
              /\ fin' = [fin EXCEPT ![l] = TRUE]
              /\ CASE ~u ->
                        UNCHANGED <<sstate, ffl, upd, pc>>
                   [] txt # Empty /\ ~OwnReadable(l) ->
                        /\ sstate' = [sstate EXCEPT ![l] = "stale"]
                        /\ upd' = [upd EXCEPT ![l] = TRUE]
                        /\ UNCHANGED <<ffl, pc>>
                   [] OwnReadable(l) /\ lts[l] < txt.ts ->
                        /\ upd' = [upd EXCEPT ![l] = TRUE]
                        /\ UNCHANGED <<sstate, ffl, pc>>
                   [] txt = Own(l) ->
                        /\ upd' = [upd EXCEPT ![l] = FALSE]
                        /\ ffl' = [ffl EXCEPT ![l] = None]
                        /\ UNCHANGED <<sstate, pc>>
                   [] OTHER ->
                        /\ upd' = [upd EXCEPT ![l] = TRUE]
                        /\ pc' = [pc EXCEPT ![l] = [op |-> "write", rec |-> Own(l),
                                                         locked |-> locked]]
                        /\ UNCHANGED <<sstate, ffl>>
              /\ UNCHANGED <<phase, lts, txt>>
    /\ UNCHANGED <<rf, counters>>

\* checkAndUpdateLock, after the read: CreateOrUpdateRecordSet with the
\* record set built from the object, then updateRequired is cleared and
\* firstFailedDNSLookup reset in the status
WriteLock(l) ==
    /\ pc[l] # Idle /\ pc[l].op = "write"
    /\ txt' = pc[l].rec
    /\ upd' = [upd EXCEPT ![l] = FALSE]
    /\ ffl' = [ffl EXCEPT ![l] = None]
    /\ pc' = [pc EXCEPT ![l] = Idle]
    /\ UNCHANGED <<phase, lts, fin, sstate, seen, rf, queue, counters>>

\* Mutation of DeleteLock: the finalizer is removed only with the record
DeleteLockOnlyOwn(l) ==
    /\ pc[l] # Idle /\ pc[l].op \in {"delete", "release"}
    /\ txt' = IF pc[l].op = "delete" THEN Empty ELSE txt
    /\ fin' = [fin EXCEPT ![l] = IF pc[l].op = "delete" THEN FALSE ELSE fin[l]]
    /\ pc' = [pc EXCEPT ![l] = Idle]
    /\ UNCHANGED <<phase, lts, sstate, ffl, seen, upd, rf, queue, counters>>

\* checkAndDeleteLock, after the read: DeleteRecordSet of the record set
\* it read when that was ours, then RemoveFinalizer
DeleteLock(l) ==
    /\ pc[l] # Idle /\ pc[l].op \in {"delete", "release"}
    /\ txt' = IF pc[l].op = "delete" THEN Empty ELSE txt
    /\ fin' = [fin EXCEPT ![l] = FALSE]
    /\ pc' = [pc EXCEPT ![l] = Idle]
    /\ UNCHANGED <<phase, lts, sstate, ffl, seen, upd, rf, queue, counters>>

\* UpdateLockStates for one indexed lock entry, outside the entry lock:
\* LookupTXT through the resolver, and the decision taken from the status
\* as read then.  A failed lookup keeps (or starts) firstFailedDNSLookup
\* and requests a rewrite when the failure has lasted more than 2*TTL, or
\* started while the lock was not ready.  Any record set found, whatever
\* its lock id or timestamp, counts as success.
LookupLock(l) ==
    /\ seen[l] # NoEntry /\ rf = Idle /\ phase[l] # "gone"
    /\ \E ok \in IF txt = Empty THEN {FALSE}
                 ELSE IF lookupFails < MaxLookupFailures THEN BOOLEAN ELSE {TRUE} :
       /\ rf' = IF ok
                THEN [lock |-> l, ok |-> TRUE, own |-> OwnReadable(l),
                      first |-> None, req |-> FALSE]
                ELSE LET cont == ffl[l] # None /\ ffl[l].cur IN
                     [lock  |-> l, ok |-> FALSE, own |-> FALSE,
                      first |-> IF cont THEN ffl[l] ELSE [age |-> 0, cur |-> TRUE],
                      req   |-> IF cont THEN LookupExpired(ffl[l])
                                ELSE sstate[l] # "ready"]
       /\ lookupFails' = IF ~ok /\ txt # Empty THEN lookupFails + 1 ELSE lookupFails
    /\ UNCHANGED <<cluster, seen, upd, pc, queue, txt, renews, losses, restarts>>

\* Mutation of RefreshStatus: updateRequired is set but the object is not
\* enqueued
RefreshStatusNoRequeue ==
    /\ rf # Idle /\ ~EntryLocked(rf.lock)
    /\ LET l == rf.lock IN
       /\ queue' = queue
       /\ IF phase[l] = "gone"
          THEN UNCHANGED <<sstate, ffl, upd>>
          ELSE /\ sstate' = [sstate EXCEPT ![l] = IF rf.ok THEN "ready" ELSE "stale"]
               /\ ffl' = [ffl EXCEPT ![l] = rf.first]
               /\ upd' = [upd EXCEPT ![l] = @ \/ rf.req]
    /\ rf' = Idle
    /\ UNCHANGED <<phase, lts, fin, seen, pc, txt, counters>>

\* UpdateLockStates, under the entry lock: ModifyStatus writes the state
\* and firstFailedDNSLookup decided at the lookup; then updateRequired is
\* set and the object enqueued if a rewrite was requested.  The status of
\* an object deleted meanwhile is not written.
RefreshStatus ==
    /\ rf # Idle /\ ~EntryLocked(rf.lock)
    /\ LET l == rf.lock IN
       /\ queue' = IF rf.req THEN queue \cup {l} ELSE queue
       /\ IF phase[l] = "gone"
          THEN UNCHANGED <<sstate, ffl, upd>>
          ELSE /\ sstate' = [sstate EXCEPT ![l] = IF rf.ok THEN "ready" ELSE "stale"]
               /\ ffl' = [ffl EXCEPT ![l] = rf.first]
               /\ upd' = [upd EXCEPT ![l] = @ \/ rf.req]
    /\ rf' = Idle
    /\ UNCHANGED <<phase, lts, fin, seen, pc, txt, counters>>

\* A first failure whose age still grows
Aging(f) == f # None /\ f.age < AgeCap

Older(f) == IF Aging(f) THEN [f EXCEPT !.age = @ + 1] ELSE f

\* Time passes: every recorded first failure grows older, also the one the
\* refresh is about to write
Tick ==
    /\ \/ \E l \in Locks : Aging(ffl[l])
       \/ rf # Idle /\ Aging(rf.first)
    /\ ffl' = [l \in Locks |-> Older(ffl[l])]
    /\ rf' = IF rf = Idle THEN Idle ELSE [rf EXCEPT !.first = Older(@)]
    /\ UNCHANGED <<phase, lts, fin, sstate, seen, upd, pc, queue, txt, counters>>

\* A controller restart: the entries and their updateRequired flags are
\* lost, a worker or refresh in the middle of a step is gone, every
\* existing object is listed again, and firstFailedDNSLookup now predates
\* startupTime
Restart ==
    /\ restarts < MaxRestarts
    /\ restarts' = restarts + 1
    /\ seen' = [l \in Locks |-> NoEntry]
    /\ upd' = [l \in Locks |-> FALSE]
    /\ pc' = [l \in Locks |-> Idle]
    /\ rf' = Idle
    /\ queue' = {l \in Locks : phase[l] \in {"live", "deleting"}}
    /\ ffl' = [l \in Locks |-> IF ffl[l] = None THEN None
                               ELSE [ffl[l] EXCEPT !.cur = FALSE]]
    /\ UNCHANGED <<phase, lts, fin, sstate, txt, renews, losses, lookupFails>>

-----------------------------------------------------------------------------
Next ==
    \/ \E l \in Locks :
          \/ Create(l) \/ Renew(l) \/ Delete(l) \/ Remove(l)
          \/ HandleLock(l) \/ WriteLock(l) \/ DeleteLock(l)
          \/ LookupLock(l)
    \/ RefreshStatus \/ EditRecord \/ Tick \/ Restart

\* Workers finish what they dequeue, the refresh loop runs periodically
\* and finishes each entry, time advances, and the API server removes
\* objects without finalizers.
Fairness ==
    /\ \A l \in Locks : /\ WF_vars(HandleLock(l)) /\ WF_vars(WriteLock(l))
                        /\ WF_vars(DeleteLock(l)) /\ WF_vars(LookupLock(l))
                        /\ WF_vars(Remove(l))
    /\ WF_vars(RefreshStatus) /\ WF_vars(Tick)

Spec == Init /\ [][Next]_vars /\ Fairness

-----------------------------------------------------------------------------
TypeOK ==
    /\ phase \in [Locks -> {"absent", "live", "deleting", "gone"}]
    /\ lts \in [Locks -> 1..MaxTs]
    /\ fin \in [Locks -> BOOLEAN]
    /\ sstate \in [Locks -> {"", "ready", "stale"}]
    /\ ffl \in [Locks -> {None} \cup [age: 0..AgeCap, cur: BOOLEAN]]
    /\ seen \in [Locks -> {NoEntry} \cup 1..MaxTs]
    /\ upd \in [Locks -> BOOLEAN]
    /\ pc \in [Locks -> {Idle} \cup [op: {"write", "delete", "release"},
                                     rec: OwnRecord, locked: BOOLEAN]]
    /\ rf \in {Idle} \cup [lock: Locks, ok: BOOLEAN, req: BOOLEAN, own: BOOLEAN,
                          first: {None} \cup [age: 0..AgeCap, cur: BOOLEAN]]
    /\ queue \subseteq Locks
    /\ txt \in {Empty} \cup Record

\* Resurrection (spec scenario S6): if the TXT record of a live lock is
\* gone, UpdateLockStates' failed lookups eventually set updateRequired
\* and checkAndUpdateLock writes a record again: after a loss outside the
\* controller, and after checkAndDeleteLock of another object with the
\* same lock id deleted the record this one had found to be its own.
RecordRestored ==
    \A l \in Locks : (phase[l] = "live" /\ txt = Empty) ~> (txt # Empty \/ phase[l] # "live")

\* Lock monotonicity (spec 8.4) and the deletion rule (spec 4.5): a
\* controller step never replaces the TXT record with one of an earlier
\* timestamp, and removes it only as the checkAndDeleteLock of an object
\* whose lock id it carries and whose timestamp is not before the
\* record's (edits outside the controller aside; timestamps as parsed).
LockMonotonic ==
    [][txt # Empty /\ txt' # txt /\ losses' = losses =>
         IF txt' = Empty
         THEN \E l \in Locks : /\ pc[l] # Idle /\ pc[l].op = "delete"
                              /\ txt.id = LockIdOf[l] /\ ParsedTs(txt) <= lts[l]
         ELSE ParsedTs(txt') >= ParsedTs(txt)]_vars

\* A lock is ready only when it holds the name (spec 5: a contested lock
\* is stale; checkAndUpdateLock marks an invalid timestamp stale): when
\* UpdateLockStates writes the status of a live lock object as ready, the
\* record set it looked up carried the object's own lock id and a
\* timestamp that parses.
ReadyMeansOwnRecord ==
    [][rf # Idle /\ rf.ok /\ rf' = Idle /\ phase[rf.lock] = "live"
       /\ restarts' = restarts => rf.own]_vars

=============================================================================
