---------------------------- MODULE ObjectModify ----------------------------
(***************************************************************************)
(* _i_object.I_modify (resources package), through which the state        *)
(* engine writes finalizers (SetFinalizer) and status (ModifyStatus) of   *)
(* one object, with several concurrent writers each setting one field.    *)
(* A writer applies its modifier to its copy and updates with the copy's  *)
(* resourceVersion; on a conflict it fetches the object and tries again,  *)
(* at most MaxTries times.  I_updateStatus replaces only the status       *)
(* fields, I_update only the others.  With create, the writer first gets  *)
(* the object and creates it from its own copy if it does not exist.      *)
(***************************************************************************)
EXTENDS Integers

CONSTANTS
    Writers,    \* concurrent I_modify calls on the object
    Fields,     \* fields of the object the modifiers set
    StatusFields, \* the fields under status (written by I_updateStatus)
    Field,      \* [Writers -> Fields]: the field a writer's modifier sets
    Value,      \* [Writers -> Values]: the value it sets it to
    Values,
    Init0,      \* [Fields -> Values]: the object when the writers start
    MaxTries,   \* cnt: the attempts I_modify makes before giving up
    MaxSyncs,   \* bound on informer cache refreshes
    Creates,    \* the writers that call I_modify with create = true
    None, Absent

ASSUME Field \in [Writers -> Fields] /\ Value \in [Writers -> Values]
ASSUME MaxTries \in Nat \ {0} /\ Creates \subseteq Writers

VARIABLES
    obj,        \* server: Absent, or [rv, f] with the resourceVersion and fields
    cache,      \* informer cache: a past version of obj
    pc,         \* writer: "idle" | "get" | "create" | "loop" | "done"
    data,       \* writer: its working copy of the object
    cnt,        \* writer: attempts left
    res,        \* writer: None | "modified" | "unchanged" | "conflict"
    startRv,    \* writer: the server's resourceVersion when it started
    expect,     \* history: per field, the value of its last successful write
    syncs

vars == <<obj, cache, pc, data, cnt, res, startRv, expect, syncs>>

\* A creator's own object before it exists on the server
Template == [rv |-> 0, f |-> Init0]

\* I_update writes the non-status fields, I_updateStatus the status fields
StatusOnly(w) == Field[w] \in StatusFields
Written(w) == IF StatusOnly(w) THEN StatusFields ELSE Fields \ StatusFields

Init ==
    /\ obj \in {[rv |-> 1, f |-> Init0], Absent}
    /\ cache = obj
    /\ pc = [w \in Writers |-> "idle"]
    /\ data = [w \in Writers |-> Template]
    /\ cnt = [w \in Writers |-> MaxTries]
    /\ res = [w \in Writers |-> None]
    /\ startRv = [w \in Writers |-> 0]
    /\ expect = Init0
    /\ syncs = 0

\* The informer delivers the current object to the cache
SyncCache ==
    /\ cache # obj /\ syncs < MaxSyncs
    /\ cache' = obj
    /\ syncs' = syncs + 1
    /\ UNCHANGED <<obj, pc, data, cnt, res, startRv, expect>>

\* this.Data().DeepCopyObject(): a creator starts from its own object, the
\* others from the cached object (they were handed it by the informer)
Start(w) ==
    /\ pc[w] = "idle"
    /\ w \notin Creates => cache # Absent
    /\ pc' = [pc EXCEPT ![w] = IF w \in Creates THEN "get" ELSE "loop"]
    /\ data' = [data EXCEPT ![w] = IF w \in Creates THEN Template ELSE cache]
    /\ startRv' = [startRv EXCEPT ![w] = IF obj = Absent THEN 0 ELSE obj.rv]
    /\ UNCHANGED <<obj, cache, cnt, res, expect, syncs>>

\* The object with the writer's modifier applied
Modified(d, w) == [d.f EXCEPT ![Field[w]] = Value[w]]

\* The call returns with result r
Finish(w, r) == pc' = [pc EXCEPT ![w] = "done"] /\ res' = [res EXCEPT ![w] = r]

\* I_create or I_update succeeds with object version rv and fields f
Commit(w, rv, f) ==
    /\ obj' = [rv |-> rv, f |-> f]
    /\ expect' = [expect EXCEPT ![Field[w]] = Value[w]]
    /\ Finish(w, "modified")

\* create: I_get; an existing object replaces the copy and the update loop
\* follows, NotFound leads to the create
CreateGet(w) ==
    /\ pc[w] = "get"
    /\ IF obj = Absent
       THEN UNCHANGED data /\ pc' = [pc EXCEPT ![w] = "create"]
       ELSE data' = [data EXCEPT ![w] = obj] /\ pc' = [pc EXCEPT ![w] = "loop"]
    /\ UNCHANGED <<obj, cache, cnt, res, startRv, expect, syncs>>

\* Mutation of CreateAttempt: AlreadyExists is taken for success and the
\* object is written over
CreateBlind(w) ==
    /\ pc[w] = "create"
    /\ Commit(w, IF obj = Absent THEN 1 ELSE obj.rv + 1, Modified(data[w], w))
    /\ UNCHANGED <<cache, data, cnt, startRv, syncs>>

\* create: the modifier on the copy and I_create; AlreadyExists (another
\* writer created it since the get) fetches the object and enters the loop
CreateAttempt(w) ==
    /\ pc[w] = "create"
    /\ IF obj = Absent
       THEN Commit(w, 1, Modified(data[w], w)) /\ UNCHANGED data
       ELSE /\ data' = [data EXCEPT ![w] = obj]
            /\ pc' = [pc EXCEPT ![w] = "loop"]
            /\ UNCHANGED <<obj, expect, res>>
    /\ UNCHANGED <<cache, cnt, startRv, syncs>>

\* Mutation of Refetch: the retry keeps its copy and takes only the new
\* resourceVersion
RefetchRvOnly(w) == [data[w] EXCEPT !.rv = obj.rv]

\* Mutation of Refetch: the retry reuses its copy unchanged
RefetchNothing(w) == data[w]

\* resource.I_get(data) after a conflict
Refetch(w) == obj

\* One iteration of the loop: the modifier on the working copy; no change
\* returns at once; otherwise the update succeeds if the copy's
\* resourceVersion is current, else the object is fetched again and the
\* attempt counted, giving up with the conflict after the last one.
Attempt(w) ==
    /\ pc[w] = "loop"
    /\ LET d == data[w] IN
       IF d.f[Field[w]] = Value[w]
       THEN Finish(w, "unchanged") /\ UNCHANGED <<obj, data, cnt, expect>>
       ELSE IF d.rv = obj.rv
       THEN /\ Commit(w, obj.rv + 1,
                       [x \in Fields |-> IF x \in Written(w) THEN Modified(d, w)[x]
                                         ELSE obj.f[x]])
            /\ UNCHANGED <<data, cnt>>
       ELSE /\ data' = [data EXCEPT ![w] = Refetch(w)]
            /\ cnt' = [cnt EXCEPT ![w] = cnt[w] - 1]
            /\ IF cnt[w] - 1 = 0 THEN Finish(w, "conflict") ELSE UNCHANGED <<pc, res>>
            /\ UNCHANGED <<obj, expect>>
    /\ UNCHANGED <<cache, startRv, syncs>>

Next ==
    \/ SyncCache
    \/ \E w \in Writers : Start(w) \/ CreateGet(w) \/ CreateAttempt(w) \/ Attempt(w)

Spec == Init /\ [][Next]_vars

-----------------------------------------------------------------------------
\* No lost update: every field holds the value of the last write that
\* reported success for it; a writer's update never carries back a stale
\* value of a field another writer has set since.
NoLostUpdate == obj # Absent => obj.f = expect

\* I_modify gives up only under contention: each failed attempt after the
\* first (which may fail on a stale cache) needs another writer's update
\* in between, so a writer that returns the conflict has seen at least
\* MaxTries - 1 updates since it started.
GivesUpOnlyUnderContention ==
    \A w \in Writers : res[w] = "conflict" => obj.rv - startRv[w] >= MaxTries - 1

=============================================================================
