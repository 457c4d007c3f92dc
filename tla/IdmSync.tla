------------------------------ MODULE IdmSync ------------------------------
(* `aic idm sync` of one managed object into the local query store            *)
(* (idmstore/ops.rs): a full walk of the records, or, where the object has a  *)
(* sidecar with change dates, the records that changed since a watermark plus *)
(* a diff of the ids.  Pages and records are read one by one while others     *)
(* write the tenant; the rows, the removals and the watermark are three       *)
(* transactions, and a sync may stop between any two steps.                   *)
EXTENDS Naturals, FiniteSetsExt

CONSTANTS
    Ids,         \* record ids; the tenant never gives one out twice
    Procs,       \* processes that run the sync
    Quiet,       \* nobody writes the tenant while a sync runs
    MaxChanges,  \* creates, updates and deletes on the tenant
    MaxStops     \* syncs that fail or are killed

IdmAssumption ==
    /\ Quiet \in BOOLEAN /\ MaxChanges \in Nat /\ MaxStops \in Nat

VARIABLES
    sidecar,   \* the object has a sidecar with lastChanged dates
    rec,       \* the tenant's records
    created,   \* ids handed out so far
    now,       \* the tenant's clock
    store,     \* rows of the local base table
    mark,      \* sync_state.watermark, 0 for none
    sync,      \* the sync of each process
    changes, stops    \* counters

vars == <<sidecar, rec, created, now, store, mark, sync, changes, stops>>
tenant == <<rec, created, now, changes>>

\* A record is told by its last change: which one it was and the date it has.
Gone == [ver |-> 0, date |-> 0]
Records == [ver : 0..MaxChanges, date : 0..(MaxChanges + 1)]
Present(f) == {i \in Ids : f[i] # Gone}
Nothing == [i \in Ids |-> Gone]
Dates(f) == {f[i].date : i \in Present(f)}

\* A sync keeps what it started from, the newest date it met, the records still
\* to be fetched, the ids that the tenant listed, what was fetched and which rows
\* it removes; had is a history, the rows there were when it began.
Idle == [pc |-> "idle", since |-> 0, high |-> 0, todo |-> {}, ids |-> {}, got |-> Nothing,
         deletes |-> {}, had |-> {}]

Init ==
    /\ sidecar \in BOOLEAN
    /\ rec = Nothing /\ created = {} /\ now = 1
    /\ store = Nothing /\ mark = 0
    /\ sync = [p \in Procs |-> Idle]
    /\ changes = 0 /\ stops = 0

Step(p, s) == sync' = [sync EXCEPT ![p] = s]

-----------------------------------------------------------------------------
(* The sync *)

\* sync_object: incremental when there is a watermark to start from.
Begin(p) ==
    /\ sync[p].pc = "idle"
    /\ LET s == [Idle EXCEPT !.had = Present(store)] IN
       Step(p, IF sidecar /\ mark > 0 THEN [s EXCEPT !.pc = "changes", !.since = mark, !.high = mark]
                                      ELSE [s EXCEPT !.pc = "read", !.todo = Ids])
    /\ UNCHANGED <<sidecar, tenant, store, mark, stops>>

\* Mutant of Listed: gt where the query says ge.
ListedAfter(since) == {i \in Present(rec) : rec[i].date > since}

\* The sidecar query `lastChanged/date ge "<watermark>"`.
Listed(since) == {i \in Present(rec) : rec[i].date >= since}

\* list_changed_meta
ListChanged(p) ==
    /\ sync[p].pc = "changes"
    /\ Step(p, [sync[p] EXCEPT !.pc = "lookup", !.todo = Listed(sync[p].since),
                               !.high = Max({@} \union {rec[i].date : i \in Listed(sync[p].since)})])
    /\ UNCHANGED <<sidecar, tenant, store, mark, stops>>

\* record_ids_for_meta_ids: a sidecar names no record, its row does.
Lookup(p) ==
    /\ sync[p].pc = "lookup"
    /\ Step(p, [sync[p] EXCEPT !.pc = "ids", !.todo = @ \intersect Present(store)])
    /\ UNCHANGED <<sidecar, tenant, store, mark, stops>>

\* list_record_ids
ListIds(p) ==
    /\ sync[p].pc = "ids"
    /\ Step(p, [sync[p] EXCEPT !.pc = "local", !.ids = Present(rec)])
    /\ UNCHANGED <<sidecar, tenant, store, mark, stops>>

\* Mutant of LocalIds: the diff is taken for its creates only.
LocalIdsCreates(p) ==
    /\ sync[p].pc = "local"
    /\ LET creates == sync[p].ids \ Present(store) IN
       Step(p, IF sync[p].since = 0 THEN [sync[p] EXCEPT !.pc = "upsert"]
               ELSE [sync[p] EXCEPT !.pc = "read", !.todo = (@ \intersect sync[p].ids) \union creates])
    /\ UNCHANGED <<sidecar, tenant, store, mark, stops>>

\* A page of fetch_all_records, or a get_record of fetch_records_by_id, which
\* run eight at a time: a record that is gone by then is left out.
Read(p, i) ==
    /\ sync[p].pc = "read" /\ i \in sync[p].todo
    /\ Step(p, [sync[p] EXCEPT !.todo = @ \ {i}, !.got[i] = rec[i]])
    /\ UNCHANGED <<sidecar, tenant, store, mark, stops>>

\* The fetch is over.
Fetched(p) ==
    /\ sync[p].pc = "read" /\ sync[p].todo = {}
    /\ Step(p, IF sync[p].since = 0 THEN [sync[p] EXCEPT !.pc = "local", !.ids = Present(sync[p].got)]
               ELSE [sync[p] EXCEPT !.pc = "upsert"])
    /\ UNCHANGED <<sidecar, tenant, store, mark, stops>>

\* Mutant of Deletes: what did not change goes.
DeletesUnfetched(s) == Present(store) \ (IF s.since = 0 THEN s.ids ELSE s.ids \intersect s.todo)

\* Mutant of Deletes: a full sync removes nothing.
DeletesIncremental(s) == IF s.since = 0 THEN {} ELSE Present(store) \ s.ids

\* The rows to remove.
Deletes(s) == Present(store) \ s.ids

\* local_ids and diff_ids, after the tenant's ids are known: what an incremental
\* sync has to fetch besides, and which rows go.
LocalIds(p) ==
    /\ sync[p].pc = "local"
    /\ LET creates == sync[p].ids \ Present(store)
           s == [sync[p] EXCEPT !.deletes = Deletes(sync[p])] IN
       Step(p, IF s.since = 0 THEN [s EXCEPT !.pc = "upsert"]
               ELSE [s EXCEPT !.pc = "read", !.todo = (@ \intersect s.ids) \union creates])
    /\ UNCHANGED <<sidecar, tenant, store, mark, stops>>

\* upsert_many
Upsert(p) ==
    /\ sync[p].pc = "upsert"
    /\ store' = [i \in Ids |-> IF sync[p].got[i] # Gone THEN sync[p].got[i] ELSE store[i]]
    /\ Step(p, [sync[p] EXCEPT !.pc = "delete"])
    /\ UNCHANGED <<sidecar, tenant, mark, stops>>

\* delete_records_by_id
Delete(p) ==
    /\ sync[p].pc = "delete"
    /\ store' = [i \in Ids |-> IF i \in sync[p].deletes THEN Gone ELSE store[i]]
    /\ Step(p, [sync[p] EXCEPT !.pc = "state"])
    /\ UNCHANGED <<sidecar, tenant, mark, stops>>

\* max_record_watermark and advance_watermark.
NextMark(s) == IF sidecar THEN Max({s.high} \union Dates(s.got)) ELSE 0

\* write_sync_state
WriteState(p) ==
    /\ sync[p].pc = "state"
    /\ mark' = NextMark(sync[p])
    /\ Step(p, Idle)
    /\ UNCHANGED <<sidecar, tenant, store, stops>>

\* A request or a transaction fails, another object's failure cancels this
\* one, or the process is killed.
Stop(p) ==
    /\ sync[p].pc # "idle" /\ stops < MaxStops
    /\ stops' = stops + 1 /\ Step(p, Idle)
    /\ UNCHANGED <<sidecar, tenant, store, mark>>

-----------------------------------------------------------------------------
(* The tenant: two changes may carry the same date. *)

Write(i, r) ==
    /\ changes < MaxChanges /\ (Quiet => \A p \in Procs : sync[p].pc = "idle")
    /\ changes' = changes + 1
    /\ rec' = [rec EXCEPT ![i] = r]
    /\ UNCHANGED <<sidecar, store, mark, sync, stops>>

Create(i, t) ==
    /\ i \notin created /\ created' = created \union {i}
    /\ now' = t /\ Write(i, [ver |-> changes + 1, date |-> t])

Modify(i, t) ==
    /\ rec[i] # Gone
    /\ now' = t /\ Write(i, [ver |-> changes + 1, date |-> t]) /\ UNCHANGED created

Remove(i) ==
    /\ rec[i] # Gone
    /\ Write(i, Gone) /\ UNCHANGED <<created, now>>

-----------------------------------------------------------------------------

SyncStep(p) ==
    \/ ListChanged(p) \/ Lookup(p) \/ ListIds(p) \/ (\E i \in Ids : Read(p, i))
    \/ Fetched(p) \/ LocalIds(p) \/ Upsert(p) \/ Delete(p) \/ WriteState(p)

Next ==
    \/ \E p \in Procs : Begin(p) \/ SyncStep(p) \/ Stop(p)
    \/ \E i \in Ids : Remove(i) \/ \E t \in {now, now + 1} : Create(i, t) \/ Modify(i, t)

Spec == Init /\ [][Next]_vars

\* A sync that runs goes on, and the operator runs it again and again.
FairSpec == Spec /\ \A p \in Procs : WF_vars(Begin(p) \/ SyncStep(p))

-----------------------------------------------------------------------------
(* Properties *)

\* Types of the tenant, the store and the syncs; a row of the store is a copy
\* of a record that the tenant has or had.
TypeOK ==
    /\ sidecar \in BOOLEAN
    /\ rec \in [Ids -> Records] /\ store \in [Ids -> Records]
    /\ created \subseteq Ids /\ Present(rec) \union Present(store) \subseteq created
    /\ now \in 1..(MaxChanges + 1) /\ mark \in 0..now
    /\ sync \in [Procs -> [pc : {"idle", "changes", "lookup", "ids", "local", "read", "upsert",
                                 "delete", "state"},
                           since : 0..now, high : 0..now, todo : SUBSET Ids, ids : SUBSET Ids,
                           got : [Ids -> Records], deletes : SUBSET Ids, had : SUBSET Ids]]
    /\ changes \in 0..MaxChanges /\ stops \in 0..MaxStops

\* A sync drops none of the rows it found when it began unless its record is gone.
DropsOnlyGone ==
    \A p \in Procs : Delete(p) =>
        \A i \in sync[p].had : store[i] # Gone /\ store'[i] = Gone => rec[i] = Gone

\* A row that was there when a sync began leaves the store by it only when its
\* record has left the tenant: the id diff is taken against a listing of all the
\* ids, not against what the sync fetched (incremental_sync, full_sync).  A row
\* that another sync adds meanwhile is not safe, as the local ids are read after
\* the tenant's; and a sync may put back a row that another removed, for it
\* fetched the record before.  The next sync sets both right (IdsConverge).
RowsLeaveWithRecord == [][DropsOnlyGone]_vars

\* A row that is behind its record is found by the next sync's sidecar query:
\* the watermark never passes a change the store has not got, whichever of the
\* three transactions a sync stopped after (write_sync_state comes last).
StaleIsListed ==
    sidecar => \A i \in Present(store) \intersect Present(rec) :
                   store[i] # rec[i] => rec[i].date >= mark

IsCopy == store = rec

\* Once the tenant is left alone, syncs that are run again and again make the
\* store a copy of it ("Re-running `sync` after a period brings the store up
\* to date").
CatchesUp == <>[]IsCopy

FullIsCopy == ~sidecar => IsCopy

\* The same for an object without a sidecar, which every sync pulls in full.
FullCatchesUp == <>[]FullIsCopy

SameIds == Present(store) = Present(rec)

\* In every case the store ends with the tenant's ids: creates and deletes are
\* found by the id diff, however the syncs of two processes interleave.
IdsConverge == <>[]SameIds
=============================================================================
