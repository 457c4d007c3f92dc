------------------------------ MODULE LogStore ------------------------------
(***************************************************************************)
(* The local log store of one tenant and one source, am-authentication     *)
(* (src/logs/ops.rs, src/logs/journey.rs, src/logs/db.rs): the tenant's    *)
(* events, which appear in its log API some time after they happened and   *)
(* leave it after the retention; `aic logs sync`, which fetches from its   *)
(* cursor on; `aic logs compact`, which rolls events up into journey       *)
(* attempts and prunes them.  DuckDB lets one process at a time open the   *)
(* store, so one command runs at a time; it may stop anywhere.             *)
(***************************************************************************)
EXTENDS FiniteSets, Integers

CONSTANTS Event, Track,   \* the events, and the executions they belong to
          TrackOf,        \* an event's trackingIds[0]
          SYNC_OVERLAP, RETENTION,
          Day,            \* the longest window the log API takes
          RetainMonths,   \* the values of --retain-months that are used
          Bits,           \* the width of chrono's Months: 32 in the code
          Epoch,          \* how far back chrono's dates reach
          MaxLag,         \* the longest an event takes to appear
          Span,           \* the longest an execution lasts
          SyncFirst,      \* whether compact is only run right after sync
          UseSince,       \* whether sync is run with a --since before its cursor too
          MaxTime, MaxFaults

LogStoreAssumption ==
    /\ TrackOf \in [Event -> Track]
    /\ {SYNC_OVERLAP, RETENTION, Bits, MaxLag, Span, MaxTime, MaxFaults} \subseteq Nat
    /\ Day \in Nat \ {0}
    /\ RetainMonths \subseteq Int /\ Epoch \in Int
    /\ {SyncFirst, UseSince} \subseteq BOOLEAN

VARIABLES now,
          ts,         \* when each event happened, or Never
          visible,    \* the events the log API has shown
          expired,    \* the events that left the API before they were stored
          store,      \* the table log_events
          cursor,     \* sync_state.last_end_time, or Never
          rolled,     \* the table journey_attempt: the events in each row
          compacted,  \* compact_state.last_compacted, or Never
          pruned,     \* the events that compact has deleted
          job,        \* the running command
          faults,
          late,       \* history: the events that were stored after a compact
                      \* had passed their time
          cut         \* history: the executions that a rollup had in part only

vars == <<now, ts, visible, expired, store, cursor, rolled, compacted, pruned,
          job, faults, late, cut>>

Never == -100
Time == Never..MaxTime
Idle == [op |-> "idle", at |-> 0, end |-> 0]

Init ==
    /\ now = 0
    /\ ts = [e \in Event |-> Never]
    /\ visible = {} /\ expired = {} /\ store = {} /\ pruned = {}
    /\ cursor = Never /\ compacted = Never
    /\ rolled = [t \in Track |-> {}]
    /\ job = Idle
    /\ faults = 0
    /\ late = {} /\ cut = {}

Happened == {e \in Event : ts[e] # Never}
Kept == store \cup pruned

-----------------------------------------------------------------------------
\* The tenant.

\* An event of an execution that is not over.
Happen(e) ==
    /\ e \notin Happened
    /\ \A d \in Happened : TrackOf[d] = TrackOf[e] => now - ts[d] <= Span
    /\ ts' = [ts EXCEPT ![e] = now]
    /\ UNCHANGED <<now, visible, expired, store, cursor, rolled, compacted,
                   pruned, job, faults>>

Appear(e) ==
    /\ e \in Happened \ visible
    /\ visible' = visible \cup {e}
    /\ UNCHANGED <<now, ts, expired, store, cursor, rolled, compacted, pruned,
                   job, faults>>

\* Time passes: an event appears within MaxLag, and leaves after RETENTION.
Tick ==
    /\ now < MaxTime
    /\ \A e \in Happened \ visible : now - ts[e] < MaxLag
    /\ now' = now + 1
    /\ expired' = expired \cup
         {e \in Happened \ Kept : ts[e] <= now' - RETENTION}
    /\ UNCHANGED <<ts, visible, store, cursor, rolled, compacted, pruned, job,
                   faults>>

-----------------------------------------------------------------------------
\* aic logs sync

\* Mutant of SyncStart: no overlap.
SyncStartNoOverlap == IF cursor = Never THEN now - RETENTION ELSE cursor

\* Where the next window begins.
SyncStart ==
    IF cursor = Never THEN now - RETENTION ELSE cursor - SYNC_OVERLAP

\* The values --since may have.
Since == {s \in 0..now - 1 : UseSince /\ s <= SyncStart}

\* sync_tenant, with or without --since.
BeginSync ==
    /\ job = Idle
    /\ \E start \in {SyncStart} \cup Since :
          job' = [op |-> "fetch", at |-> start, end |-> now]
    /\ UNCHANGED <<now, ts, visible, expired, store, cursor, rolled, compacted,
                   pruned, faults>>

\* The next of the day-sized windows: the API returns the events after its
\* begin and up to its end.
WindowEnd == IF job.at + Day < job.end THEN job.at + Day ELSE job.end

\* fetch_range_streamed and insert_events: those stored already are left alone.
FetchWindow ==
    /\ job.op = "fetch" /\ job.at < job.end
    /\ store' = store \cup
         {e \in visible : /\ ts[e] > job.at /\ ts[e] <= WindowEnd
                          /\ ts[e] > now - RETENTION}
    /\ job' = [job EXCEPT !.at = WindowEnd]
    /\ UNCHANGED <<now, ts, visible, expired, cursor, rolled, compacted, pruned,
                   faults>>

\* Mutant of CursorAfter: the end of the command, not of its window.
CursorAfterNow == now

\* set_sync_state: the end of the window that was asked for.
CursorAfter == job.end

EndSync ==
    /\ job.op = "fetch" /\ job.at = job.end
    /\ cursor' = CursorAfter
    /\ job' = Idle
    /\ UNCHANGED <<now, ts, visible, expired, store, rolled, compacted, pruned,
                   faults>>

-----------------------------------------------------------------------------
\* aic logs compact

\* Mutant of RollupStart: no overlap.
RollupStartNoOverlap == IF compacted = Never THEN Never ELSE compacted + 1

\* Where the rollup's window begins.
RollupStart == IF compacted = Never THEN Never ELSE compacted - SYNC_OVERLAP

\* load_auth_payloads and group_attempts: the executions in the window.
Group(t) == {e \in store : TrackOf[e] = t /\ ts[e] >= RollupStart}

\* Mutant of Rollup: the table is rebuilt from the window.
RollupRebuild ==
    /\ job = Idle
    /\ cursor # Never
    /\ SyncFirst => cursor = now
    /\ rolled' = [t \in Track |-> Group(t)]
    /\ job' = [op |-> "mark", at |-> now, end |-> now]
    /\ UNCHANGED <<now, ts, visible, expired, store, cursor, compacted, pruned,
                   faults>>

\* The rollup's transaction: the row of an execution in the window is
\* replaced by what the window holds of it.
Rollup ==
    /\ job = Idle
    /\ cursor # Never
    /\ SyncFirst => cursor = now
    /\ rolled' = [t \in Track |-> IF Group(t) = {} THEN rolled[t] ELSE Group(t)]
    /\ job' = [op |-> "mark", at |-> now, end |-> now]
    /\ UNCHANGED <<now, ts, visible, expired, store, cursor, compacted, pruned,
                   faults>>

\* set_compact_state
MarkCompacted ==
    /\ job.op = "mark"
    /\ compacted' = job.end
    /\ job' = [job EXCEPT !.op = "prune"]
    /\ UNCHANGED <<now, ts, visible, expired, store, cursor, rolled, pruned,
                   faults>>

\* The cutoff: `retain_months as u32`, and now when the date is out of range.
Cutoff(months) ==
    LET wrapped == months % 2^Bits
    IN  IF job.end - wrapped < Epoch THEN job.end ELSE job.end - wrapped

\* prune_events_before
Prune ==
    /\ job.op = "prune"
    /\ \E months \in RetainMonths :
          LET old == {e \in store : ts[e] < Cutoff(months)}
          IN  /\ store' = store \ old
              /\ pruned' = pruned \cup old
    /\ job' = Idle
    /\ UNCHANGED <<now, ts, visible, expired, cursor, rolled, compacted, faults>>

\* The command stops: a failed request, a full disk, a kill.  What it has
\* written stays.
Stop ==
    /\ job # Idle
    /\ faults < MaxFaults
    /\ faults' = faults + 1
    /\ job' = Idle
    /\ UNCHANGED <<now, ts, visible, expired, store, cursor, rolled, compacted,
                   pruned>>

\* An event is late when compact's window will not reach back to it.
NotesLate == late' = late \cup {e \in store' \ Kept : ts[e] < RollupStart}

\* A rollup cuts an execution with an event in its window and another one that
\* is older than the window, or pruned.
NotesCut ==
    LET inside(t) == {e \in Happened : TrackOf[e] = t /\ ts[e] >= RollupStart}
        outside(t) == {e \in Happened : TrackOf[e] = t /\ (ts[e] < RollupStart \/ e \in pruned)}
    IN  cut' = IF job.op # "mark" /\ job'.op = "mark"
               THEN cut \cup {t \in Track : inside(t) # {} /\ outside(t) # {}}
               ELSE cut

Step ==
    \/ \E e \in Event : Happen(e) \/ Appear(e)
    \/ Tick
    \/ BeginSync \/ FetchWindow \/ EndSync
    \/ Rollup \/ MarkCompacted \/ Prune
    \/ Stop

Notes == NotesLate /\ NotesCut

Next == Step /\ Notes

Spec == Init /\ [][Next]_vars

RunsOn == (FetchWindow \/ EndSync \/ MarkCompacted \/ Prune) /\ Notes
RunsAgain == BeginSync /\ Notes

\* A command runs on, and sync is run again and again.
FairSpec ==
    /\ Spec
    /\ WF_vars(RunsOn)
    /\ SF_vars(RunsAgain)

-----------------------------------------------------------------------------
(* Properties. *)

\* Types of the variables.
TypeOK ==
    /\ now \in 0..MaxTime
    /\ ts \in [Event -> Time]
    /\ visible \subseteq Happened /\ expired \subseteq Happened
    /\ store \subseteq visible /\ pruned \subseteq visible
    /\ cursor \in Time /\ compacted \in Time
    /\ rolled \in [Track -> SUBSET Event]
    /\ job.op \in {"idle", "fetch", "mark", "prune"}
    /\ job.at <= job.end /\ job.end \in 0..MaxTime
    /\ faults \in 0..MaxFaults
    /\ late \subseteq Event /\ cut \subseteq Track

\* What sync's cursor says: every event older than the cursor by the overlap
\* has been stored, unless the tenant had dropped it before.  Syncs that
\* stopped part way, windows fetched while events were still appearing, and
\* prunes in between do not leave a hole that no later sync looks at.
CursorTrue ==
    cursor # Never =>
        \A e \in Happened : ts[e] <= cursor - SYNC_OVERLAP => e \in Kept \cup expired

\* A step takes no event out of an attempt whose execution no rollup cut.
KeepsAttempts == \A t \in Track \ cut' : rolled[t] \subseteq rolled'[t]

\* A compact never takes an event out of a journey attempt that has it, as long
\* as every rollup so far had all of the execution in its window, or nothing.
\* The row of an execution that lies across the start of a window is replaced by
\* the part inside, although upsert_attempt calls itself "idempotent across
\* overlapping compact windows" (db.rs:298).
AttemptsGrow == [][KeepsAttempts]_vars

\* An event is pruned only when its attempt has it: what compact deletes it has
\* rolled up.  Not so one that a sync stored after a compact had passed it by,
\* and one that a rollup took out of its attempt again.
PrunedIsRolledUp ==
    \A e \in pruned \ late : TrackOf[e] \in cut \/ e \in rolled[TrackOf[e]]

\* A compact that is run right after a sync passes no event by.
SyncedIsNotLate == SyncFirst => late = {}

Shown(e) == e \in visible
Settled(e) == e \in Kept \cup expired

\* An event the tenant shows for long enough gets into the store.
EventsArrive == \A e \in Event : Shown(e) ~> Settled(e)
=============================================================================
