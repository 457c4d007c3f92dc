------------------------------ MODULE MCStores -------------------------------
(***************************************************************************)
(* What aic stores and shows of a tenant, and the issuer that its installs *)
(* share.  A behavior follows one of these instances, in Followed; the     *)
(* issuer has its own variables and rests while another is followed, the   *)
(* others use x1, x2, ...                                                  *)
(*   "undo"     a TUI session and a command, at once; one append is torn;  *)
(*   "purge"    a TUI session and an offboarding, at once, entries of the  *)
(*              offboarded tenant and of another, one failure;             *)
(*   "esv"      one variable in the TUI's tab, two keys pressed;           *)
(*   "esvfail"  the same with one key, failures and another writer;        *)
(*   "idm"      two records and one sync that may stop half way;           *)
(*   "idmtwo"   two records and two syncs;                                 *)
(*   "logs"     two executions of one event; compact right after sync; the *)
(*              overlap of five minutes is two time steps, a day, a month  *)
(*              and the tenant's retention are scaled with it;             *)
(*   "spans"    one execution of two events; compact at any time;          *)
(*   "tail"     two events, an overlap of three time steps;                *)
(*   "issuer"   one install that signs on a production tenant, every       *)
(*              failure, no console;                                       *)
(*   "shared"   two installs and the console, no failures.                 *)
(* What must happen in the end is checked in MCStoresLive.                 *)
(***************************************************************************)
EXTENDS IssuerKeys, Integers, Sequences, TLC

CONSTANTS Followed, Absent, Failed,
          tui, cli, offboard, entry1, entry2, entry3, val1, val2,
          id1, id2, proc1, proc2, event1, event2, track1, track2,
          kid1, kid2, kid3, foreign, user1

VARIABLES
    follow, \* the instance this behavior is about
    x1, x2, x3, x4, x5, x6, x7, x8, x9, x10, x11, x12, x13

slots == <<x1, x2, x3, x4, x5, x6, x7, x8, x9, x10, x11, x12, x13>>
all == <<follow, vars, slots>>

Issuer == INSTANCE IssuerKeys WITH MaxConsole <- 0

Shared == INSTANCE IssuerKeys WITH Kids <- {kid1, kid2}, MaxOps <- 3, MaxFaults <- 0

Undos == INSTANCE UndoLog WITH
    Log <- {tui, cli}, App <- {tui}, Purger <- {},
    Entry <- {entry1, entry2}, Purged <- {}, MaxFaults <- 0, MaxTears <- 1,
    disk <- x1, aged <- x2, pc <- x3, mem <- x4, fd <- x5, job <- x6,
    recorded <- x7, forgotten <- x8, faults <- x9, tears <- x10,
    behind <- x11, undone <- x12, crossed <- x13

Purges == INSTANCE UndoLog WITH
    Log <- {tui, offboard}, App <- {tui}, Purger <- {offboard},
    Entry <- {entry1, entry2}, Purged <- {entry1}, MaxFaults <- 1, MaxTears <- 0,
    disk <- x1, aged <- x2, pc <- x3, mem <- x4, fd <- x5, job <- x6,
    recorded <- x7, forgotten <- x8, faults <- x9, tears <- x10,
    behind <- x11, undone <- x12, crossed <- x13

Esvs == INSTANCE EsvTab WITH
    Vals <- {val1}, Kind <- [v \in {val1, val2} |-> v], MaxKeys <- 2,
    MaxEdits <- 0, MaxFailures <- 0,
    remote <- x1, listed <- x2, startup <- x3, tab <- x4, form <- x5,
    log <- x6, write <- x7, undos <- x8, refresh <- x9, restart <- x10,
    keys <- x11, edits <- x12, failures <- x13

EsvFails == INSTANCE EsvTab WITH
    Vals <- {val1}, Kind <- [v \in {val1, val2} |-> v], MaxKeys <- 1,
    MaxEdits <- 1, MaxFailures <- 1,
    remote <- x1, listed <- x2, startup <- x3, tab <- x4, form <- x5,
    log <- x6, write <- x7, undos <- x8, refresh <- x9, restart <- x10,
    keys <- x11, edits <- x12, failures <- x13

Idms == INSTANCE IdmSync WITH
    Ids <- {id1, id2}, Procs <- {proc1}, Quiet <- FALSE, MaxChanges <- 4,
    MaxStops <- 1,
    sidecar <- x1, rec <- x2, created <- x3, now <- x4, store <- x5,
    mark <- x6, sync <- x7, changes <- x8, stops <- x9

IdmTwos == INSTANCE IdmSync WITH
    Ids <- {id1, id2}, Procs <- {proc1, proc2}, Quiet <- FALSE, MaxChanges <- 2,
    MaxStops <- 0,
    sidecar <- x1, rec <- x2, created <- x3, now <- x4, store <- x5,
    mark <- x6, sync <- x7, changes <- x8, stops <- x9

Logs == INSTANCE LogStore WITH
    Event <- {event1, event2}, Track <- {track1, track2},
    TrackOf <- (event1 :> track1) @@ (event2 :> track2),
    SYNC_OVERLAP <- 2, RETENTION <- 4, Day <- 2, RetainMonths <- {-1, 3},
    Bits <- 4, Epoch <- -8, MaxLag <- 1, Span <- 0, SyncFirst <- TRUE,
    UseSince <- TRUE, MaxTime <- 5, MaxFaults <- 1,
    now <- x1, ts <- x2, visible <- x3, expired <- x4, store <- x5,
    cursor <- x6, rolled <- x7, compacted <- x8, pruned <- x9, job <- x10,
    faults <- x11, late <- x12, cut <- x13

Spans == INSTANCE LogStore WITH
    Event <- {event1, event2}, Track <- {track1},
    TrackOf <- [e \in {event1, event2} |-> track1],
    SYNC_OVERLAP <- 2, RETENTION <- 4, Day <- 2, RetainMonths <- {-1, 3},
    Bits <- 4, Epoch <- -8, MaxLag <- 1, Span <- 3, SyncFirst <- FALSE,
    UseSince <- TRUE, MaxTime <- 5, MaxFaults <- 1,
    now <- x1, ts <- x2, visible <- x3, expired <- x4, store <- x5,
    cursor <- x6, rolled <- x7, compacted <- x8, pruned <- x9, job <- x10,
    faults <- x11, late <- x12, cut <- x13

Tails == INSTANCE LogTail WITH
    Event <- {event1, event2}, TAIL_OVERLAP <- 3,
    TAIL_INITIAL_LOOKBACK_SECONDS <- 1, MaxLag <- 2, MaxTime <- 7,
    now <- x1, ts <- x2, visible <- x3, origin <- x4, next_begin <- x5,
    seen <- x6, window <- x7, printed <- x8

ASSUME InstancesAssumption ==
    /\ Issuer!IssuerAssumption /\ Shared!IssuerAssumption
    /\ Undos!UndoAssumption /\ Purges!UndoAssumption
    /\ Esvs!EsvAssumption /\ EsvFails!EsvAssumption
    /\ Idms!IdmAssumption /\ IdmTwos!IdmAssumption /\ Logs!LogStoreAssumption
    /\ Spans!LogStoreAssumption
    /\ Tails!LogTailAssumption

\* The contents of a variable are interchangeable: it starts with the first.
FirstContent ==
    follow \in {"esv", "esvfail"} => x1 \in {Absent, [val |-> val1, loaded |-> TRUE]}

MCInit ==
    /\ follow \in Followed
    /\ Init /\ (follow \notin {"issuer", "shared"} => issuer = None)
    /\ CASE follow = "undo" -> Undos!Init
         [] follow = "purge" -> Purges!Init
         [] follow = "esv" -> Esvs!Init
         [] follow = "esvfail" -> EsvFails!Init
         [] follow = "idm" -> Idms!Init /\ x10 = None /\ x11 = None /\ x12 = None
              /\ x13 = None
         [] follow = "idmtwo" -> IdmTwos!Init /\ x10 = None /\ x11 = None /\ x12 = None
              /\ x13 = None
         [] follow = "logs" -> Logs!Init
         [] follow = "spans" -> Spans!Init
         [] follow = "tail" -> Tails!Init /\ x9 = None /\ x10 = None /\ x11 = None
              /\ x12 = None /\ x13 = None
         [] follow \in {"issuer", "shared"} ->
              /\ x1 = None /\ x2 = None /\ x3 = None /\ x4 = None /\ x5 = None /\ x6 = None /\ x7 = None
              /\ x8 = None /\ x9 = None /\ x10 = None /\ x11 = None /\ x12 = None /\ x13 = None
    /\ FirstContent

\* Bound: a behavior of the undo log ends when two rewrites cross.
MCNext ==
    \/ follow = "undo" /\ ~x13 /\ Undos!Next /\ UNCHANGED <<follow, vars>>
    \/ follow = "purge" /\ ~x13 /\ Purges!Next /\ UNCHANGED <<follow, vars>>
    \/ follow = "esv" /\ Esvs!Next /\ UNCHANGED <<follow, vars>>
    \/ follow = "esvfail" /\ EsvFails!Next /\ UNCHANGED <<follow, vars>>
    \/ follow = "idm" /\ Idms!Next /\ UNCHANGED <<follow, vars, x10, x11, x12, x13>>
    \/ follow = "idmtwo" /\ IdmTwos!Next /\ UNCHANGED <<follow, vars, x10, x11, x12, x13>>
    \/ follow = "logs" /\ Logs!Next /\ UNCHANGED <<follow, vars>>
    \/ follow = "spans" /\ Spans!Next /\ UNCHANGED <<follow, vars>>
    \/ follow = "tail" /\ Tails!Next /\ UNCHANGED <<follow, vars, x9, x10, x11, x12, x13>>
    \/ follow = "issuer" /\ Issuer!Next /\ Cardinality(acted') <= 1 /\ UNCHANGED <<follow, slots>>
    \/ follow = "shared" /\ Shared!Next /\ UNCHANGED <<follow, slots>>

MCSpec == MCInit /\ [][MCNext]_all

-----------------------------------------------------------------------------
\* undo/mod.rs.  An entry whose record succeeded can be loaded from undo.log,
\* through marks, sweeps, purges and interrupted rewrites and appends; one that
\* was purged does not come back, and one that was settled is never pending
\* again.  All of it unless a DiskLog rewrites the file from a memory that is
\* older than that, two of them rewrite at once, or two appends share a line.
UndoKept ==
    /\ [](follow = "undo" => Undos!TypeOK /\ Undos!RecordedKept)
    /\ [](follow = "purge" => Purges!TypeOK /\ Purges!RecordedKept /\ Purges!ForgottenStays)
    /\ [][follow = "undo" => Undos!KeepsSettled]_slots
    /\ [][follow = "purge" => Purges!KeepsSettled]_slots

\* A deleted variable's row stays hidden while its tombstone lives, whatever
\* the lagging list returns and whichever results arrive late (ESV tab).
TombHidesRow ==
    /\ [](follow = "esv" => Esvs!TypeOK /\ Esvs!TombHidesRow)
    /\ [](follow = "esvfail" => EsvFails!TypeOK /\ EsvFails!TombHidesRow)

\* A row that was in the IDM store when a sync began leaves it by that sync only
\* when its record has left the tenant.  Of one sync at a time that is every row;
\* of two, a row that the other adds meanwhile may go until the next sync.
RowsLeaveWithRecord ==
    /\ [](follow = "idm" => Idms!TypeOK)
    /\ [](follow = "idmtwo" => IdmTwos!TypeOK)
    /\ [][follow = "idm" => Idms!DropsOnlyGone]_slots
    /\ [][follow = "idmtwo" => IdmTwos!DropsOnlyGone]_slots

=============================================================================
