---------------------------- MODULE MCStoresLive -----------------------------
(***************************************************************************)
(* What must happen in the end of what aic stores and shows of a tenant:   *)
(* small instances, under fairness, of modules of MCStores.  A behavior    *)
(* follows one, in Followed, over x1, x2, ...                              *)
(*   "saving"   a variable in the TUI's tab, alone;                        *)
(*   "polling"  one that another writes too;                               *)
(*   "copying"  a sync of records that are left alone meanwhile;           *)
(*   "racing"   two syncs and other writers;                               *)
(*   "pulling"  a sync of logs;                                            *)
(*   "tailing"  a tail of them.                                            *)
(***************************************************************************)
EXTENDS Integers, TLC

CONSTANTS Followed, None, Absent, Failed, val1, val2, id1, id2, proc1, proc2,
          event1, event2, track1

VARIABLES
    follow, \* the instance this behavior is about
    x1, x2, x3, x4, x5, x6, x7, x8, x9, x10, x11, x12, x13

all == <<follow, x1, x2, x3, x4, x5, x6, x7, x8, x9, x10, x11, x12, x13>>

Saving == INSTANCE EsvTab WITH
    Vals <- {val1, val2}, Kind <- [v \in {val1, val2} |-> v], MaxKeys <- 1,
    MaxEdits <- 0, MaxFailures <- 0,
    remote <- x1, listed <- x2, startup <- x3, tab <- x4, form <- x5,
    log <- x6, write <- x7, undos <- x8, refresh <- x9, restart <- x10,
    keys <- x11, edits <- x12, failures <- x13

Polling == INSTANCE EsvTab WITH
    Vals <- {val1}, Kind <- [v \in {val1, val2} |-> v], MaxKeys <- 1,
    MaxEdits <- 1, MaxFailures <- 0,
    remote <- x1, listed <- x2, startup <- x3, tab <- x4, form <- x5,
    log <- x6, write <- x7, undos <- x8, refresh <- x9, restart <- x10,
    keys <- x11, edits <- x12, failures <- x13

Copying == INSTANCE IdmSync WITH
    Ids <- {id1, id2}, Procs <- {proc1}, Quiet <- TRUE, MaxChanges <- 4,
    MaxStops <- 1,
    sidecar <- x1, rec <- x2, created <- x3, now <- x4, store <- x5,
    mark <- x6, sync <- x7, changes <- x8, stops <- x9

Racing == INSTANCE IdmSync WITH
    Ids <- {id1}, Procs <- {proc1, proc2}, Quiet <- FALSE, MaxChanges <- 2,
    MaxStops <- 0,
    sidecar <- x1, rec <- x2, created <- x3, now <- x4, store <- x5,
    mark <- x6, sync <- x7, changes <- x8, stops <- x9

Pulling == INSTANCE LogStore WITH
    Event <- {event1, event2}, Track <- {track1},
    TrackOf <- [e \in {event1, event2} |-> track1], SYNC_OVERLAP <- 2,
    RETENTION <- 4, Day <- 2, RetainMonths <- {2}, Bits <- 4, Epoch <- -8,
    MaxLag <- 1, Span <- 2, SyncFirst <- FALSE, UseSince <- FALSE,
    MaxTime <- 3, MaxFaults <- 1,
    now <- x1, ts <- x2, visible <- x3, expired <- x4, store <- x5,
    cursor <- x6, rolled <- x7, compacted <- x8, pruned <- x9, job <- x10,
    faults <- x11, late <- x12, cut <- x13

Tailing == INSTANCE LogTail WITH
    Event <- {event1, event2}, TAIL_OVERLAP <- 3,
    TAIL_INITIAL_LOOKBACK_SECONDS <- 1, MaxLag <- 2, MaxTime <- 6,
    now <- x1, ts <- x2, visible <- x3, origin <- x4, next_begin <- x5,
    seen <- x6, window <- x7, printed <- x8

ASSUME InstancesAssumption ==
    /\ Saving!EsvAssumption /\ Polling!EsvAssumption
    /\ Copying!IdmAssumption /\ Racing!IdmAssumption
    /\ Pulling!LogStoreAssumption /\ Tailing!LogTailAssumption

\* An instance uses the first n of the variables.
Starts(n) ==
    /\ IF n < 9 THEN x9 = None ELSE TRUE
    /\ IF n < 13 THEN x10 = None /\ x11 = None /\ x12 = None /\ x13 = None ELSE TRUE

Uses(n) ==
    /\ UNCHANGED follow
    /\ IF n < 9 THEN UNCHANGED x9 ELSE TRUE
    /\ IF n < 13 THEN UNCHANGED <<x10, x11, x12, x13>> ELSE TRUE

\* The contents of a variable are interchangeable: it starts with the first.
MCInit ==
    /\ follow \in Followed
    /\ CASE follow = "saving" -> Saving!Init /\ Starts(13)
              /\ x1 \in {Absent, [val |-> val1, loaded |-> TRUE]}
         [] follow = "polling" -> Polling!Init /\ Starts(13)
         [] follow = "copying" -> Copying!Init /\ Starts(9)
         [] follow = "racing" -> Racing!Init /\ Starts(9)
         [] follow = "pulling" -> Pulling!Init /\ Starts(13)
         [] follow = "tailing" -> Tailing!Init /\ Starts(8)

MCNext ==
    \/ follow = "saving" /\ Saving!Next /\ Uses(13)
    \/ follow = "polling" /\ Polling!Next /\ Uses(13)
    \/ follow = "copying" /\ Copying!Next /\ Uses(9)
    \/ follow = "racing" /\ Racing!Next /\ Uses(9)
    \/ follow = "pulling" /\ Pulling!Next /\ Uses(13)
    \/ follow = "tailing" /\ Tailing!Next /\ Uses(8)

MCSpec == MCInit /\ [][MCNext]_all

\* What goes on by itself: tasks and commands run on, the tab is polled, its
\* pins grow old, the list catches up, a restart ends; the records are synced
\* again; polls follow one another.  (Only one instance is followed, so one
\* conjunct may speak of several.)
GoesOn(k) ==
    \/ /\ follow = "saving" /\ Uses(13)
       /\ \/ k = 1 /\ Saving!Background
          \/ k = 2 /\ Saving!Polling
          \/ k = 3 /\ Saving!Ages
          \/ k = 4 /\ Saving!ListCatchesUp
          \/ k = 5 /\ Saving!RestartDone
    \/ /\ follow = "polling" /\ Uses(13)
       /\ \/ k = 1 /\ Polling!Background
          \/ k = 2 /\ Polling!Polling
          \/ k = 3 /\ Polling!Ages
          \/ k = 4 /\ Polling!ListCatchesUp
          \/ k = 5 /\ Polling!RestartDone
    \/ /\ follow = "copying" /\ Uses(9)
       /\ k = 1 /\ (Copying!Begin(proc1) \/ Copying!SyncStep(proc1))
    \/ /\ follow = "racing" /\ Uses(9)
       /\ \/ k = 1 /\ (Racing!Begin(proc1) \/ Racing!SyncStep(proc1))
          \/ k = 2 /\ (Racing!Begin(proc2) \/ Racing!SyncStep(proc2))
    \/ follow = "pulling" /\ k = 1 /\ Pulling!RunsOn /\ Uses(13)
    \/ /\ follow = "tailing" /\ Uses(8)
       /\ (k = 1 /\ Tailing!BeginPoll) \/ (k = 2 /\ Tailing!EndPoll)

\* A log sync is run again and again.
TriesAgain == follow = "pulling" /\ Pulling!RunsAgain /\ Uses(13)

MCFairSpec == /\ MCSpec
              /\ \A k \in 1..5 : WF_all(GoesOn(k))
              /\ SF_all(TriesAgain)

-----------------------------------------------------------------------------
\* Once everyone stops, the tab's row shows what the tenant has, and the banner
\* says whether a restart is needed.
TabConverges ==
    <>[](/\ follow = "saving" => Saving!ListTrue /\ Saving!BannerTrue
         /\ follow = "polling" => Polling!ListTrue /\ Polling!BannerTrue)

\* A row that is behind its record is found by the next sync (write_sync_state
\* is last), so that once the tenant is left alone repeated syncs make the store
\* a copy of it.  However two syncs interleave, the store ends with the tenant's
\* ids, and with its records where every sync pulls them in full.
StoreCatchesUp ==
    /\ [](follow = "copying" => Copying!StaleIsListed)
    /\ <>[](/\ follow = "copying" => Copying!IsCopy
            /\ follow = "racing" => Racing!SameIds /\ Racing!FullIsCopy)

\* An event that the tenant shows for long enough gets into the store, and one
\* that appears within the overlap is printed by a tail.  (What is shown, due,
\* settled or printed stays so: []<> says no less than ~> of each.)
EventsArrive ==
    []<>\A e \in {event1, event2} :
           /\ follow = "pulling" /\ Pulling!Shown(e) => Pulling!Settled(e)
           /\ follow = "tailing" /\ Tailing!Due(e) => Tailing!Printed(e)
=============================================================================
