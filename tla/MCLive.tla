------------------------------- MODULE MCLive -------------------------------
(***************************************************************************)
(* What must happen in the end, when operations that stopped are repeated: *)
(* small instances, under fairness, of the modules of MCInstall and        *)
(* MCChanges.  A behavior follows one, in Followed, over x1, x2, ...       *)
(*   "removal"   an offboarding, two processes and a failure;              *)
(*   "syncing"   the sync of a script that is edited on both sides;        *)
(*   "renaming"  the rename of a script, with failures;                    *)
(*   "leasing"   a test file's lease, its kills and lost answers;          *)
(*   "locking"   the lock around it, three processes and a kill;           *)
(*   "spawning"  two commands that start an agent together;                *)
(*   "closing"   two rollovers with failures, "starting" the init of a     *)
(*               role, by two installs;                                    *)
(*   "settling"  a conversion with a lost declaration and promotion;       *)
(*   "linking"   relinks that are interrupted.                             *)
(***************************************************************************)
EXTENDS Naturals, TLC

CONSTANTS Followed,
          name1, id1, key1, url1, sa1, file1, proc1, proc2, proc3,
          Absent, Torn, src1, src2,
          node1, lib1, minter, record1, daemon1, daemon2, daemon3,
          Default, ident1, secret1, cert1, cert2, cert3,
          link1, link2, far1, far2, bare, role, None, NoSa, Free

VARIABLES
    follow, \* the instance this behavior is about
    x1, x2, x3, x4, x5, x6, x7, x8, x9, x10, x11, x12, x13, x14

all == <<follow, x1, x2, x3, x4, x5, x6, x7, x8, x9, x10, x11, x12, x13, x14>>

Removal == INSTANCE TenantLifecycle WITH
    Names <- {name1}, Ids <- {id1}, UrlOf <- (id1 :> url1), SaOf <- (id1 :> sa1),
    FileOf <- (name1 :> file1), Keys <- {key1}, Procs <- {proc1, proc2},
    StoreKinds <- {"Workspace"}, MaxOps <- 1, MaxFaults <- 1,
    rows <- x1, vault <- x2, stores <- x3, published <- x4, lock <- x5,
    run <- x6, ops <- x7, faults <- x8

Syncing == INSTANCE ScriptSync WITH
    Vals <- {src1, src2}, Procs <- {proc1}, Ops <- {"sync", "pull"},
    MaxEdits <- 1, MaxOthers <- 1, MaxFailures <- 1,
    remote <- x1, local <- x2, snap <- x3, entry <- x4, backups <- x5,
    procs <- x6, base <- x7, edits <- x8, others <- x9, failures <- x10,
    crossed <- x11

Renaming == INSTANCE ScriptRename WITH
    Vals <- {src1, src2}, MaxEdits <- 1, MaxOthers <- 1, MaxFailures <- 2,
    alias <- x1, name <- x2, src <- x3, taken <- x4, file <- x5, snap <- x6,
    entry <- x7, cmd <- x8, gone <- x9, edits <- x10, others <- x11,
    failures <- x12

Leasing == INSTANCE FileLease WITH
    Graph <- {node1}, Libs <- {lib1}, Session <- {minter},
    Fixtures <- {record1}, Takeable <- {node1, lib1, minter, record1},
    MaxFaults <- 2, MaxKills <- 1, MaxTaken <- 1, MaxRuns <- 2,
    there <- x1, journal <- x2, lease <- x3, faults <- x4, kills <- x5,
    taken <- x6, runs <- x7, unanswered <- x8

Locking == INSTANCE LeaseLock WITH
    Procs <- {proc1, proc2, proc3}, MaxKills <- 1,
    dir <- x1, pc <- x2, then <- x3, kills <- x4

Spawning == INSTANCE AgentSpawn WITH
    Clients <- {proc1, proc2}, Daemons <- {daemon1, daemon2, daemon3},
    Nobody <- None, Ops <- {"login", "stop"}, MaxOps <- 2, MaxFaults <- 1,
    sock <- x1, pid <- x2, daemon <- x3, unlocked <- x4, client <- x5,
    ops <- x6, faults <- x7

Closing == INSTANCE SamlRotate WITH
    Installs <- {proc1}, Idents <- {ident1}, Secrets <- {secret1},
    Certs <- {cert1, cert2, cert3}, Verbs <- {"stage", "complete"},
    Edits <- {}, Configured <- TRUE, MaxVersions <- 4, MaxStages <- 2,
    MaxFaults <- 2, MaxEdits <- 0,
    ident <- x1, other <- x2, mapping <- x3, secret <- x4, gen <- x5,
    export <- x6, journal <- x7, run <- x8, quiet <- x9, stages <- x10,
    faults <- x11, edits <- x12

Starting == INSTANCE SamlRotate WITH
    Installs <- {proc1, proc2}, Idents <- {ident1}, Secrets <- {secret1},
    Certs <- {cert1, cert2}, Verbs <- {"init"}, Edits <- {},
    Configured <- FALSE, MaxVersions <- 1, MaxStages <- 0, MaxFaults <- 3,
    MaxEdits <- 0,
    ident <- x1, other <- x2, mapping <- x3, secret <- x4, gen <- x5,
    export <- x6, journal <- x7, run <- x8, quiet <- x9, stages <- x10,
    faults <- x11, edits <- x12

Settling == INSTANCE Conversion WITH
    Procs <- {proc1}, Links <- {link1, link2}, Orphans <- {},
    MaxFailures <- 1, MaxTurns <- 2, MaxEdits <- 0, MaxQ14 <- 1,
    LateConfig <- FALSE,
    mapped <- x1, declared <- x2, generic <- x3, column <- x4,
    inflight <- x5, file <- x6, holder <- x7, run <- x8, txn <- x9,
    turns <- x10, failures <- x11, edits <- x12, q14 <- x13

Linking == INSTANCE LinkRecovery WITH
    Procs <- {proc1}, Targets <- {far1, far2}, Props <- {bare, role},
    Bare <- bare, Array <- TRUE, FarArray <- TRUE,
    InitialTargets <- {far1, far2}, MaxEdits <- 0, MaxProbes <- 0,
    MaxFailures <- 3,
    links <- x1, onesided <- x2, farHeld <- x3, rev <- x4, journal <- x5,
    run <- x6, edges <- x7, entries <- x8, probes <- x9, edits <- x10,
    failures <- x11, owed <- x12, tests <- x13, misjudged <- x14

ASSUME InstancesAssumption ==
    /\ Removal!LifecycleAssumption
    /\ Syncing!SyncAssumption /\ Renaming!RenameAssumption
    /\ Leasing!LeaseAssumption /\ Locking!LockAssumption
    /\ Spawning!SpawnAssumption /\ Closing!SamlAssumption
    /\ Starting!SamlAssumption /\ Settling!ConversionAssumption
    /\ Linking!LinkAssumption

\* An instance uses the first n of the variables.
Starts(n) ==
    /\ IF n < 5 THEN x5 = None /\ x6 = None /\ x7 = None ELSE TRUE
    /\ IF n < 8 THEN x8 = None ELSE TRUE
    /\ IF n < 9 THEN x9 = None ELSE TRUE
    /\ IF n < 10 THEN x10 = None ELSE TRUE
    /\ IF n < 11 THEN x11 = None ELSE TRUE
    /\ IF n < 12 THEN x12 = None ELSE TRUE
    /\ IF n < 13 THEN x13 = None ELSE TRUE
    /\ IF n < 14 THEN x14 = None ELSE TRUE

Uses(n) ==
    /\ UNCHANGED follow
    /\ IF n < 5 THEN UNCHANGED <<x5, x6, x7>> ELSE TRUE
    /\ IF n < 8 THEN UNCHANGED x8 ELSE TRUE
    /\ IF n < 9 THEN UNCHANGED x9 ELSE TRUE
    /\ IF n < 10 THEN UNCHANGED x10 ELSE TRUE
    /\ IF n < 11 THEN UNCHANGED x11 ELSE TRUE
    /\ IF n < 12 THEN UNCHANGED x12 ELSE TRUE
    /\ IF n < 13 THEN UNCHANGED x13 ELSE TRUE
    /\ IF n < 14 THEN UNCHANGED x14 ELSE TRUE

MCInit ==
    /\ follow \in Followed
    /\ CASE follow = "removal" -> Removal!Init /\ Starts(8)
         [] follow = "syncing" -> Syncing!Init /\ Starts(11) /\ x1 = src1
         [] follow = "renaming" -> Renaming!Init /\ Starts(12) /\ x3 = src1
         [] follow = "leasing" -> Leasing!Init /\ Starts(8)
         [] follow = "locking" -> Locking!Init /\ Starts(4)
         [] follow = "spawning" -> Spawning!Init /\ Starts(7)
         [] follow = "closing" -> Closing!Init /\ Starts(12)
         [] follow = "starting" -> Starting!Init /\ Starts(12)
         [] follow = "settling" -> Settling!Init /\ Starts(13)
         [] follow = "linking" -> Linking!Init /\ Starts(14)

MCNext ==
    \/ follow = "removal" /\ Removal!Next /\ Uses(8)
    \/ follow = "syncing" /\ Syncing!Next /\ Uses(11)
    \/ follow = "renaming" /\ Renaming!Next /\ Uses(12)
    \/ follow = "leasing" /\ Leasing!Next /\ Uses(8)
    \/ follow = "locking" /\ Locking!Next /\ Uses(4)
    \/ follow = "spawning" /\ Spawning!Next /\ Uses(7)
    \/ follow = "closing" /\ Closing!Next /\ Uses(12)
    \/ follow = "starting" /\ Starting!Next /\ Uses(12)
    \/ follow = "settling" /\ Settling!Next /\ Uses(13)
    \/ follow = "linking" /\ Linking!Next /\ Uses(14)

MCSpec == MCInit /\ [][MCNext]_all

\* What goes on by itself: commands, agents and leases run on, the metadata
\* catches up, a late answer lands, a promotion or a lost declaration comes
\* back, the operator repeats a removal and an unfinished relink.  (Only one
\* instance is followed, so one conjunct may speak of several.)
GoesOn(k) ==
    \/ /\ follow = "removal" /\ Uses(8)
       /\ \/ k = 1 /\ Removal!Continue(proc1)
          \/ k = 2 /\ Removal!Continue(proc2)
          \/ k = 3 /\ \E p \in {proc1, proc2} : Removal!PlanRemoval(p, name1)
    \/ follow = "syncing" /\ k = 1 /\ Syncing!Step(proc1) /\ UNCHANGED x11 /\ Uses(11)
    \/ follow = "renaming" /\ k = 1 /\ Renaming!Step /\ Uses(12)
    \/ follow = "leasing" /\ k = 1 /\ Leasing!LeaseStep /\ Leasing!NotesAnswers /\ Uses(8)
    \/ /\ follow = "locking" /\ Uses(4)
       /\ \E p \in {<<1, proc1>>, <<2, proc2>>, <<3, proc3>>} :
             k = p[1] /\ (Locking!Begin(p[2]) \/ Locking!Step(p[2]))
    \/ /\ follow = "spawning" /\ Uses(7)
       /\ \/ \E c \in {<<1, proc1>>, <<2, proc2>>} : k = c[1] /\ Spawning!Command(c[2])
          \/ k = 3 /\ \E d \in {daemon1, daemon2, daemon3} : Spawning!Agent(d)
    \/ /\ follow = "closing" /\ Uses(12)
       /\ \/ k = 1 /\ Closing!Work(proc1)
          \/ k = 2 /\ Closing!Propagate
          \/ k = 3 /\ Closing!Read(proc1, "complete", None)
    \/ /\ follow = "starting" /\ Uses(12)
       /\ \/ k = 1 /\ Starting!Work(proc1)
          \/ k = 2 /\ Starting!Work(proc2)
          \/ k = 3 /\ Starting!Propagate
    \/ /\ follow = "settling" /\ Uses(13)
       /\ \/ k = 1 /\ Settling!Work(proc1)
          \/ k = 2 /\ Settling!Late
          \/ k = 3 /\ Settling!PromotionLands
          \/ k = 4 /\ Settling!DeclaredAgain
    \/ /\ follow = "linking" /\ Uses(14)
       /\ (k = 1 /\ Linking!Work(proc1)) \/ (k = 2 /\ Linking!Start(proc1, "relink"))
       /\ Linking!NotesMisjudged

\* What an operator who tries again and again gets through: a sync with an
\* answer to what it asks, a rename, the removal of residue, the end of a
\* suite, a complete, an init or a conversion that is accepted, a prompt that
\* is not declined.
TriesAgain(k) ==
    \/ /\ follow = "syncing" /\ UNCHANGED x11 /\ Uses(11)
       /\ \/ k = 1 /\ Syncing!Start(proc1, "sync")
          \/ k = 2 /\ Syncing!PullsFirst(proc1)
          \/ k = 3 /\ Syncing!Decides(proc1)
    \/ /\ follow = "renaming" /\ Uses(12)
       /\ (k = 1 /\ Renaming!List) \/ (k = 2 /\ Renaming!Tidy)
    \/ /\ follow = "leasing" /\ Uses(8)
       /\ (k = 1 /\ Leasing!Operator) \/ (k = 2 /\ Leasing!Close)
       /\ Leasing!NotesAnswers
    \/ /\ follow = "closing" /\ Uses(12)
       /\ (k = 1 /\ Closing!Accepted(proc1)) \/ (k = 2 /\ Closing!Rechecks(proc1))
    \/ /\ follow = "starting" /\ Uses(12)
       /\ \E p \in {proc1, proc2} :
             (k = 1 /\ Starting!Accepted(p)) \/ (k = 2 /\ Starting!Rechecks(p))
    \/ /\ follow = "settling" /\ Uses(13)
       /\ (k = 1 /\ Settling!PlansAgain(proc1, FALSE)) \/ (k = 2 /\ Settling!PlansAgain(proc1, TRUE))
    \/ follow = "linking" /\ k = 1 /\ Linking!Consents(proc1) /\ Linking!NotesMisjudged /\ Uses(14)

MCFairSpec == /\ MCSpec
              /\ \A k \in 1..4 : WF_all(GoesOn(k))
              /\ \A k \in 1..3 : SF_all(TriesAgain(k))

-----------------------------------------------------------------------------
\* A removal of a tenant that is repeated completes in the end (offboard).
RemovalCompletes == <>[](follow = "removal" => Removal!AllRemoved)

\* Once everyone stops and the operator goes on syncing, tenant, workspace and
\* snapshot agree on what is tracked.
Converges == <>[](follow = "syncing" => Syncing!InStep)

\* A rename that the tenant took is finished by repeating it.
RenameFinishes == <>[](follow = "renaming" => Renaming!Finished)

\* No residue blocks a lease for ever once the operator acts on the reports,
\* and the lock of a process that died is taken over or removed.
LeaseRecovers ==
    []<>/\ follow = "leasing" => Leasing!NothingLeft
        /\ follow = "locking" => \A p \in {proc1, proc2, proc3} : ~Locking!DeadOwner(p)

\* Commands that start together over a missing or stale socket all end, with
\* an answer, an error or the time-out.
EveryCommandEnds ==
    []<>(follow = "spawning" => \A c \in {proc1, proc2} : ~Spawning!Busy(c))

\* A rollover that was opened is closed in the end, and an init that stopped
\* after any of its writes is finished.
RolloverFinishes ==
    []<>/\ follow = "closing" => Closing!WindowClosed(secret1)
        /\ follow = "starting" /\ Starting!Named => Starting!Active

\* A conversion that was begun is completed or rolled back in the end.
ConversionSettles ==
    []<>(follow = "settling" /\ Settling!Begun => Settling!Settled)

\* A link that a relink removed comes back in the end and, however often
\* relinks are interrupted, once.
RemovedComesBack ==
    /\ [](follow = "linking" => Linking!LinkedOnce)
    /\ []<>(follow = "linking" => ~Linking!Owing)
=============================================================================
