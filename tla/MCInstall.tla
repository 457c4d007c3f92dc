------------------------------ MODULE MCInstall ------------------------------
(***************************************************************************)
(* What an install of aic keeps and shares with others.  A behavior follows *)
(* one of these instances, in Followed; tenants have their own variables   *)
(* and rest while another is followed, the others use x1, x2, ...          *)
(*   "tenants"  two names whose databases collide once sanitised, two      *)
(*              identities at one base URL (one of a log-only tenant), two *)
(*              processes and two operations, first both names onboarded   *)
(*              for the first identity;                                    *)
(*   "failing"  the same with one operation and a failure or crash, from   *)
(*              any rows;                                                  *)
(*   "scripts"  one script, every command, an editor, another operator and *)
(*              failures; "apart" without failures and with a third source *)
(*              for file, snapshot and tenant to differ in; "both" with    *)
(*              two commands that may cross;                               *)
(*   "rename"   the rename of one script;                                  *)
(*   "lease"    a test file's lease; "lock" the lock around it, for two    *)
(*              processes, and "waiters" for three;                        *)
(*   "agent"    commands that start an agent, one after the other.         *)
(* What must happen in the end is checked in MCLive.                       *)
(***************************************************************************)
EXTENDS TenantLifecycle, TLC

CONSTANTS Followed,
          name1, name2, id1, id2, key1, url1, sa1, file1, proc1, proc2, proc3,
          Absent, Torn, src1, src2, src3,
          node1, node2, lib1, lib2, minter, record1, daemon1, daemon2, daemon3

VARIABLES
    follow, \* the instance this behavior is about
    x1, x2, x3, x4, x5, x6, x7, x8, x9, x10, x11, x12

slots == <<x1, x2, x3, x4, x5, x6, x7, x8, x9, x10, x11, x12>>
all == <<follow, vars, slots>>

MCUrlOf == [id \in Ids |-> url1]
MCSaOf == [id \in Ids |-> IF id = id1 THEN sa1 ELSE NoSa]
MCFileOf == [name \in Names |-> file1]
\* proc1 and proc2 are the processes of each instance,
\* name1 and name2 the names of tenants.
Symmetry == Permutations(Names) \union Permutations(Procs)

Calm == INSTANCE TenantLifecycle WITH MaxFaults <- 0

Failing == INSTANCE TenantLifecycle WITH MaxOps <- 1

Scripts == INSTANCE ScriptSync WITH
    Vals <- {src1, src2}, Procs <- {proc1},
    Ops <- {"push", "sync", "pull", "take", "forget", "create", "delete"},
    MaxEdits <- 1, MaxOthers <- 1, MaxFailures <- 1,
    remote <- x1, local <- x2, snap <- x3, entry <- x4, backups <- x5,
    procs <- x6, base <- x7, edits <- x8, others <- x9, failures <- x10,
    crossed <- x11

Apart == INSTANCE ScriptSync WITH
    Vals <- {src1, src2, src3}, Procs <- {proc1},
    Ops <- {"push", "sync", "pull", "take", "forget", "create", "delete"},
    MaxEdits <- 1, MaxOthers <- 1, MaxFailures <- 0,
    remote <- x1, local <- x2, snap <- x3, entry <- x4, backups <- x5,
    procs <- x6, base <- x7, edits <- x8, others <- x9, failures <- x10,
    crossed <- x11

Both == INSTANCE ScriptSync WITH
    Vals <- {src1, src2}, Procs <- {proc1, proc2},
    Ops <- {"push", "sync"},
    MaxEdits <- 1, MaxOthers <- 1, MaxFailures <- 0,
    remote <- x1, local <- x2, snap <- x3, entry <- x4, backups <- x5,
    procs <- x6, base <- x7, edits <- x8, others <- x9, failures <- x10,
    crossed <- x11

Renames == INSTANCE ScriptRename WITH
    Vals <- {src1, src2}, MaxEdits <- 2, MaxOthers <- 1, MaxFailures <- 1,
    alias <- x1, name <- x2, src <- x3, taken <- x4, file <- x5, snap <- x6,
    entry <- x7, cmd <- x8, gone <- x9, edits <- x10, others <- x11,
    failures <- x12

Leases == INSTANCE FileLease WITH
    Graph <- {node1, node2}, Libs <- {lib1, lib2}, Session <- {minter},
    Fixtures <- {record1},
    Takeable <- {node1, lib1, lib2, record1}, MaxFaults <- 2, MaxKills <- 1,
    MaxTaken <- 2, MaxRuns <- 1,
    there <- x1, journal <- x2, lease <- x3, faults <- x4, kills <- x5,
    taken <- x6, runs <- x7, unanswered <- x8

Locks == INSTANCE LeaseLock WITH
    Procs <- {proc1, proc2}, MaxKills <- 1,
    dir <- x1, pc <- x2, then <- x3, kills <- x4

Waiters == INSTANCE LeaseLock WITH
    Procs <- {proc1, proc2, proc3}, MaxKills <- 1,
    dir <- x1, pc <- x2, then <- x3, kills <- x4

Spawns == INSTANCE AgentSpawn WITH
    Clients <- {proc1}, Daemons <- {daemon1, daemon2, daemon3},
    Nobody <- None, Ops <- {"login", "logout", "stop"}, MaxOps <- 6,
    MaxFaults <- 2,
    sock <- x1, pid <- x2, daemon <- x3, unlocked <- x4, client <- x5,
    ops <- x6, faults <- x7

ASSUME InstancesAssumption ==
    /\ Calm!LifecycleAssumption /\ Failing!LifecycleAssumption
    /\ Scripts!SyncAssumption /\ Apart!SyncAssumption /\ Both!SyncAssumption
    /\ Renames!RenameAssumption /\ Leases!LeaseAssumption
    /\ Locks!LockAssumption /\ Waiters!LockAssumption /\ Spawns!SpawnAssumption

Tenants == {"tenants", "failing"}

\* An instance uses the first n of the variables.
Starts(n) ==
    /\ IF n < 1 THEN x1 = None /\ x2 = None /\ x3 = None /\ x4 = None ELSE TRUE
    /\ IF n < 5 THEN x5 = None /\ x6 = None /\ x7 = None ELSE TRUE
    /\ IF n < 8 THEN x8 = None ELSE TRUE
    /\ IF n < 9 THEN x9 = None /\ x10 = None /\ x11 = None ELSE TRUE
    /\ IF n < 12 THEN x12 = None ELSE TRUE

Uses(n) ==
    /\ UNCHANGED follow
    /\ IF n < 1 THEN UNCHANGED <<x1, x2, x3, x4>> ELSE TRUE
    /\ IF n < 5 THEN UNCHANGED <<x5, x6, x7>> ELSE TRUE
    /\ IF n < 8 THEN UNCHANGED x8 ELSE TRUE
    /\ IF n < 9 THEN UNCHANGED <<x9, x10, x11>> ELSE TRUE
    /\ IF n < 12 THEN UNCHANGED x12 ELSE TRUE

\* The sources of a script are interchangeable: it starts with the first.
MCInit ==
    /\ follow \in Followed
    /\ Init
    /\ follow = "tenants" => \A n \in Names : rows[n] = id1
    /\ follow \notin Tenants => rows = [n \in Names |-> None]
    /\ CASE follow \in Tenants -> Starts(0)
         [] follow = "scripts" -> Scripts!Init /\ x1 = src1 /\ Starts(11)
         [] follow = "apart" -> Apart!Init /\ x1 = src1 /\ Starts(11)
         [] follow = "both" -> Both!Init /\ x1 = src1 /\ Starts(11)
         [] follow = "rename" -> Renames!Init /\ x3 = src1 /\ Starts(12)
         [] follow = "lease" -> Leases!Init /\ Starts(8)
         [] follow = "lock" -> Locks!Init /\ Starts(4)
         [] follow = "waiters" -> Waiters!Init /\ Starts(4)
         [] follow = "agent" -> Spawns!Init /\ Starts(7)

MCNext ==
    \/ follow = "tenants" /\ Calm!Next /\ Uses(0)
    \/ follow = "failing" /\ Failing!Next /\ Uses(0)
    \/ /\ UNCHANGED vars
       /\ \/ follow = "scripts" /\ Scripts!Next /\ Uses(11)
          \/ follow = "apart" /\ Apart!Next /\ Uses(11)
          \/ follow = "both" /\ Both!Next /\ Uses(11)
          \/ follow = "rename" /\ Renames!Next /\ Uses(12)
          \/ follow = "lease" /\ Leases!Next /\ Uses(8)
          \/ follow = "lock" /\ Locks!Next /\ Uses(4)
          \/ follow = "waiters" /\ Waiters!Next /\ Uses(4)
          \/ follow = "agent" /\ Spawns!Next /\ Uses(7)

MCSpec == MCInit /\ [][MCNext]_all

-----------------------------------------------------------------------------
\* scripts/sync.rs.  What a push or sync that is not forced overwrites is a
\* source that was installed, adopted or pushed here, unless another operator
\* wrote after its fetch or two commands crossed; and a command takes no source
\* out of the workspace that is neither backed up nor synced nor given up by
\* the operator, however two commands cross.
EditsKept ==
    /\ [](follow = "scripts" => Scripts!TypeOK)
    /\ [](follow = "apart" => Apart!TypeOK)
    /\ [](follow = "both" => Both!TypeOK)
    /\ [][follow = "scripts" => Scripts!KeepsEdit /\ Scripts!OverwritesOnlyItsFork]_slots
    /\ [][follow = "apart" => Apart!KeepsEdit /\ Apart!OverwritesOnlyItsFork]_slots
    /\ [][follow = "both" => Both!KeepsEdit /\ Both!OverwritesOnlyItsFork]_slots

\* Wherever a rename stops, the script is tracked, and under its new name only
\* with its snapshot and file; only the renamed source leaves the workspace.
RenameComplete ==
    /\ [](follow = "rename" => Renames!TypeOK /\ Renames!NewNameComplete)
    /\ [][follow = "rename" => Renames!UnlinksRenamed]_slots


\* Commands one after the other are served by one agent (agent/client.rs).
OneAgent ==
    /\ [](follow = "agent" => Spawns!TypeOK)
    /\ [](follow = "agent" => Spawns!OneAgent)
=============================================================================
