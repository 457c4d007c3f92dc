------------------------------ MODULE UndoLog ------------------------------
(***************************************************************************)
(* The file .aic/undo.log (src/undo/mod.rs) and the DiskLogs that work on  *)
(* it: the TUI's, loaded when it starts and kept for as long as it runs,   *)
(* the one a CLI schema write loads to record its entry, and the one       *)
(* offboarding loads to purge a tenant's entries.  No lock is taken.  A    *)
(* recorded entry is appended; a mark, a sweep or a purge rewrites the     *)
(* whole file from memory through undo.log.tmp, which all DiskLogs share.  *)
(***************************************************************************)
EXTENDS FiniteSets, Naturals

CONSTANTS Log,         \* the DiskLogs, one of each command or session
          App, Purger, \* the sets of those of TUI sessions and of offboarding
          Entry,       \* the entries that may be recorded, by id
          Purged,      \* the entries that name the tenant being offboarded
          MaxFaults,   \* how often a process dies or a rewrite fails
          MaxTears     \* how often one dies between a line and its newline

UndoAssumption ==
    /\ App \subseteq Log /\ Purger \subseteq Log /\ App \cap Purger = {}
    /\ Purged \subseteq Entry
    /\ MaxFaults \in Nat /\ MaxTears \in Nat

VARIABLES disk,       \* the files "log" and "tmp": their lines
          aged,       \* the entries older than UNDO_TTL_SECS
          pc, mem,    \* where each DiskLog is, and its entries
          fd,         \* the file a rewrite has open
          job,        \* the entry being appended, or those being purged
          recorded,   \* the entries whose record returned
          forgotten,  \* the entries a purge has dropped
          faults, tears,
          behind,     \* history: the entries that undo.log has otherwise than
                      \* a DiskLog's memory, for another changed them there
          undone,     \* history: those that were rewritten from such a memory,
                      \* or that share their line with another entry
          crossed     \* history: two rewrites were under way at once

history == <<behind, undone, crossed>>
vars == <<disk, aged, pc, mem, fd, job, recorded, forgotten, faults, tears, history>>

Status == {"pending", "applied", "expired"}
Rec == [id : Entry, status : Status]

\* Content of a file: its finished lines, and the last one, which has no
\* newline yet.  A line of several records is not JSON.
Content == [there : BOOLEAN, lines : SUBSET SUBSET Rec, last : SUBSET Rec]
NoFile == [there |-> FALSE, lines |-> {}, last |-> {}]
Empty == [NoFile EXCEPT !.there = TRUE]

NoFd == "none"

\* load_entries: a line that does not parse is skipped with a warning.
load_entries(content) ==
    {r \in Rec : {r} \in content.lines \cup {content.last}}

Ids(recs) == {r.id : r \in recs}

Init ==
    /\ disk = [f \in {"log", "tmp"} |-> NoFile]
    /\ aged = {}
    /\ pc = [l \in Log |-> "closed"]
    /\ mem = [l \in Log |-> {}]
    /\ fd = [l \in Log |-> NoFd]
    /\ job = [l \in Log |-> {}]
    /\ recorded = {} /\ forgotten = {}
    /\ faults = 0 /\ tears = 0
    /\ behind = [l \in Log |-> {}] /\ undone = {} /\ crossed = FALSE

-----------------------------------------------------------------------------
\* Rewriting the file from memory.

\* Mutant of OpenTmp: the log itself is truncated and written.
OpenInPlace(l) ==
    /\ disk' = [disk EXCEPT !["log"] = Empty]
    /\ fd' = [fd EXCEPT ![l] = "log"]

\* Mutant of OpenTmp: what an earlier rewrite left in the file stays.
OpenUntruncated(l) ==
    /\ disk' = disk
    /\ fd' = [fd EXCEPT ![l] = "tmp"]

\* rewrite opens the sidecar, created or truncated.
OpenTmp(l) ==
    /\ disk' = [disk EXCEPT !["tmp"] = Empty]
    /\ fd' = [fd EXCEPT ![l] = "tmp"]

\* rewrite's lines, written from the file's start.  Lines another DiskLog
\* wrote there since it was truncated may stick out behind them.  The file
\* may have been renamed under the handle (fd "log"), or replaced (NoFd).
Behind(l) == IF fd[l] = NoFd THEN {} ELSE (disk[fd[l]].lines \cup {disk[fd[l]].last}) \ {{}}

WriteTmp(l) ==
    /\ pc[l] = "write"
    /\ \E rest \in SUBSET Behind(l) :
          disk' = [f \in DOMAIN disk |->
                     IF f = fd[l]
                     THEN [Empty EXCEPT !.lines = {{r} : r \in mem[l]} \cup rest]
                     ELSE disk[f]]
    /\ pc' = [pc EXCEPT ![l] = "rename"]
    /\ UNCHANGED <<aged, mem, fd, job, recorded, forgotten, faults, tears>>

\* What the rewrite was for is over: a purging DiskLog is dropped.
AfterRewrite(l) ==
    /\ pc' = [pc EXCEPT ![l] = IF l \in Purger THEN "closed" ELSE "ready"]
    /\ job' = [job EXCEPT ![l] = {}]

\* The rename that installs the sidecar.  Another handle on it follows it.
RenameTmp(l) ==
    /\ pc[l] = "rename"
    /\ disk["tmp"].there
    /\ disk' = [disk EXCEPT !["log"] = disk["tmp"], !["tmp"] = NoFile]
    /\ fd' = [k \in Log |-> IF k # l /\ fd[k] = "tmp" THEN "log" ELSE NoFd]
    /\ forgotten' = forgotten \cup job[l]
    /\ AfterRewrite(l)
    /\ UNCHANGED <<aged, mem, recorded, faults, tears>>

\* A rewrite fails: memory keeps what was changed in it.  A rename fails by
\* itself when another DiskLog has renamed the sidecar.
RewriteFails(l) ==
    LET renamed == pc[l] = "rename" /\ ~disk["tmp"].there
    IN  /\ pc[l] \in {"write", "rename"}
        /\ renamed \/ faults < MaxFaults
        /\ faults' = IF renamed THEN faults ELSE faults + 1
        /\ fd' = [fd EXCEPT ![l] = NoFd]
        /\ AfterRewrite(l)
        /\ UNCHANGED <<disk, aged, mem, recorded, forgotten, tears>>

-----------------------------------------------------------------------------
\* Loading, and the operations.

\* Mutant of Restatus: a new status is added beside the entry's old one.
RestatusBeside(l, ids, status) ==
    /\ mem' = [mem EXCEPT ![l] = @ \cup [id : ids, status : {status}]]
    /\ pc' = [pc EXCEPT ![l] = "write"]
    /\ OpenTmp(l)

\* The statuses of the entries in ids become status in l's memory, and the
\* rewrite begins.
Restatus(l, ids, status) ==
    /\ mem' = [mem EXCEPT ![l] =
                 {r \in @ : r.id \notin ids}
                    \cup [id : ids, status : {status}]]
    /\ pc' = [pc EXCEPT ![l] = "write"]
    /\ OpenTmp(l)

\* expire_in_place
Stale(recs) == {r.id : r \in {q \in recs : q.status = "pending" /\ q.id \in aged}}

\* DiskLog::load.  A session's is followed by expire_stale.
Load(l) ==
    /\ pc[l] = "closed"
    /\ mem' = [mem EXCEPT ![l] = load_entries(disk["log"])]
    /\ pc' = [pc EXCEPT ![l] = IF l \in App THEN "sweep" ELSE "ready"]
    /\ UNCHANGED <<disk, aged, fd, job, recorded, forgotten, faults, tears>>

expire_stale(l) ==
    /\ pc[l] = "sweep"
    /\ IF Stale(mem[l]) = {}
       THEN pc' = [pc EXCEPT ![l] = "ready"] /\ UNCHANGED <<disk, mem, fd>>
       ELSE Restatus(l, Stale(mem[l]), "expired")
    /\ UNCHANGED <<aged, job, recorded, forgotten, faults, tears>>

\* mark_applied: an undo was applied, or the write it would undo failed.
mark_applied(l, e, status) ==
    /\ pc[l] = "ready" /\ l \in App
    /\ e \in Ids(mem[l])
    /\ Restatus(l, {e}, status)
    /\ UNCHANGED <<aged, job, recorded, forgotten, faults, tears>>

\* forget_tenant of the tenant's entries.
forget_tenant(l) ==
    /\ pc[l] = "ready" /\ l \in Purger
    /\ mem' = [mem EXCEPT ![l] = {r \in @ : r.id \notin Purged}]
    /\ job' = [job EXCEPT ![l] = Purged \cap Ids(mem[l])]
    /\ IF job'[l] = {}
       THEN pc' = [pc EXCEPT ![l] = "closed"] /\ UNCHANGED <<disk, fd>>
       ELSE pc' = [pc EXCEPT ![l] = "write"] /\ OpenTmp(l)
    /\ UNCHANGED <<aged, recorded, forgotten, faults, tears>>

\* The ids that have been used.
Seen ==
    recorded \cup forgotten \cup UNION {job[k] \cup Ids(mem[k]) : k \in Log}
        \cup UNION {Ids(line) : line \in disk["log"].lines \cup {disk["log"].last}}

\* append_entry, the line: `writeln!` on a File is a write of the line and
\* one of the newline.  An entry's id is new.
append_entry(l, e) ==
    /\ pc[l] = "ready" /\ l \notin Purger
    /\ e \notin Seen
    /\ disk' = [disk EXCEPT !["log"].there = TRUE,
                            !["log"].last = @ \cup {[id |-> e, status |-> "pending"]}]
    /\ fd' = [fd EXCEPT ![l] = "log"]
    /\ job' = [job EXCEPT ![l] = {e}]
    /\ pc' = [pc EXCEPT ![l] = "newline"]
    /\ UNCHANGED <<aged, mem, recorded, forgotten, faults, tears>>

\* append_entry, the newline, in the file that was opened, and the rest of
\* record: the entry joins memory.
Newline(l) ==
    /\ pc[l] = "newline"
    /\ disk' = IF fd[l] = NoFd THEN disk
               ELSE [disk EXCEPT !["log"].lines = @ \cup {disk["log"].last},
                                 !["log"].last = {}]
    /\ mem' = [mem EXCEPT ![l] = @ \cup [id : job[l], status : {"pending"}]]
    /\ recorded' = recorded \cup job[l]
    /\ fd' = [fd EXCEPT ![l] = NoFd]
    /\ job' = [job EXCEPT ![l] = {}]
    /\ pc' = [pc EXCEPT ![l] = "ready"]
    /\ UNCHANGED <<aged, forgotten, faults, tears>>

\* The session or command is over, or dies; its memory goes with it.
Gone(l) ==
    /\ pc' = [pc EXCEPT ![l] = "closed"]
    /\ mem' = [mem EXCEPT ![l] = {}]
    /\ fd' = [fd EXCEPT ![l] = NoFd]
    /\ job' = [job EXCEPT ![l] = {}]
    /\ UNCHANGED <<disk, aged, recorded, forgotten>>

Close(l) ==
    /\ pc[l] = "ready"
    /\ Gone(l)
    /\ UNCHANGED <<faults, tears>>

Kill(l) ==
    /\ pc[l] \in {"sweep", "write", "rename"}
    /\ faults < MaxFaults
    /\ faults' = faults + 1
    /\ Gone(l)
    /\ UNCHANGED tears

\* Killed, or out of disk space, between a line and its newline.
Tear(l) ==
    /\ pc[l] = "newline"
    /\ tears < MaxTears
    /\ tears' = tears + 1
    /\ Gone(l)
    /\ UNCHANGED faults

\* UNDO_TTL_SECS pass.
Age(e) ==
    /\ e \in recorded \ aged
    /\ aged' = aged \cup {e}
    /\ UNCHANGED <<disk, pc, mem, fd, job, recorded, forgotten, faults, tears>>

\* The history of a step: whoever takes one changes pc.  Rewriting is by name:
\* a rename installs the memory it was begun from.
Notes ==
    LET changed == {r.id : r \in {q \in Rec :
                      q \in load_entries(disk["log"]) <=> q \notin load_entries(disk["log"])'}}
        joined == UNION {Ids(line) : line \in {k \in disk'["log"].lines \cup {disk'["log"].last} :
                                                  Cardinality(k) > 1}}
        taking == {l \in Log : pc'[l] # pc[l]}
        renaming == {l \in taking : pc[l] = "rename" /\ disk' # disk}
    IN  /\ behind' = [l \in Log |-> IF "closed" \in {pc[l], pc'[l]} THEN {}
                                     ELSE IF l \in taking THEN behind[l]
                                     ELSE behind[l] \cup changed]
        /\ undone' = undone \cup joined \cup UNION {behind[l] : l \in renaming}
        /\ crossed' = (crossed \/ Cardinality({l \in Log : pc'[l] \in {"write", "rename"}}) > 1)

Step ==
    \/ \E l \in Log :
          \/ Load(l) \/ expire_stale(l) \/ forget_tenant(l)
          \/ WriteTmp(l) \/ RenameTmp(l) \/ RewriteFails(l)
          \/ Newline(l) \/ Close(l) \/ Kill(l) \/ Tear(l)
          \/ \E e \in Entry : append_entry(l, e)
          \/ \E e \in Entry, status \in {"applied", "expired"} :
                mark_applied(l, e, status)
    \/ \E e \in Entry : Age(e)

Next == Step /\ Notes

Spec == Init /\ [][Next]_vars

-----------------------------------------------------------------------------
(* Properties. *)

\* Types of the variables.
TypeOK ==
    /\ disk \in [{"log", "tmp"} -> Content]
    /\ aged \subseteq Entry
    /\ pc \in [Log -> {"closed", "sweep", "ready", "newline", "write", "rename"}]
    /\ mem \in [Log -> SUBSET Rec]
    /\ fd \in [Log -> {"log", "tmp", NoFd}]
    /\ job \in [Log -> SUBSET Entry]
    /\ recorded \subseteq Entry /\ forgotten \subseteq Entry
    /\ faults \in 0..MaxFaults /\ tears \in 0..MaxTears
    /\ behind \in [Log -> SUBSET Entry] /\ undone \subseteq Entry /\ crossed \in BOOLEAN

\* Every entry whose record succeeded can be loaded from undo.log, whatever
\* marks, sweeps, purges of another tenant, interrupted rewrites and interrupted
\* appends came since, unless its own tenant was purged.  The code promises no
\* more than this of it: two rewrites did not overlap (they share the sidecar),
\* nobody rewrote the file from a memory that was older than the entry, and its
\* line was not joined to another's, whose newline was late or never came.
RecordedKept ==
    ~crossed => (recorded \ forgotten) \ undone \subseteq Ids(load_entries(disk["log"]))

\* A step leaves no settled entry pending.
KeepsSettled ==
    ~crossed =>
    \A r \in load_entries(disk["log"]), q \in load_entries(disk["log"])' :
          r.id = q.id /\ r.status # "pending" /\ r.id \notin undone' => q.status # "pending"

\* An entry that undo.log holds as applied or expired is never pending in it
\* again: no later session offers to undo the same write a second time.  Only a
\* rewrite from a memory that is older than its settling, or two rewrites at
\* once, can bring it back.
SettledStays == [][KeepsSettled]_vars

\* An entry that forget_tenant dropped does not come back into undo.log, unless
\* it is rewritten from a memory that is older than the purge, or while another
\* rewrite is under way.
ForgottenStays == ~crossed => (forgotten \ undone) \cap Ids(load_entries(disk["log"])) = {}
=============================================================================
