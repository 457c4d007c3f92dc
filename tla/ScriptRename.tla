---------------------------- MODULE ScriptRename ----------------------------
(* `aic script rename` (scripts/sync.rs): the tenant takes the new name       *)
(* first, then the workspace is moved in steps.  A run that stops anywhere is *)
(* finished by the same command, which recognises the tracked id under the    *)
(* new name.  An editor saves either file, other operators write the tenant.  *)
EXTENDS Naturals

CONSTANTS
    Vals,          \* sources of the script
    Absent,        \* no file, no snapshot, no script
    Torn,          \* what a write that was cut short leaves
    MaxEdits,      \* saves and removals by the editor
    MaxOthers,     \* writes of other operators
    MaxFailures    \* requests that fail, refusals of the gate, kills

RenameAssumption ==
    /\ Absent \notin Vals /\ Torn \notin Vals /\ Absent # Torn
    /\ {MaxEdits, MaxOthers, MaxFailures} \subseteq Nat

Paths == {"old", "new"}

VARIABLES
    alias,      \* both names are one file on this file system
    name, src,  \* the tracked script on the tenant: its name, its source
    taken,      \* names that other scripts of the tenant have
    file, snap, \* workspace file and snapshot of each name
    entry,      \* names in the manifest, all with the script's id
    cmd,        \* the running rename
    gone,       \* names whose file the editor removed (history)
    edits, others, failures    \* counters

vars == <<alias, name, src, taken, file, snap, entry, cmd, gone, edits, others, failures>>
tenant == <<name, src, taken>>
tree == <<file, snap, entry>>
counters == <<edits, others, failures>>

Idle == [pc |-> "idle", resuming |-> FALSE, remote |-> Absent, expected |-> Absent,
         fileAliased |-> FALSE, snapAliased |-> FALSE]

\* The names that a write to n's path reaches.
SamePath(n) == IF alias THEN Paths ELSE {n}
Written(f, n, c) == [m \in Paths |-> IF m \in SamePath(n) THEN c ELSE f[m]]

Init ==
    /\ alias \in BOOLEAN /\ name = "old" /\ src \in Vals /\ taken = {}
    /\ file \in {Written([m \in Paths |-> Absent], "old", c) : c \in {src, Absent}}
    \* a forget that was cut short leaves an entry without its snapshot
    /\ snap \in {Written([m \in Paths |-> Absent], "old", c) : c \in {src, Absent}}
    /\ entry = {"old"} /\ cmd = Idle /\ gone = {}
    /\ edits = 0 /\ others = 0 /\ failures = 0

Listed == ({name} \intersect Paths) \union taken
Go(pc) == cmd' = [cmd EXCEPT !.pc = pc]
End == cmd' = Idle
Fails == failures < MaxFailures /\ failures' = failures + 1

-----------------------------------------------------------------------------
(* The command *)

\* rename_resumes
Resumes == "old" \notin Listed /\ name = "new"

DestinationFree == file["new"] = Absent /\ snap["new"] = Absent

\* rename, up to the fetch: one id is tracked under the old name, or under the
\* new one when a rename is to be finished; the listing tells which.
List ==
    /\ cmd = Idle /\ entry # {}
    /\ \/ Resumes /\ cmd' = [Idle EXCEPT !.pc = "fetch", !.resuming = TRUE]
       \/ /\ ~Resumes /\ entry = {"old"} /\ name = "old" /\ "new" \notin Listed /\ DestinationFree
          /\ cmd' = [Idle EXCEPT !.pc = "fetch"]
    /\ UNCHANGED <<alias, tenant, tree, gone, counters>>

\* resume_paths_independent
Independent == alias => file["new"] = Absent /\ snap["new"] = Absent

\* Mutant of Preflight: the new path must be free, as in a first attempt.
PreflightFresh == Independent /\ file["old"] \in {Absent, src} /\ file["new"] = Absent

\* resume_preflight, rename_resume_ok
Preflight == Independent /\ \A n \in Paths : file[n] \in {Absent, src}

\* rename_ok
InSync == file["old"] = src /\ snap["old"] = src

Fetch ==
    /\ cmd.pc = "fetch"
    /\ cmd' = IF name = Absent \/ ~(IF cmd.resuming THEN Preflight ELSE InSync) THEN Idle
              ELSE [cmd EXCEPT !.remote = src, !.expected = IF cmd.resuming THEN file["new"] ELSE Absent,
                               !.pc = IF cmd.resuming THEN "confirm" ELSE "put"]
    /\ UNCHANGED <<alias, tenant, tree, gone, counters>>

\* write_checked of the script's own config under the new name.
Put ==
    /\ cmd.pc = "put" /\ Go("confirm")
    /\ name' = "new" /\ src' = cmd.remote
    /\ UNCHANGED <<alias, taken, tree, gone, counters>>

Confirm ==
    /\ cmd.pc = "confirm"
    /\ IF name = "new" /\ src = cmd.remote THEN Go("install") ELSE End
    /\ UNCHANGED <<alias, tenant, tree, gone, counters>>

\* The second destination_free, then the file of install_remote.
Installable == (cmd.resuming \/ DestinationFree) /\ file["new"] = cmd.expected

Install ==
    /\ cmd.pc = "install"
    /\ IF Installable THEN file' = Written(file, "new", cmd.remote) /\ Go("snap") ELSE End /\ UNCHANGED file
    /\ UNCHANGED <<alias, tenant, snap, entry, gone, counters>>

RecordSnap ==
    /\ cmd.pc = "snap" /\ Go("entry")
    /\ snap' = Written(snap, "new", cmd.remote)
    /\ UNCHANGED <<alias, tenant, file, entry, gone, counters>>

RecordEntry ==
    /\ cmd.pc = "entry" /\ Go("same")
    /\ entry' = entry \union {"new"}
    /\ UNCHANGED <<alias, tenant, file, snap, gone, counters>>

\* Mutant of SameFile: what the preflight found is taken to hold still.
SameFileBefore ==
    /\ cmd.pc = "same" /\ Go("forget")
    /\ UNCHANGED <<alias, tenant, tree, gone, counters>>

\* same_file, now that the new paths exist.
SameFile ==
    /\ cmd.pc = "same"
    /\ cmd' = [cmd EXCEPT !.pc = "forget", !.fileAliased = alias /\ file["new"] # Absent,
                          !.snapAliased = alias /\ snap["new"] # Absent]
    /\ UNCHANGED <<alias, tenant, tree, gone, counters>>

\* remove_with: the old snapshot, then the old entry.
ForgetSnap ==
    /\ cmd.pc = "forget" /\ Go("unlist")
    /\ snap' = IF "old" \in entry /\ ~cmd.snapAliased THEN Written(snap, "old", Absent) ELSE snap
    /\ UNCHANGED <<alias, tenant, file, entry, gone, counters>>

ForgetEntry ==
    /\ cmd.pc = "unlist" /\ Go("unlink")
    /\ entry' = entry \ {"old"}
    /\ UNCHANGED <<alias, tenant, file, snap, gone, counters>>

\* Mutant of Unlink: the old file goes with its name.
UnlinkAlways ==
    /\ cmd.pc = "unlink" /\ End
    /\ file' = IF cmd.fileAliased THEN file ELSE Written(file, "old", Absent)
    /\ UNCHANGED <<alias, tenant, snap, entry, gone, counters>>

\* The old file is removed only if it still holds the renamed source; its
\* removal may fail.
Unlink ==
    /\ cmd.pc = "unlink" /\ End
    /\ file' \in IF cmd.fileAliased \/ file["old"] # cmd.remote THEN {file} ELSE {file, Written(file, "old", Absent)}
    /\ UNCHANGED <<alias, tenant, snap, entry, gone, counters>>

-----------------------------------------------------------------------------
(* Failures, the editor, the operator and others *)

\* A request fails or the gate refuses; a write that failed may have landed.
Fail ==
    /\ cmd.pc \in {"fetch", "put", "confirm"} /\ Fails /\ End
    /\ \/ UNCHANGED <<name, src>>
       \/ cmd.pc = "put" /\ name' = "new" /\ src' = cmd.remote
    /\ UNCHANGED <<alias, taken, tree, gone, edits, others>>

\* The command stops: killed, or a full disk cuts a write short.
Stop ==
    /\ cmd.pc # "idle" /\ Fails /\ End
    /\ \/ UNCHANGED <<file, snap>>
       \/ cmd.pc = "install" /\ Installable /\ file["new"] # cmd.remote
            /\ file' = Written(file, "new", Torn) /\ UNCHANGED snap
       \/ cmd.pc = "snap" /\ snap' = Written(snap, "new", Torn) /\ UNCHANGED file
    /\ UNCHANGED <<alias, tenant, entry, gone, edits, others>>

\* The editor saves the file of a name, or removes it.
Edit(n) ==
    /\ edits < MaxEdits /\ edits' = edits + 1
    /\ \E c \in (Vals \union {Absent}) \ {file[n]} :
         /\ file' = Written(file, n, c)
         /\ gone' = IF c = Absent THEN gone \union SamePath(n) ELSE gone
    /\ UNCHANGED <<alias, tenant, snap, entry, cmd, others, failures>>

\* The operator does what a refused rename says: a cut-short new file goes.
Tidy ==
    /\ cmd = Idle /\ file["new"] = Torn
    /\ file' = Written(file, "new", Absent) /\ gone' = gone \union SamePath("new")
    /\ UNCHANGED <<alias, tenant, snap, entry, cmd, counters>>

\* Others edit, rename or delete the script, or take one of the names.
Other ==
    /\ others < MaxOthers /\ others' = others + 1
    /\ \/ name # Absent /\ src' \in Vals \ {src} /\ UNCHANGED <<name, taken>>
       \/ name' \in ((Paths \union {Absent}) \ taken) \ {name} /\ name # Absent /\ UNCHANGED <<src, taken>>
       \/ \E n \in Paths \ Listed : taken' = taken \union {n} /\ UNCHANGED <<name, src>>
    /\ UNCHANGED <<alias, tree, cmd, gone, edits, failures>>

Step ==
    \/ Fetch \/ Put \/ Confirm \/ Install \/ RecordSnap \/ RecordEntry \/ SameFile
    \/ ForgetSnap \/ ForgetEntry \/ Unlink

Next == List \/ Step \/ Fail \/ Stop \/ (\E n \in Paths : Edit(n)) \/ Tidy \/ Other

Spec == Init /\ [][Next]_vars

\* A command runs on, and the operator repeats it and does what it says.
FairSpec == Spec /\ WF_vars(Step) /\ SF_vars(List) /\ SF_vars(Tidy)

-----------------------------------------------------------------------------
(* Properties *)

Contents == Vals \union {Absent, Torn}

TypeOK ==
    /\ name \in Paths \union {Absent} /\ src \in Vals /\ taken \subseteq Paths
    /\ {file, snap} \subseteq [Paths -> Contents] /\ entry \subseteq Paths
    /\ cmd.pc \notin {"idle", "fetch"} => cmd.remote \in Vals

\* Wherever a rename stops, the script is tracked under a name, and the new
\* name is tracked only with its snapshot and the file it was installed with,
\* unless the editor removed that.
NewNameComplete ==
    /\ entry # {}
    /\ "new" \in entry => snap["new"] # Absent /\ (file["new"] # Absent \/ "new" \in gone)

\* The only source that a step of the command removes is the renamed one.
UnlinksRenamed ==
    \A n \in Paths : cmd'.pc # cmd.pc /\ file'[n] # file[n] /\ file[n] \in Vals =>
         file[n] = cmd.remote /\ cmd.pc = "unlink"

\* A rename takes a source out of a workspace file only if the tenant confirmed
\* that very source under the new name: what the editor saved stays.
OnlyRenamedLeaves == [][UnlinksRenamed]_vars

\* What stands in the way of finishing a rename that the tenant took.
Blocked == "old" \in taken \/ alias \/ \E n \in Paths : file[n] \notin {Absent, Torn, src}

Finished == name = "new" => entry = {"new"} \/ Blocked

\* A rename that the tenant took is finished by repeating it.
RenameFinishes == <>[]Finished
=============================================================================
