----------------------------- MODULE ScriptSync -----------------------------
(* The script sync engine (scripts/sync.rs, gate.rs, cli.rs) on one script:  *)
(* the tenant's copy, the workspace file, the snapshot it was last synced    *)
(* with and the manifest entry.  Commands read, ask, write and record one    *)
(* step at a time; an editor saves the file, other operators write the       *)
(* tenant, requests fail and commands are killed between any two steps.      *)
EXTENDS Naturals

CONSTANTS
    Vals,          \* sources of the script
    Absent,        \* no file, no script, no snapshot
    Torn,          \* what a write that was cut short leaves
    Procs,         \* commands that may run at the same time
    Ops,           \* the commands operators use
    MaxEdits,      \* saves of the editor
    MaxOthers,     \* writes of other operators
    MaxFailures    \* requests that fail, refusals of the gate, kills

SyncAssumption ==
    /\ Absent \notin Vals /\ Torn \notin Vals /\ Absent # Torn
    /\ {MaxEdits, MaxOthers, MaxFailures} \subseteq Nat

VARIABLES
    remote,     \* the script on the tenant
    local,      \* the workspace file
    snap,       \* the snapshot file
    entry,      \* the script is in the manifest
    backups,    \* sources that were backed up
    procs,      \* the running commands
    base,       \* the tenant's sources that went into the file (history)
    crossed,    \* a command installed or recorded while another was at work
                \* (history)
    edits, others, failures    \* counters

vars == <<remote, local, snap, entry, backups, procs, base, crossed, edits, others, failures>>
tree == <<local, snap, entry, backups>>
counters == <<edits, others, failures>>

Idle == [op |-> "none", pc |-> "idle", force |-> FALSE, skip |-> FALSE, agreed |-> FALSE, any |-> TRUE,
         snap |-> Absent, local |-> Absent, base |-> {}, remote |-> Absent]

Init ==
    /\ remote \in Vals
    /\ \/ local = remote /\ snap = remote /\ entry = TRUE /\ base = {remote}
       \/ local \in Vals \union {Absent} /\ snap = Absent /\ entry = FALSE /\ base = {}
    /\ backups = {} /\ procs = [p \in Procs |-> Idle]
    /\ crossed = FALSE /\ edits = 0 /\ others = 0 /\ failures = 0

Fails == failures < MaxFailures /\ failures' = failures + 1
Set(p, r) == procs' = [procs EXCEPT ![p] = r]
Go(p, pc) == Set(p, [procs[p] EXCEPT !.pc = pc])
End(p) == Set(p, Idle)

-----------------------------------------------------------------------------
(* Starting a command: what it reads before its first request *)

Baseline == entry /\ snap # Absent /\ snap # Torn

\* push: needs a baseline and a file, and a change unless forced.
StartPush(p, force) ==
    /\ Baseline /\ local # Absent /\ (local # snap \/ force)
    /\ Set(p, [Idle EXCEPT !.op = "push", !.pc = "fetch", !.force = force, !.snap = snap, !.local = local, !.base = base])

\* reconcile reads the file after its fetch.
StartSync(p) == Baseline /\ Set(p, [Idle EXCEPT !.op = "sync", !.pc = "fetch", !.snap = snap])

\* pull: with or without --force and --force=backup.
StartPull(p, force, skip) ==
    Set(p, [Idle EXCEPT !.op = "pull", !.pc = "fetch", !.force = force, !.skip = skip, !.any = FALSE])

\* sync::pull and --resolve remote: no preflight, always a backup.
StartTake(p) == Set(p, [Idle EXCEPT !.op = "take", !.pc = "fetch"])

\* recreate_missing needs the file it creates the script from.
StartRecreate(p) ==
    /\ Baseline /\ local # Absent
    /\ Set(p, [Idle EXCEPT !.op = "recreate", !.pc = "fetch", !.snap = snap, !.local = local, !.base = base])

\* forget reads nothing; with --remove-local it needs a readable snapshot to
\* compare the file with.
StartForget(p, remove) ==
    /\ remove => snap # Torn
    /\ Set(p, [Idle EXCEPT !.op = IF remove THEN "remove" ELSE "forget", !.pc = "forget",
                           !.snap = IF entry THEN snap ELSE Absent])

\* create, and the watch that adopts what it does not track.
StartCreate(p) ==
    /\ ~Baseline /\ local # Absent
    /\ Set(p, [Idle EXCEPT !.op = "create", !.pc = "fetch", !.local = local, !.base = base])

StartDelete(p) == Set(p, [Idle EXCEPT !.op = "delete", !.pc = "put"])

Start(p, op) ==
    /\ procs[p] = Idle
    /\ CASE op = "push" -> \E force \in BOOLEAN : StartPush(p, force)
         [] op = "sync" -> StartSync(p)
         [] op = "pull" -> \E force, skip \in BOOLEAN : StartPull(p, force, skip)
         [] op = "take" -> StartTake(p)
         [] op = "forget" -> \E remove \in BOOLEAN : StartForget(p, remove)
         [] op = "create" -> StartCreate(p)
         [] op = "delete" -> StartDelete(p)
    /\ UNCHANGED <<tree, remote, base, counters>>

-----------------------------------------------------------------------------
(* The fetch, and what is decided from it *)

\* Mutant of PushFetch: a drifted tenant is not a conflict.
PushFetchBlind(p) == Set(p, [procs[p] EXCEPT !.remote = remote, !.pc = "put"])

\* push_with
PushFetch(p) ==
    LET r == procs[p] IN
    Set(p, IF remote = Absent THEN Idle
           ELSE [r EXCEPT !.remote = remote,
                          !.pc = IF remote = r.local THEN "snap"
                                 ELSE IF remote # r.snap /\ ~r.force THEN "conflict" ELSE "put"])

\* Mutant of SyncFetch: the same change on both sides is left unrecorded.
SyncFetchSilent(p) ==
    LET r == [procs[p] EXCEPT !.remote = remote, !.local = local, !.base = base] IN
    Set(p, CASE remote = Absent -> [r EXCEPT !.pc = "missing"]
             [] remote # Absent /\ local \in {Absent, r.snap} -> [r EXCEPT !.pc = "install"]
             [] local \notin {Absent, r.snap} /\ remote = r.snap -> [r EXCEPT !.pc = "put"]
             [] OTHER -> IF local = remote THEN Idle ELSE [r EXCEPT !.pc = "conflict"])

\* reconcile_with
SyncFetch(p) ==
    LET r == [procs[p] EXCEPT !.remote = remote, !.local = local, !.base = base] IN
    Set(p, CASE remote = Absent -> [r EXCEPT !.pc = "missing"]
             [] remote # Absent /\ local = Absent -> [r EXCEPT !.pc = "install"]
             [] remote # Absent /\ local = r.snap /\ remote = r.snap -> Idle
             [] remote # Absent /\ local = r.snap /\ remote # r.snap -> [r EXCEPT !.pc = "install"]
             [] local \notin {Absent, r.snap} /\ remote = r.snap -> [r EXCEPT !.pc = "put"]
             [] OTHER -> [r EXCEPT !.pc = IF local = remote THEN "snap" ELSE "conflict"])

\* prepare_pull: an edit that neither the tenant nor the snapshot holds is protected.
PullFetch(p) ==
    LET r == [procs[p] EXCEPT !.remote = remote, !.local = local, !.snap = IF snap = Torn THEN Absent ELSE snap, !.base = base]
        protected == local \notin {Absent, remote, r.snap} IN
    Set(p, IF remote = Absent THEN Idle
           ELSE [r EXCEPT !.pc = IF protected /\ ~r.force THEN "consent" ELSE "install", !.agreed = protected /\ r.force])

TakeFetch(p) == Set(p, IF remote = Absent THEN Idle ELSE [procs[p] EXCEPT !.remote = remote, !.base = base, !.pc = "install"])

\* recreate_missing: only what is still missing.
RecreateFetch(p) == Set(p, IF remote # Absent THEN Idle ELSE [procs[p] EXCEPT !.pc = "put"])

\* create, then fetch_for_adoption when the name is taken.
CreateFetch(p) ==
    LET r == procs[p] IN
    Set(p, IF remote = Absent THEN [r EXCEPT !.pc = "put"]
           ELSE [r EXCEPT !.remote = remote, !.pc = IF local = remote THEN "adopt" ELSE "conflict"])

\* A file that holds what was fetched is forked from it, unless another
\* command has installed something since the file was read.
Agrees(r) == r.pc = "snap" /\ r.base = base

Fetch(p) ==
    /\ procs[p].pc = "fetch"
    /\ CASE procs[p].op = "push" -> PushFetch(p)
         [] procs[p].op = "sync" -> SyncFetch(p)
         [] procs[p].op = "pull" -> PullFetch(p)
         [] procs[p].op = "take" -> TakeFetch(p)
         [] procs[p].op = "recreate" -> RecreateFetch(p)
         [] procs[p].op = "create" -> CreateFetch(p)
    /\ base' = IF Agrees(procs'[p]) THEN base \union {remote} ELSE base
    /\ UNCHANGED <<tree, remote, counters>>

\* A protected pull asks before it installs.
Consent(p, yes) ==
    /\ procs[p].pc = "consent"
    /\ IF yes THEN Set(p, [procs[p] EXCEPT !.pc = "install", !.agreed = TRUE]) ELSE End(p)
    /\ UNCHANGED <<tree, remote, base, counters>>

\* A conflict is skipped, or resolved: the local side by a forced push (or by
\* adopting what was fetched), the remote side by a pull.
Resolve(p, side) ==
    /\ procs[p].pc = "conflict" /\ (side = "remote" => procs[p].op # "push")
    /\ CASE side = "skip" -> End(p)
         [] side = "remote" -> StartTake(p)
         [] side = "local" -> IF procs[p].op = "create" THEN Go(p, "adopt") ELSE StartPush(p, TRUE)
    /\ UNCHANGED <<tree, remote, base, counters>>

\* A script the tenant no longer has is created again, forgotten or skipped.
Missing(p, side) ==
    /\ procs[p].pc = "missing"
    /\ CASE side = "skip" -> End(p)
         [] side = "recreate" -> StartRecreate(p)
         [] side = "forget" -> \E remove \in BOOLEAN : StartForget(p, remove)
    /\ UNCHANGED <<tree, remote, base, counters>>

-----------------------------------------------------------------------------
(* Writing the tenant, and recording what it was read back as *)

\* write_checked, once the gate has let it through; a delete removes.
Put(p) ==
    LET r == procs[p] IN
    /\ r.pc = "put"
    /\ remote' = r.local
    /\ base' = IF r.op = "delete" THEN base ELSE r.base \union {r.local}
    /\ CASE r.op = "delete" -> Set(p, [r EXCEPT !.pc = "forget"])
         [] r.op = "create" -> StartTake(p)
         [] OTHER -> Go(p, "confirm")
    /\ UNCHANGED <<tree, counters>>

\* confirm_write: only a read that shows what was sent is recorded.
Confirm(p) ==
    /\ procs[p].pc = "confirm"
    /\ IF remote = procs[p].local THEN Set(p, [procs[p] EXCEPT !.remote = remote, !.pc = "snap"]) ELSE End(p)
    /\ UNCHANGED <<tree, remote, base, counters>>

\* adopt: the tenant's copy is saved and becomes the baseline.
Adopt(p) ==
    /\ procs[p].pc = "adopt"
    /\ backups' = backups \union {procs[p].remote} /\ base' = base \union {procs[p].remote}
    /\ Go(p, "snap")
    /\ UNCHANGED <<local, snap, entry, remote, counters>>

\* record: the snapshot, then the manifest.
RecordSnap(p) ==
    /\ procs[p].pc = "snap"
    /\ snap' = procs[p].remote /\ Go(p, "entry")
    /\ UNCHANGED <<local, entry, backups, remote, base, counters>>

RecordEntry(p) ==
    /\ procs[p].pc = "entry"
    /\ entry' = TRUE /\ End(p)
    /\ UNCHANGED <<local, snap, backups, remote, base, counters>>

\* What an install backs up: any source it replaces by another.
BackedUp(r) == IF local \notin {Absent, r.remote} /\ ~r.skip THEN backups \union {local} ELSE backups

\* Mutant of Install: the file is not compared with the plan again.
InstallUnchecked(p) ==
    LET r == procs[p] IN
    /\ r.pc = "install"
    /\ backups' = BackedUp(r) /\ local' = r.remote /\ base' = r.base \union {r.remote} /\ Go(p, "snap")
    /\ UNCHANGED <<snap, entry, remote, counters>>

\* install_remote: a pull's plan must still describe the file.
Install(p) ==
    LET r == procs[p] IN
    /\ r.pc = "install"
    /\ IF r.any \/ local = r.local
         THEN backups' = BackedUp(r) /\ local' = r.remote /\ base' = r.base \union {r.remote} /\ Go(p, "snap")
         ELSE End(p) /\ UNCHANGED <<backups, local, base>>
    /\ UNCHANGED <<snap, entry, remote, counters>>

\* remove: the snapshot, then the manifest, then perhaps the file.
Forget(p) ==
    LET r == procs[p] IN
    /\ r.pc \in {"forget", "unlist"}
    /\ IF r.pc = "forget"
         THEN snap' = (IF entry THEN Absent ELSE snap) /\ Go(p, "unlist") /\ UNCHANGED entry
         ELSE entry' = FALSE /\ (IF r.op = "remove" THEN Go(p, "unlink") ELSE End(p)) /\ UNCHANGED snap
    /\ UNCHANGED <<local, backups, remote, base, counters>>

\* forget_removing_local: only a file that is still the last synced one.
Unlink(p) ==
    /\ procs[p].pc = "unlink"
    /\ local' = IF local = procs[p].snap THEN Absent ELSE local
    /\ End(p)
    /\ UNCHANGED <<snap, entry, backups, remote, base, counters>>

-----------------------------------------------------------------------------
(* Failures, the editor and other operators *)

\* A request fails or the gate refuses; a write that failed may have landed.
Fail(p) ==
    /\ procs[p].pc \in {"fetch", "put", "confirm"} /\ Fails /\ End(p)
    /\ \/ UNCHANGED <<remote, base>>
       \/ /\ procs[p].pc = "put" /\ remote' = procs[p].local
          /\ base' = IF procs[p].op = "delete" THEN base ELSE procs[p].base \union {procs[p].local}
    /\ UNCHANGED <<tree, edits, others>>

\* A command is killed; the file or the snapshot it was writing may be cut short.
Kill(p) ==
    LET r == procs[p] IN
    /\ r.pc # "idle" /\ Fails /\ End(p)
    /\ \/ UNCHANGED <<tree, base>>
       \/ r.pc = "snap" /\ snap' = Torn /\ UNCHANGED <<local, entry, backups, base>>
       \/ /\ r.pc = "install" /\ local # r.remote /\ (r.any \/ local = r.local)
          /\ backups' = BackedUp(r) /\ local' = Torn /\ base' = r.base \union {r.remote} /\ UNCHANGED <<snap, entry>>
    /\ UNCHANGED <<remote, edits, others>>

Edit ==
    /\ edits < MaxEdits /\ edits' = edits + 1
    /\ local' \in (Vals \union {Absent}) \ {local}
    /\ UNCHANGED <<snap, entry, backups, procs, remote, base, others, failures>>

Other ==
    /\ others < MaxOthers /\ others' = others + 1
    /\ remote' \in (Vals \union {Absent}) \ {remote}
    /\ UNCHANGED <<tree, procs, base, edits, failures>>

Answer(p) ==
    \/ \E yes \in BOOLEAN : Consent(p, yes)
    \/ \E side \in {"skip", "remote", "local"} : Resolve(p, side)
    \/ \E side \in {"skip", "recreate", "forget"} : Missing(p, side)

Step(p) ==
    \/ Fetch(p) \/ Put(p) \/ Confirm(p) \/ Adopt(p) \/ RecordSnap(p) \/ RecordEntry(p)
    \/ Install(p) \/ Forget(p) \/ Unlink(p)

\* No lock keeps two commands apart.
Crosses ==
    \E p, q \in Procs : p # q /\ procs[q] # Idle /\ procs'[p] # procs[p]
                        /\ procs[p].pc \in {"install", "adopt", "snap", "forget", "unlink"}

Next ==
    /\ \/ \E p \in Procs : (\E op \in Ops : Start(p, op)) \/ Step(p) \/ Answer(p) \/ Fail(p) \/ Kill(p)
       \/ Edit \/ Other
    /\ crossed' = (crossed \/ Crosses)

Spec == Init /\ [][Next]_vars

\* The operator answers what is asked with a decision.
Decides(p) ==
    \/ \E side \in {"remote", "local"} : Resolve(p, side)
    \/ \E side \in {"recreate", "forget"} : Missing(p, side)
    \/ Consent(p, TRUE)

PullsFirst(p) == ~Baseline /\ Start(p, "pull")

\* Commands run on, and the operator syncs again and again, pulling where
\* there is no baseline and resolving what is asked.
FairSpec ==
    /\ Spec
    /\ \A p \in Procs :
         /\ WF_vars(Step(p))
         /\ SF_vars(Start(p, "sync")) /\ SF_vars(PullsFirst(p))
         /\ SF_vars(Decides(p))

-----------------------------------------------------------------------------
(* Properties *)

Sources == Vals \union {Torn}

TypeOK ==
    /\ {remote, local, snap} \subseteq Sources \union {Absent} /\ entry \in BOOLEAN
    /\ backups \union base \subseteq Sources
    /\ \A p \in Procs : procs[p].pc \in {"put", "confirm"} /\ procs[p].op # "delete" => procs[p].local \in Sources

\* The source that a command's step replaces is kept, synced or given up.
KeepsEdit ==
    \A p \in Procs : procs'[p] # procs[p] /\ local' # local /\ local \in Vals =>
         \/ local \in backups' \union {procs[p].snap}
         \/ procs[p].skip /\ procs[p].agreed /\ local = procs[p].local

\* A command never takes a source out of the workspace file unless it has a
\* backup, is what the command knows as the last synced source, or the
\* operator agreed to lose just that source without a backup.
EditKept == [][KeepsEdit]_vars

\* What a write that was not forced replaces on the tenant is a source that had
\* gone into the file it sends, by an install, an adoption or a push, or one
\* that another operator wrote after the command had fetched: between the
\* comparison and the PUT the source is checked, and nothing is compared again
\* (gate.rs).  Nor is it said once two commands crossed, as no lock keeps them
\* from: the snapshot of one may then be of another source than the file the
\* other left, and a push takes the difference for its operator's edit.
OverwritesOnlyItsFork ==
    \A p \in Procs :
        LET r == procs[p] IN
        r.pc = "put" /\ r.op \in {"push", "sync"} /\ ~r.force /\ ~crossed
          /\ procs'[p] # r /\ remote' # remote =>
            remote \in r.base \/ remote # r.remote

InStep == entry => (remote = local /\ snap = local) \/ (remote = Absent /\ snap \notin Vals)

\* Once everyone stops and the operator goes on syncing, what is tracked is
\* the same on the tenant, in the workspace and in the snapshot; only a script
\* deleted on the tenant whose snapshot is lost or cut short stays as it is.
Converges == <>[]InStep
=============================================================================
