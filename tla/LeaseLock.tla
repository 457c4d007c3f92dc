----------------------------- MODULE LeaseLock -----------------------------
(* acquireLeaseLock (packages/rhino-local/src/aic/lease-lock.ts): the lock of *)
(* a file lease on one host is a directory with an owner file.  A waiter that *)
(* reads the pid of a dead process removes the directory and tries again.     *)
(* mkdir, the owner file, its contents and the two removals of a recursive rm *)
(* are separate steps of the file system.                                     *)
EXTENDS Naturals, FiniteSets

CONSTANTS
    Procs,       \* processes; one that is killed does not come back
    MaxKills

LockAssumption == IsFiniteSet(Procs) /\ MaxKills \in Nat

VARIABLES
    dir,      \* the lock directory
    pc,       \* where each process is in acquireLeaseLock and release
    then,     \* where it goes on after a removal
    kills     \* counter

vars == <<dir, pc, then, kills>>

\* No directory; a directory without an owner file; an empty owner file; an
\* owner file with a pid in it.
NoDir == [kind |-> "none"]
Bare == [kind |-> "bare"]
Empty(p) == [kind |-> "empty", by |-> p]
Owner(p) == [kind |-> "owner", by |-> p]
HasFile == dir.kind \in {"empty", "owner"}
OwnedBy(p) == dir = Owner(p)
Alive(p) == pc[p] # "dead"

Init == dir = NoDir /\ pc = [p \in Procs |-> "idle"] /\ then = [p \in Procs |-> "idle"] /\ kills = 0

Go(p, l) == pc' = [pc EXCEPT ![p] = l]
RemoveThen(p, l) == Go(p, "unlink") /\ then' = [then EXCEPT ![p] = l]

-----------------------------------------------------------------------------

Begin(p) == pc[p] = "idle" /\ Go(p, "mkdir") /\ UNCHANGED <<dir, then, kills>>

MakeDir(p) ==
    /\ pc[p] = "mkdir"
    /\ IF dir = NoDir THEN dir' = Bare /\ Go(p, "create") ELSE Go(p, "read") /\ UNCHANGED dir
    /\ UNCHANGED <<then, kills>>

\* Mutant of Reaps: an owner that does not answer is taken to be dead.
ReapsSilent == dir.kind = "owner"

\* Mutant of Reaps: the owner is taken to be alive.
ReapsNever == FALSE

\* The owner file names a process that is gone.
Reaps == dir.kind = "owner" /\ ~Alive(dir.by)

\* readJson of the owner: a file that is still empty does not parse and ends
\* the attempt; without a file, or with a live owner, the waiter waits.
ReadOwner(p) ==
    /\ pc[p] = "read" /\ UNCHANGED <<dir, kills>>
    /\ IF Reaps THEN RemoveThen(p, "mkdir")
       ELSE Go(p, IF dir.kind = "empty" THEN "idle" ELSE "wait") /\ UNCHANGED then

\* The delay, or the end of the 120 s.
Wait(p) == pc[p] = "wait" /\ (Go(p, "mkdir") \/ Go(p, "idle")) /\ UNCHANGED <<dir, then, kills>>

\* writeFile with flag wx creates the file in the directory that is there now.
CreateFile(p) ==
    /\ pc[p] = "create"
    /\ IF dir = Bare THEN dir' = Empty(p) /\ Go(p, "write") /\ UNCHANGED then
                     ELSE RemoveThen(p, "idle") /\ UNCHANGED dir
    /\ UNCHANGED kills

\* The contents reach the path only while the file is still there.
WriteFile(p) ==
    /\ pc[p] = "write" /\ Go(p, "held")
    /\ dir' = IF dir = Empty(p) THEN Owner(p) ELSE dir
    /\ UNCHANGED <<then, kills>>

\* release: only while the owner file has this lease's token.
Release(p) ==
    /\ pc[p] = "held" /\ UNCHANGED <<dir, kills>>
    /\ IF OwnedBy(p) THEN RemoveThen(p, "idle") ELSE Go(p, "idle") /\ UNCHANGED then

\* rm -rf: the owner file, then the directory, which must be empty by then.
Unlink(p) ==
    /\ pc[p] = "unlink"
    /\ IF dir = NoDir THEN Go(p, then[p]) /\ UNCHANGED dir
       ELSE Go(p, "rmdir") /\ dir' = Bare
    /\ UNCHANGED <<then, kills>>

RemoveDir(p) ==
    /\ pc[p] = "rmdir" /\ UNCHANGED <<then, kills>>
    /\ IF HasFile THEN Go(p, "idle") /\ UNCHANGED dir ELSE dir' = NoDir /\ Go(p, then[p])

Kill(p) == Alive(p) /\ kills < MaxKills /\ kills' = kills + 1 /\ Go(p, "dead") /\ UNCHANGED <<dir, then>>

Step(p) ==
    \/ MakeDir(p) \/ ReadOwner(p) \/ Wait(p) \/ CreateFile(p) \/ WriteFile(p)
    \/ Release(p) \/ Unlink(p) \/ RemoveDir(p)

Next == \E p \in Procs : Begin(p) \/ Step(p) \/ Kill(p)

Spec == Init /\ [][Next]_vars

\* A live process goes on, closes its lease and opens another.
FairSpec == Spec /\ \A p \in Procs : WF_vars(Begin(p) \/ Step(p))

-----------------------------------------------------------------------------
(* Properties *)

\* Types; a process that writes its owner file is the one that created it,
\* unless the file has been removed under it.
TypeOK ==
    /\ dir \in {NoDir, Bare} \union {Empty(p) : p \in Procs} \union {Owner(p) : p \in Procs}
    /\ pc \in [Procs -> {"idle", "mkdir", "read", "wait", "create", "write", "held",
                         "unlink", "rmdir", "dead"}]
    /\ then \in [Procs -> {"idle", "mkdir"}]
    /\ kills \in 0..MaxKills

\* At most one process holds the lease ("A process lock excludes the same
\* lease on one host").  It is checked and proved while no process has died,
\* and also after a death where only one waiter is left to take the lock over.
\* Of two that read the owner of a dead process the slower removes whatever is
\* at the path by then, the lock of the faster included: then two hold it.
OneHolder == Cardinality({p \in Procs : pc[p] = "held"}) <= 1

NoneDied == kills = 0

DeadOwner(p) == OwnedBy(p) /\ ~Alive(p)

\* The lock of a process that died while it held it is taken over or removed
\* in the end: no waiter needs an operator for it.
DeadOwnerReaped == \A p \in Procs : DeadOwner(p) ~> ~DeadOwner(p)
=============================================================================
