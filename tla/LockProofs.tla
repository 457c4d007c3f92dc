---------------------------- MODULE LockProofs ----------------------------
(***************************************************************************)
(* The lock of a file lease has one holder for as long as no process has   *)
(* died, for any number of processes; between two processes it has one     *)
(* whoever dies.  (Two waiters that have both read a dead owner may both   *)
(* take the lock, so that three processes and a death are beyond it.)      *)
(***************************************************************************)
EXTENDS LeaseLock, FiniteSetTheorems, TLAPS

(* Where a process is between its mkdir and the end of its release. *)
Inside(p) == pc[p] \in {"create", "write", "held", "unlink", "rmdir"}

(* What the directory holds while p is inside. *)
HasDirectory(p) ==
    /\ pc[p] \in {"create", "rmdir"} => dir = Bare
    /\ pc[p] = "write" => dir = Empty(p)
    /\ pc[p] \in {"held", "unlink"} => OwnedBy(p)
    /\ pc[p] = "unlink" => then[p] = "idle"

(* As long as nobody has died the directory is the lock: who is inside made it,
   and nobody else is.  Nobody is ever reaped then. *)
Chain ==
    /\ \A p \in Procs : HasDirectory(p)
    /\ \A p, q \in Procs : Inside(p) /\ Inside(q) => p = q

(* Deaths are counted. *)
Counted == kills = 0 <=> \A p \in Procs : Alive(p)

LockInvariant == TypeOK /\ Counted /\ (kills = 0 => Chain)

USE DEF NoDir, Bare, Empty, Owner

(* What the invariant is made of is well-typed at the start and at every step. *)
LEMMA InitTyped == LockAssumption /\ Init => TypeOK
  BY DEF LockAssumption, Init, TypeOK

LEMMA StepTyped ==
  ASSUME LockAssumption, TypeOK, NEW p \in Procs, Begin(p) \/ Step(p) \/ Kill(p)
  PROVE  TypeOK'
<1> USE DEF LockAssumption, TypeOK
<1>1. CASE Begin(p)
  BY <1>1 DEF Begin, Go
<1>2. CASE Kill(p)
  BY <1>2 DEF Kill, Go, Alive
<1>3. CASE MakeDir(p)
  BY <1>3 DEF MakeDir, Go
<1>4. CASE ReadOwner(p)
  BY <1>4 DEF ReadOwner, Go, RemoveThen
<1>5. CASE Wait(p)
  BY <1>5 DEF Wait, Go
<1>6. CASE CreateFile(p)
  BY <1>6 DEF CreateFile, Go, RemoveThen
<1>7. CASE WriteFile(p)
  BY <1>7 DEF WriteFile, Go
<1>8. CASE Release(p)
  BY <1>8 DEF Release, Go, RemoveThen
<1>9. CASE Unlink(p)
  BY <1>9 DEF Unlink, Go
<1>10. CASE RemoveDir(p)
  BY <1>10 DEF RemoveDir, Go
<1> QED
  BY <1>1, <1>2, <1>3, <1>4, <1>5, <1>6, <1>7, <1>8, <1>9, <1>10 DEF Step

(* Only a death is counted, and nobody comes back. *)
LEMMA StepCounted ==
  ASSUME TypeOK, Counted, NEW p \in Procs, Begin(p) \/ Step(p) \/ Kill(p)
  PROVE  Counted'
<1> USE DEF TypeOK, Counted, Alive
<1>1. CASE Kill(p)
  <2>1. kills' # 0 /\ pc'[p] = "dead"
    BY <1>1 DEF Kill, Go
  <2> QED
    BY <2>1
<1>2. CASE Begin(p) \/ Step(p)
  <2>1. kills' = kills /\ \E l : l # "dead" /\ pc' = [pc EXCEPT ![p] = l] /\ pc[p] # "dead"
    <3> USE DEF Go, RemoveThen
    <3>1. CASE Begin(p)
      BY <3>1 DEF Begin
    <3>2. CASE MakeDir(p)
      BY <3>2 DEF MakeDir
    <3>3. CASE ReadOwner(p)
      BY <3>3 DEF ReadOwner
    <3>4. CASE Wait(p)
      BY <3>4 DEF Wait
    <3>5. CASE CreateFile(p)
      BY <3>5 DEF CreateFile
    <3>6. CASE WriteFile(p)
      BY <3>6 DEF WriteFile
    <3>7. CASE Release(p)
      BY <3>7 DEF Release
    <3>8. CASE Unlink(p)
      BY <3>8 DEF Unlink
    <3>9. CASE RemoveDir(p)
      BY <3>9 DEF RemoveDir
    <3> QED
      BY <1>2, <3>1, <3>2, <3>3, <3>4, <3>5, <3>6, <3>7, <3>8, <3>9 DEF Step
  <2> QED
    BY <2>1
<1> QED
  BY <1>1, <1>2

(* While nobody has died, a step keeps the chain: only mkdir lets a process in,
   and only where there is no directory. *)
LEMMA StepChain ==
  ASSUME TypeOK, Counted, Chain, kills = 0, kills' = 0,
         NEW p \in Procs, Begin(p) \/ Step(p) \/ Kill(p)
  PROVE  Chain'
<1> USE DEF TypeOK, Chain, HasDirectory, Inside, OwnedBy, Go, RemoveThen
<1>1. ~Reaps
  BY DEF Reaps, Counted
<1>2. CASE Begin(p)
  BY <1>2 DEF Begin
<1>3. CASE Kill(p)
  BY <1>3 DEF Kill
<1>4. CASE MakeDir(p)
  <2>1. CASE dir = NoDir
    <3>1. \A q \in Procs : ~Inside(q)
      BY <2>1
    <3> QED
      BY <1>4, <2>1, <3>1 DEF MakeDir
  <2>2. CASE dir # NoDir
    BY <1>4, <2>2 DEF MakeDir
  <2> QED
    BY <2>1, <2>2
<1>5. CASE ReadOwner(p)
  BY <1>1, <1>5 DEF ReadOwner
<1>6. CASE Wait(p)
  BY <1>6 DEF Wait
<1>7. CASE CreateFile(p)
  BY <1>7 DEF CreateFile
<1>8. CASE WriteFile(p)
  BY <1>8 DEF WriteFile
<1>9. CASE Release(p)
  BY <1>9 DEF Release
<1>10. CASE Unlink(p)
  BY <1>10 DEF Unlink
<1>11. CASE RemoveDir(p)
  BY <1>11 DEF RemoveDir, HasFile
<1> QED
  BY <1>2, <1>3, <1>4, <1>5, <1>6, <1>7, <1>8, <1>9, <1>10, <1>11 DEF Step

(* acquireLeaseLock and release: as long as nobody has died the lock directory
   belongs to the one process inside, for any number of processes. *)
THEOREM LockInvariantHolds == LockAssumption /\ Spec => []LockInvariant
<1> SUFFICES ASSUME LockAssumption PROVE Spec => []LockInvariant
  OBVIOUS
<1>1. Init => LockInvariant
  <2> SUFFICES ASSUME Init PROVE LockInvariant
    OBVIOUS
  <2>1. TypeOK
    BY InitTyped
  <2>2. Counted /\ Chain
    BY DEF Init, Counted, Alive, Chain, HasDirectory, Inside
  <2> QED
    BY <2>1, <2>2 DEF LockInvariant
<1>2. LockInvariant /\ [Next]_vars => LockInvariant'
  <2> SUFFICES ASSUME LockInvariant, [Next]_vars PROVE LockInvariant'
    OBVIOUS
  <2> USE DEF LockInvariant
  <2>1. CASE UNCHANGED vars
    BY <2>1 DEF vars, TypeOK, Counted, Alive, Chain, HasDirectory, Inside, OwnedBy
  <2>2. CASE Next
    <3>1. PICK p \in Procs : Begin(p) \/ Step(p) \/ Kill(p)
      BY <2>2 DEF Next
    <3>2. TypeOK' /\ Counted'
      BY <3>1, StepTyped, StepCounted
    <3>3. kills' = 0 => kills = 0
      <4>1. kills \in Nat /\ (kills' = kills \/ kills' = kills + 1)
        BY <3>1 DEF LockAssumption, TypeOK, Begin, Kill, Step, MakeDir, ReadOwner, Wait,
           CreateFile, WriteFile, Release, Unlink, RemoveDir
      <4> QED
        BY <4>1
    <3> QED
      BY <3>1, <3>2, <3>3, StepChain
  <2> QED
    BY <2>1, <2>2
<1> QED
  BY <1>1, <1>2, PTL DEF Spec

(* A set of which any two members are equal has at most one. *)
LEMMA AtMostOne ==
  ASSUME NEW S, \A x, y \in S : x = y
  PROVE  Cardinality(S) <= 1
<1>1. CASE S = {}
  BY <1>1, FS_EmptySet
<1>2. CASE S # {}
  <2>1. PICK x \in S : TRUE
    BY <1>2
  <2>2. S = {x}
    BY <2>1
  <2> QED
    BY <2>2, FS_Singleton
<1> QED
  BY <1>1, <1>2

(* While nobody has died, one process holds the lease at most. *)
LEMMA ChainExcludes ==
  ASSUME Chain
  PROVE  OneHolder
<1>1. \A x, y \in {p \in Procs : pc[p] = "held"} : x = y
  BY DEF Chain, Inside
<1> QED
  BY <1>1, AtMostOne DEF OneHolder

(* "A process lock excludes the same lease on one host" (file-lease.ts): with
   any number of processes until one of them dies; and between two processes
   also when one died with the lock, however the other takes it over. *)
THEOREM OneHolderHolds ==
  LockAssumption /\ Spec
    => /\ [](kills = 0 => OneHolder)
       /\ Cardinality(Procs) <= 2 => []OneHolder
<1> SUFFICES ASSUME LockAssumption PROVE Spec => /\ [](kills = 0 => OneHolder)
                                                 /\ Cardinality(Procs) <= 2 => []OneHolder
  OBVIOUS
<1>1. LockInvariant => (kills = 0 => OneHolder)
  BY ChainExcludes DEF LockInvariant
<1>2. ASSUME Cardinality(Procs) <= 2, LockInvariant
      PROVE  OneHolder
  <2>1. CASE kills = 0
    BY <1>1, <1>2, <2>1
  <2>2. CASE kills # 0
    <3>1. PICK d \in Procs : pc[d] = "dead"
      BY <1>2, <2>2 DEF LockInvariant, Counted, Alive
    <3> DEFINE Holders == {p \in Procs : pc[p] = "held"}
    <3>2. IsFiniteSet(Procs)
      BY DEF LockAssumption
    <3>3. IsFiniteSet(Procs \ {d}) /\ Cardinality(Procs \ {d}) = Cardinality(Procs) - 1
      BY <3>1, <3>2, FS_RemoveElement
    <3>4. Holders \subseteq Procs \ {d}
      BY <3>1
    <3>5. IsFiniteSet(Holders) /\ Cardinality(Holders) <= Cardinality(Procs \ {d})
      BY <3>3, <3>4, FS_Subset
    <3>6. Cardinality(Procs) \in Nat /\ Cardinality(Holders) \in Nat
      BY <3>2, <3>5, FS_CardinalityType
    <3> QED
      BY <1>2, <3>3, <3>5, <3>6 DEF OneHolder
  <2> QED
    BY <2>1, <2>2
<1>3. Cardinality(Procs) <= 2 => (LockInvariant => OneHolder)
  BY <1>2
<1>4. CASE Cardinality(Procs) <= 2
  <2>1. LockInvariant => OneHolder
    BY <1>3, <1>4
  <2> QED
    BY <1>1, <2>1, LockInvariantHolds, PTL
<1>5. CASE ~(Cardinality(Procs) <= 2)
  BY <1>1, <1>5, LockInvariantHolds, PTL
<1> QED
  BY <1>4, <1>5
=============================================================================
