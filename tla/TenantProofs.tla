---------------------------- MODULE TenantProofs ----------------------------
(***************************************************************************)
(* What holds of the tenant lifecycle for any number of names, identities, *)
(* keys, processes, operations and failures: an offboarding removes what   *)
(* was confirmed and nothing that a survivor shares, and no key is stored  *)
(* under a name that means another tenant by then.                         *)
(***************************************************************************)
EXTENDS TenantLifecycle, TLAPS

USE LifecycleAssumption

(* A process between commands is well-typed. *)
LEMMA IdleTyped == Idle \in RunState
<1>1. EmptyInventory \in Inventories
  BY DEF EmptyInventory, Inventories
<1> QED
  BY <1>1 DEF Idle, RunState, Steps

(* The fields of a well-typed run. *)
LEMMA RunTyped ==
  ASSUME TypeOK, NEW p \in Procs
  PROVE  /\ run[p] \in RunState
         /\ run[p].pc \in Steps /\ run[p].name \in Names \union {None}
         /\ run[p].id \in Ids \union {None} /\ run[p].jwk \in Keys \union {None}
         /\ run[p].key \in Keys \union {None} /\ run[p].old \in Keys \union {None}
         /\ run[p].planned \in Inventories /\ run[p].todo \in SUBSET TargetKind
         /\ run[p].purge \in SUBSET TargetKind /\ run[p].blocked \in BOOLEAN
<1>1. run[p] \in RunState
  BY DEF TypeOK
<1> QED
  BY <1>1 DEF RunState

(* A run that moves to another step is well-typed. *)
LEMMA GotoTyped ==
  ASSUME NEW r \in RunState, NEW s \in Steps
  PROVE  [r EXCEPT !.pc = s] \in RunState
  BY DEF RunState

(* execute's next target is one of those to be removed. *)
LEMMA NextTargetIn ==
  ASSUME NEW todo \in SUBSET TargetKind, todo # {}
  PROVE  NextTarget(todo) \in todo
<1> DEFINE First(i) == /\ ExecuteOrder[i] \in todo
                       /\ \A j \in 1 .. (i - 1) : ExecuteOrder[j] \notin todo
<1>1. DOMAIN ExecuteOrder = 1 .. 8
  BY DEF ExecuteOrder
<1>2. \A k \in TargetKind : \E i \in 1 .. 8 : ExecuteOrder[i] = k
  BY DEF TargetKind, VaultKinds, FileKinds, NamedKinds, ExecuteOrder
<1>3. PICK k \in 1 .. 8 : ExecuteOrder[k] \in todo
  BY <1>2
<1>4. \E i \in 1 .. 8 : First(i)
  <2>1. \/ First(1) \/ First(2) \/ First(3) \/ First(4)
        \/ First(5) \/ First(6) \/ First(7) \/ First(8)
    BY <1>3
  <2> QED
    BY <2>1
<1> QED
  BY <1>1, <1>4 DEF NextTarget

(* What a probe of a name finds is well-typed. *)
LEMMA InventoryTyped ==
  ASSUME TypeOK, NEW n \in Names
  PROVE  Inventory(n) \in Inventories
<1>1. \A a \in Artifact : KeyIn(a, n) \in Keys \union {None}
  BY DEF TypeOK, KeyIn, Credential
<1> QED
  BY <1>1 DEF Inventory, Inventories, Artifact

(* A command that ends, or goes on, leaves processes and lock well-typed. *)
LEMMA EndTyped ==
  ASSUME TypeOK, NEW p \in Procs, End(p)
  PROVE  run' \in [Procs -> RunState] /\ lock' \in Procs \union {Free}
  BY IdleTyped DEF TypeOK, End

(* So does one that moves on to another point. *)
LEMMA MoveTyped ==
  ASSUME TypeOK, NEW p \in Procs, NEW s \in Steps, Goto(p, s)
  PROVE  run' \in [Procs -> RunState]
<1>1. [run[p] EXCEPT !.pc = s] \in RunState
  BY RunTyped, GotoTyped
<1> QED
  BY <1>1 DEF TypeOK, Goto

(* A credential that is stored, or removed, leaves the vault well-typed. *)
LEMMA StoreTyped ==
  ASSUME TypeOK, NEW a \in Artifact, NEW n \in Names, NEW c \in Credential \union {None},
         Store(a, n, c)
  PROVE  vault' \in [Artifact -> [Names -> Credential \union {None}]]
  BY DEF TypeOK, Store

(* A plan offers targets only, and so does what is chosen from it. *)
LEMMA PurgeTyped ==
  ASSUME NEW n, NEW i, NEW inv, NEW req \in SUBSET Offered(n, i, inv)
  PROVE  /\ Offered(n, i, inv) \subseteq TargetKind
         /\ ResolvePurge(req, Offered(n, i, inv)) \subseteq Offered(n, i, inv)
<1>1. Offered(n, i, inv) \subseteq TargetKind
  BY DEF Offered
<1> HIDE DEF Offered
<1>2. ResolvePurge(req, Offered(n, i, inv)) \subseteq Offered(n, i, inv)
  BY DEF ResolvePurge
<1> QED
  BY <1>1, <1>2

(* What every step of a command under way has by type and by the invariant. *)
LEMMA InHand ==
  ASSUME TypeOK, NEW p \in Procs, HoldsOK(p), run[p].pc # "idle"
  PROVE  /\ run[p].name \in Names /\ run[p].id \in Ids
         /\ rows[run[p].name] \in Ids \union {None}
         /\ \A a \in Artifact : /\ vault[a][run[p].name] \in Credential \union {None}
                                /\ KeyIn(a, run[p].name) \in Keys \union {None}
<1>1. run[p].name \in Names /\ run[p].id \in Ids
  BY DEF HoldsOK
<1> QED
  BY <1>1 DEF TypeOK, KeyIn, Credential

(* Beginning a command keeps the types. *)
LEMMA BeginTyped ==
  ASSUME TypeOK, NEW p \in Procs, Begin(p)
  PROVE  TypeOK'
<1>1. ASSUME NEW n \in Names, NEW i \in Ids, NEW j \in Keys \union {None},
             NEW k \in Keys \union {None}, Onboard(p, n, i, j, k)
      PROVE  TypeOK'
  <2> DEFINE s == IF j = None THEN "row" ELSE "jwk"
             r == [Idle EXCEPT !.pc = s, !.name = n, !.id = i, !.jwk = j, !.key = k]
  <2>0. s \in Steps
    BY DEF Steps, Locked, OnboardSteps
  <2> HIDE DEF s
  <2>1. r \in RunState
    BY <2>0, IdleTyped DEF RunState
  <2>2. run' = [run EXCEPT ![p] = r]
    BY <1>1 DEF Onboard, s
  <2> HIDE DEF r
  <2>3. run' \in [Procs -> RunState]
    BY <2>1, <2>2 DEF TypeOK
  <2> QED
    BY <1>1, <2>3 DEF TypeOK, Onboard, Start, NoFault
<1>2. ASSUME NEW n \in Names, NEW s \in ResolvedSteps, NEW k \in Keys \union {None},
             Resolve(p, n, s, k)
      PROVE  TypeOK'
  <2> DEFINE r == [Idle EXCEPT !.pc = s, !.name = n, !.id = rows[n], !.key = k]
  <2>1. r \in RunState
    BY IdleTyped DEF TypeOK, RunState, Steps
  <2>2. run' = [run EXCEPT ![p] = r]
    BY <1>2 DEF Resolve
  <2> HIDE DEF r
  <2>3. run' \in [Procs -> RunState]
    BY <2>1, <2>2 DEF TypeOK
  <2> QED
    BY <1>2, <2>3 DEF TypeOK, Resolve, Start, NoFault
<1>3. ASSUME NEW n \in Names, PlanRemoval(p, n) PROVE TypeOK'
  <2> DEFINE inv == Inventory(n)
             offered == Offered(n, rows[n], inv)
             r(req) == [Idle EXCEPT !.pc = "backup", !.name = n, !.id = rows[n],
                                    !.planned = inv, !.purge = ResolvePurge(req, offered)]
  <2>1. PICK req \in SUBSET offered : run' = [run EXCEPT ![p] = r(req)]
    BY <1>3 DEF PlanRemoval
  <2>2. ResolvePurge(req, offered) \in SUBSET TargetKind
    BY PurgeTyped
  <2>3. inv \in Inventories
    BY InventoryTyped
  <2> HIDE DEF inv, offered
  <2>4. r(req) \in RunState
    BY <2>2, <2>3, IdleTyped DEF TypeOK, RunState, Steps, OffboardSteps
  <2> HIDE DEF r
  <2>5. run' \in [Procs -> RunState]
    BY <2>1, <2>4 DEF TypeOK
  <2> QED
    BY <1>3, <2>5 DEF TypeOK, PlanRemoval, NoFault
<1> QED
  BY <1>1, <1>2, <1>3 DEF Begin, ResolvedSteps

(* A step of an onboarding or of a key command keeps the types. *)
LEMMA HoldTyped ==
  ASSUME TypeOK, NEW p \in Procs, HoldsOK(p)
  PROVE  /\ SaveJwk(p) \/ RecordTenant(p) \/ SaveLogKey(p) => TypeOK'
         /\ HoldRefused(p) => TypeOK'
         /\ \A from \in ResolvedSteps, to \in HoldSteps : Held(p, from, to) => TypeOK'
         /\ PutLogKey(p) \/ RemoveLogKey(p) => TypeOK'
         /\ \A f \in BOOLEAN : ImportKey(p, f) => TypeOK'
         /\ SetupPut(p) \/ SetupPublish(p) => TypeOK'
         /\ RotatePublish(p) \/ RotatePut(p) \/ RotateRetire(p) => TypeOK'
         /\ UnpublishKey(p) => TypeOK'
         /\ \A k \in StoreKinds : WriteStore(p, k) => TypeOK'
<1> DEFINE r == run[p]
<1> USE DEF NoFault
<1>a. "Jwks" \in Artifact /\ "LogKeys" \in Artifact /\ "JwtBearerKeys" \in Artifact
  BY DEF Artifact
<1>b. HoldSteps \subseteq Steps /\ "row" \in Steps /\ "logkey" \in Steps
  BY DEF Steps, Locked, OnboardSteps
<1>1. ASSUME SaveJwk(p) PROVE TypeOK'
  <2>1. [of |-> r.id, key |-> r.jwk] \in Credential
    BY <1>1, InHand DEF SaveJwk, HoldsOK, Credential
  <2>2. vault' \in [Artifact -> [Names -> Credential \union {None}]]
    BY <1>1, <1>a, <2>1, InHand, StoreTyped DEF SaveJwk
  <2>3. run' \in [Procs -> RunState]
    BY <1>1, <1>b, MoveTyped DEF SaveJwk
  <2> QED
    BY <1>1, <2>2, <2>3 DEF TypeOK, SaveJwk
<1>2. ASSUME RecordTenant(p) PROVE TypeOK'
  <2>1. run' \in [Procs -> RunState] /\ lock' \in Procs \union {Free}
    BY <1>2, <1>b, MoveTyped, EndTyped DEF RecordTenant, TypeOK
  <2>2. rows' \in [Names -> Ids \union {None}]
    BY <1>2, InHand DEF RecordTenant, TypeOK
  <2> QED
    BY <1>2, <2>1, <2>2 DEF TypeOK, RecordTenant
<1>3. ASSUME SaveLogKey(p) PROVE TypeOK'
  <2>1. [of |-> r.id, key |-> r.key] \in Credential
    BY <1>3, InHand DEF SaveLogKey, HoldsOK, Credential, KeySteps
  <2>2. vault' \in [Artifact -> [Names -> Credential \union {None}]]
    BY <1>3, <1>a, <2>1, InHand, StoreTyped DEF SaveLogKey
  <2> QED
    BY <1>3, <2>2, EndTyped DEF TypeOK, SaveLogKey
<1>4. ASSUME HoldRefused(p) PROVE TypeOK'
  BY <1>4, EndTyped DEF TypeOK, HoldRefused
<1>5. ASSUME NEW from \in ResolvedSteps, NEW to \in HoldSteps, Held(p, from, to) PROVE TypeOK'
  BY <1>5, <1>b, MoveTyped DEF TypeOK, Held
<1>6. ASSUME PutLogKey(p) PROVE TypeOK'
  <2>1. [of |-> r.id, key |-> r.key] \in Credential
    BY <1>6, InHand DEF PutLogKey, HoldsOK, Credential, KeySteps
  <2>2. vault' \in [Artifact -> [Names -> Credential \union {None}]]
    BY <1>6, <1>a, <2>1, InHand, StoreTyped DEF PutLogKey
  <2> QED
    BY <1>6, <2>2, EndTyped DEF TypeOK, PutLogKey
<1>7. ASSUME RemoveLogKey(p) PROVE TypeOK'
  <2>2. vault' \in [Artifact -> [Names -> Credential \union {None}]]
    BY <1>7, <1>a, InHand, StoreTyped DEF RemoveLogKey
  <2> QED
    BY <1>7, <2>2, EndTyped DEF TypeOK, RemoveLogKey
<1>8. ASSUME NEW f \in BOOLEAN, ImportKey(p, f) PROVE TypeOK'
  <2>1. [of |-> r.id, key |-> r.key] \in Credential
    BY <1>8, InHand DEF ImportKey, HoldsOK, Credential, KeySteps
  <2>2. vault' \in [Artifact -> [Names -> Credential \union {None}]]
    BY <1>8, <1>a, <2>1, InHand, StoreTyped DEF ImportKey, TypeOK
  <2> QED
    BY <1>8, <2>2, EndTyped DEF TypeOK, ImportKey
<1>9. ASSUME SetupPut(p) PROVE TypeOK'
  <2> DEFINE stored == KeyIn("JwtBearerKeys", r.name)
             kid == IF stored = None THEN r.key ELSE stored
             cred == IF stored = None THEN [of |-> r.id, key |-> kid]
                     ELSE vault["JwtBearerKeys"][r.name]
  <2>1. r.key \in Keys /\ r.name \in Names /\ r.id \in Ids
    BY <1>9, InHand DEF SetupPut, HoldsOK, KeySteps
  <2>2. kid \in Keys /\ cred \in Credential \union {None}
    BY <1>9, <1>a, <2>1, InHand DEF SetupPut, Credential
  <2>3. Store("JwtBearerKeys", r.name, cred)
        /\ run' = [run EXCEPT ![p].pc = "setup_publish", ![p].key = kid]
    BY <1>9 DEF SetupPut
  <2> HIDE DEF kid, cred
  <2>4. vault' \in [Artifact -> [Names -> Credential \union {None}]]
    BY <1>a, <2>1, <2>2, <2>3, StoreTyped
  <2>5. [r EXCEPT !.pc = "setup_publish", !.key = kid] \in RunState
    <3>1. "setup_publish" \in Steps
      BY DEF Steps, Locked, HoldSteps
    <3> QED
      BY <2>2, <3>1, RunTyped DEF RunState
  <2>6. run' \in [Procs -> RunState]
    BY <2>3, <2>5 DEF TypeOK
  <2> QED
    BY <1>9, <2>4, <2>6 DEF TypeOK, SetupPut
<1>10. ASSUME SetupPublish(p) PROVE TypeOK'
  <2>1. r.key \in Keys
    BY <1>10 DEF SetupPublish, HoldsOK, KeySteps
  <2>2. \A e \in published' : e[2] \in Keys
    BY <1>10, <2>1 DEF SetupPublish, TypeOK
  <2> QED
    BY <1>10, <2>2, EndTyped DEF TypeOK, SetupPublish
<1>11. ASSUME RotatePublish(p) PROVE TypeOK'
  <2>1. r.key \in Keys /\ KeyIn("JwtBearerKeys", r.name) \in Keys \union {None}
    BY <1>11, <1>a, InHand DEF RotatePublish, HoldsOK, KeySteps
  <2>2. \A e \in published' : e[2] \in Keys
    BY <1>11, <2>1 DEF RotatePublish, TypeOK
  <2>3. [r EXCEPT !.pc = "rotate_put", !.old = KeyIn("JwtBearerKeys", r.name)] \in RunState
    <3>1. "rotate_put" \in Steps
      BY DEF Steps, Locked, HoldSteps
    <3> QED
      BY <2>1, <3>1, RunTyped DEF RunState
  <2>4. run' \in [Procs -> RunState] /\ lock' \in Procs \union {Free}
    BY <1>11, <2>3, EndTyped DEF RotatePublish, TypeOK
  <2> QED
    BY <1>11, <2>2, <2>4 DEF TypeOK, RotatePublish
<1>12. ASSUME RotatePut(p) PROVE TypeOK'
  <2>1. [of |-> r.id, key |-> r.key] \in Credential
    BY <1>12, InHand DEF RotatePut, HoldsOK, Credential, KeySteps
  <2>2. vault' \in [Artifact -> [Names -> Credential \union {None}]]
    BY <1>12, <1>a, <2>1, InHand, StoreTyped DEF RotatePut
  <2>3. run' \in [Procs -> RunState]
    BY <1>12, <1>b, MoveTyped DEF RotatePut, HoldSteps
  <2> QED
    BY <1>12, <2>2, <2>3 DEF TypeOK, RotatePut
<1>13. ASSUME RotateRetire(p) PROVE TypeOK'
  BY <1>13, EndTyped DEF TypeOK, RotateRetire
<1>14. ASSUME UnpublishKey(p) PROVE TypeOK'
  BY <1>14, EndTyped DEF TypeOK, UnpublishKey
<1>15. ASSUME NEW k \in StoreKinds, WriteStore(p, k) PROVE TypeOK'
  <2>1. k \in FileKinds \union NamedKinds /\ r.name \in Names
    BY <1>15, InHand DEF WriteStore, FileKinds, NamedKinds
  <2>2. \A s \in stores' : \E l \in FileKinds \union NamedKinds, n \in Names : s = Path(l, n)
    BY <1>15, <2>1 DEF WriteStore, TypeOK
  <2> QED
    BY <1>15, <2>2, EndTyped DEF TypeOK, WriteStore
<1> QED
  BY <1>1, <1>2, <1>3, <1>4, <1>5, <1>6, <1>7, <1>8, <1>9, <1>10, <1>11, <1>12, <1>13,
     <1>14, <1>15

(* A step of an offboarding, and a step that fails, keep the types. *)
LEMMA RemovalTyped ==
  ASSUME TypeOK, NEW p \in Procs, HoldsOK(p)
  PROVE  /\ WriteBackup(p) \/ Recheck(p) \/ RemoveRemoteIssuer(p) => TypeOK'
         /\ RemoveTarget(p) \/ RemoveConfigEntry(p) => TypeOK'
         /\ RemoteIssuerFails(p) \/ RemoveTargetFails(p) \/ Fails(p) => TypeOK'
<1> DEFINE r == run[p]
<1> USE DEF NoFault, Fault
<1>a. "recheck" \in Steps /\ "remove" \in Steps /\ "remote" \in Steps
  BY DEF Steps, OffboardSteps, RemoveSteps
<1>1. ASSUME WriteBackup(p) PROVE TypeOK'
  BY <1>1, <1>a, MoveTyped DEF TypeOK, WriteBackup
<1>2. ASSUME Recheck(p) PROVE TypeOK'
  <2> DEFINE s == IF "IssuerSigningKey" \in r.purge THEN "remote" ELSE "remove"
  <2>1. s \in Steps
    BY <1>a
  <2>2. \/ run' = [run EXCEPT ![p].todo = r.purge, ![p].pc = s] /\ lock' = p
        \/ End(p)
    BY <1>2 DEF Recheck
  <2> HIDE DEF s
  <2>3. [r EXCEPT !.todo = r.purge, !.pc = s] \in RunState
    BY <2>1, RunTyped DEF RunState
  <2>4. run' \in [Procs -> RunState] /\ lock' \in Procs \union {Free}
    <3>1. CASE End(p)
      BY <3>1, EndTyped
    <3>2. CASE run' = [run EXCEPT ![p].todo = r.purge, ![p].pc = s] /\ lock' = p
      BY <3>2, <2>3 DEF TypeOK
    <3> QED
      BY <2>2, <3>1, <3>2
  <2> QED
    BY <1>2, <2>4 DEF TypeOK, Recheck
<1>3. ASSUME RemoveRemoteIssuer(p) PROVE TypeOK'
  BY <1>3, <1>a, MoveTyped DEF TypeOK, RemoveRemoteIssuer
<1>4. ASSUME RemoveTarget(p) PROVE TypeOK'
  <2> DEFINE kind == NextTarget(r.todo)
             gone == IF kind = "Workspace" THEN {"Workspace", "SyncState"} ELSE {kind}
  <2>1. r.name \in Names /\ r.todo \in SUBSET TargetKind
    BY <1>4, InHand, RunTyped DEF RemoveTarget
  <2>2. [r EXCEPT !.todo = r.todo \ gone] \in RunState
    BY <2>1, RunTyped DEF RunState
  <2>3. run' \in [Procs -> RunState]
    BY <1>4, <2>2 DEF RemoveTarget, TypeOK
  <2>4. kind \in VaultKinds => ArtifactOf(kind) \in Artifact
    BY DEF VaultKinds, ArtifactOf, Artifact
  <2>5. vault' \in [Artifact -> [Names -> Credential \union {None}]]
    BY <1>4, <2>1, <2>4, StoreTyped DEF RemoveTarget, TypeOK
  <2>6. stores' \subseteq stores
    BY <1>4 DEF RemoveTarget
  <2> QED
    BY <1>4, <2>3, <2>5, <2>6 DEF TypeOK, RemoveTarget
<1>5. ASSUME RemoveConfigEntry(p) PROVE TypeOK'
  BY <1>5, EndTyped DEF TypeOK, RemoveConfigEntry
<1>6. ASSUME RemoteIssuerFails(p) PROVE TypeOK'
  BY <1>6, <1>a, MoveTyped DEF TypeOK, RemoteIssuerFails
<1>7. ASSUME RemoveTargetFails(p) PROVE TypeOK'
  <2>1. [r EXCEPT !.todo = r.todo \ {NextTarget(r.todo)}, !.blocked = TRUE] \in RunState
    BY RunTyped DEF RunState
  <2>2. run' \in [Procs -> RunState]
    BY <1>7, <2>1 DEF RemoveTargetFails, TypeOK
  <2> QED
    BY <1>7, <2>2 DEF TypeOK, RemoveTargetFails
<1>8. ASSUME Fails(p) PROVE TypeOK'
  BY <1>8, EndTyped DEF TypeOK, Fails
<1> QED
  BY <1>1, <1>2, <1>3, <1>4, <1>5, <1>6, <1>7, <1>8

(* What a process does: it begins, continues or fails. *)
Acts(p) == Begin(p) \/ Continue(p) \/ RemoteIssuerFails(p) \/ RemoveTargetFails(p) \/ Fails(p)

(* Every step keeps the types. *)
LEMMA TypeStep ==
  ASSUME TypeOK, NEW p \in Procs, HoldsOK(p), Acts(p)
  PROVE  TypeOK'
<1>1. CASE Begin(p)
  BY <1>1, BeginTyped
<1>2. CASE Continue(p)
  BY <1>2, HoldTyped, RemovalTyped DEF Continue, ResolvedSteps, HoldSteps
<1>3. CASE RemoteIssuerFails(p) \/ RemoveTargetFails(p) \/ Fails(p)
  BY <1>3, RemovalTyped
<1> QED
  BY <1>1, <1>2, <1>3 DEF Acts

(* Only its own process moves in a step; it takes the lock only when it is     *)
(* free, gives back only its own, and changes rows and vault only under it.    *)
OwnStep(p) ==
    /\ \A q \in Procs \ {p} : run'[q] = run[q]
    /\ lock' = lock \/ (lock = Free /\ lock' = p) \/ (lock = p /\ lock' = Free)
    /\ UNCHANGED <<rows, vault, published>> \/ run[p].pc \in Locked

(* tenants.lock: every step of the code is such a step. *)
LEMMA StepIsOwn ==
  ASSUME TypeOK, NEW p \in Procs, Acts(p)
  PROVE  OwnStep(p)
<1> USE DEF NoFault, Fault, Start
<1>a. run \in [Procs -> RunState]
  BY DEF TypeOK
<1>b. End(p) => /\ \A q \in Procs \ {p} : run'[q] = run[q]
                /\ lock' = lock \/ (lock = p /\ lock' = Free)
  BY <1>a DEF End
<1>c. \A s : Goto(p, s) => \A q \in Procs \ {p} : run'[q] = run[q]
  BY <1>a DEF Goto
<1>1. ASSUME NEW n \in Names, NEW i, NEW j, NEW k, Onboard(p, n, i, j, k) PROVE OwnStep(p)
  BY <1>1, <1>a DEF Onboard, OwnStep
<1>2. ASSUME NEW n \in Names, NEW s, NEW k, Resolve(p, n, s, k) PROVE OwnStep(p)
  BY <1>2, <1>a DEF Resolve, OwnStep
<1>3. ASSUME NEW n \in Names, PlanRemoval(p, n) PROVE OwnStep(p)
  BY <1>3, <1>a DEF PlanRemoval, OwnStep
<1>4. CASE SaveJwk(p) \/ RecordTenant(p) \/ SaveLogKey(p)
  BY <1>4, <1>b, <1>c DEF SaveJwk, RecordTenant, SaveLogKey, OwnStep, Locked, OnboardSteps
<1>5. CASE HoldRefused(p)
  BY <1>5, <1>b DEF HoldRefused, OwnStep
<1>6. ASSUME NEW s, NEW u, Held(p, s, u) PROVE OwnStep(p)
  BY <1>6, <1>c DEF Held, HoldTenant, OwnStep
<1>7. CASE PutLogKey(p) \/ RemoveLogKey(p) \/ \E f \in BOOLEAN : ImportKey(p, f)
  BY <1>7, <1>b DEF PutLogKey, RemoveLogKey, ImportKey, OwnStep, Locked, HoldSteps
<1>8. CASE SetupPut(p) \/ SetupPublish(p)
  BY <1>8, <1>a, <1>b DEF SetupPut, SetupPublish, OwnStep, Locked, HoldSteps
<1>9. CASE RotatePublish(p) \/ RotatePut(p) \/ RotateRetire(p) \/ UnpublishKey(p)
  BY <1>9, <1>a, <1>b, <1>c
  DEF RotatePublish, RotatePut, RotateRetire, UnpublishKey, OwnStep, Locked, HoldSteps
<1>10. ASSUME NEW k \in StoreKinds, WriteStore(p, k) PROVE OwnStep(p)
  BY <1>10, <1>b DEF WriteStore, OwnStep
<1>11. CASE WriteBackup(p) \/ Recheck(p)
  BY <1>11, <1>a, <1>b, <1>c DEF WriteBackup, Recheck, OwnStep
<1>12. CASE RemoveRemoteIssuer(p) \/ RemoteIssuerFails(p)
  BY <1>12, <1>c DEF RemoveRemoteIssuer, RemoteIssuerFails, OwnStep, Locked, RemoveSteps
<1>13. CASE RemoveTarget(p) \/ RemoveTargetFails(p)
  BY <1>13, <1>a DEF RemoveTarget, RemoveTargetFails, OwnStep, Locked, RemoveSteps
<1>14. CASE RemoveConfigEntry(p) \/ Fails(p)
  BY <1>14, <1>b DEF RemoveConfigEntry, Fails, OwnStep, Locked, RemoveSteps
<1> QED
  BY <1>1, <1>2, <1>3, <1>4, <1>5, <1>6, <1>7, <1>8, <1>9, <1>10, <1>11, <1>12, <1>13, <1>14
  DEF Acts, Begin, Continue

(* A step of one process leaves what the others rely on alone. *)
LEMMA OthersKept ==
  ASSUME TypeOK, NEW p \in Procs, HoldsOK(p), OwnStep(p),
         NEW q \in Procs \ {p}, HoldsOK(q), RemovalOK(q)
  PROVE  HoldsOK(q)' /\ RemovalOK(q)'
<1>1. run'[q] = run[q]
  BY DEF OwnStep
<1>2. run[q].pc \in Locked => lock = q /\ lock' = q /\ UNCHANGED <<rows, vault>>
  BY DEF OwnStep, HoldsOK
<1>3. HoldSteps \union {"logkey"} \subseteq Locked /\ RemoveSteps \subseteq Locked
  BY DEF Locked, OnboardSteps
<1>4. HoldsOK(q)'
  BY <1>1, <1>2, <1>3 DEF HoldsOK
<1>5. run'[q].pc \in {"backup", "recheck"} => run'[q].blocked = FALSE
  BY <1>1 DEF RemovalOK
<1>6. ASSUME run'[q].pc \in RemoveSteps PROVE Confirmed(run[q])'
  <2>1. Confirmed(run[q]) /\ UNCHANGED <<rows, vault>> /\ run'[q] = run[q]
    BY <1>1, <1>2, <1>3, <1>6 DEF RemovalOK
  <2> QED
    BY <2>1 DEF Confirmed, KeyIn, IssuerUnshared, StoreUnshared, Survivors
<1> QED
  BY <1>4, <1>5, <1>6 DEF RemovalOK

(* Between commands nothing is held. *)
LEMMA EndKeeps ==
  ASSUME TypeOK, NEW p \in Procs, End(p)
  PROVE  HoldsOK(p)' /\ RemovalOK(p)'
<1>1. run'[p] = Idle
  BY DEF End, TypeOK
<1>2. Idle.pc = "idle"
  BY DEF Idle
<1>3. "idle" \notin Locked /\ "idle" \notin KeySteps /\ "idle" \notin RemoveSteps
      /\ "idle" \notin HoldSteps
  BY DEF Locked, OnboardSteps, HoldSteps, RemoveSteps, KeySteps
<1> QED
  BY <1>1, <1>2, <1>3 DEF HoldsOK, RemovalOK

(* A command that begins has a tenant in hand, and the lock if it needs it. *)
LEMMA BeginKeeps ==
  ASSUME TypeOK, NEW p \in Procs, Begin(p)
  PROVE  HoldsOK(p)' /\ RemovalOK(p)'
<1>a. ResolvedSteps \intersect (Locked \union RemoveSteps \union {"idle", "jwk", "row", "logkey", "backup", "recheck"}) = {}
  BY DEF ResolvedSteps, Locked, OnboardSteps, HoldSteps, RemoveSteps
<1>b. "backup" \notin Locked \union RemoveSteps \union KeySteps \union HoldSteps
  BY DEF Locked, OnboardSteps, HoldSteps, RemoveSteps, KeySteps
<1>c. {"row", "jwk"} \intersect (KeySteps \union HoldSteps \union RemoveSteps) = {}
  BY DEF HoldSteps, RemoveSteps, KeySteps
<1>1. ASSUME NEW n \in Names, NEW i \in Ids, NEW j \in Keys \union {None},
             NEW k \in Keys \union {None}, Onboard(p, n, i, j, k)
      PROVE  HoldsOK(p)' /\ RemovalOK(p)'
  <2>1. /\ run'[p].pc \in {"row", "jwk"} /\ (run'[p].pc = "jwk" => j # None)
        /\ run'[p].name = n /\ run'[p].id = i /\ run'[p].jwk = j /\ run'[p].key = k
        /\ lock' = p
    BY <1>1 DEF Onboard, TypeOK, Idle
  <2> QED
    BY <1>c, <2>1 DEF HoldsOK, RemovalOK
<1>2. ASSUME NEW n \in Names, NEW s \in ResolvedSteps, NEW k \in Keys \union {None},
             s \in KeySteps => k \in Keys, Resolve(p, n, s, k)
      PROVE  HoldsOK(p)' /\ RemovalOK(p)'
  <2>1. /\ run'[p].pc = s /\ run'[p].name = n /\ run'[p].id = rows[n] /\ run'[p].key = k
        /\ rows[n] \in Ids
    BY <1>2 DEF Resolve, TypeOK, Idle
  <2>2. s \notin HoldSteps
    BY <1>a DEF Locked
  <2> QED
    BY <1>2, <1>a, <2>1, <2>2 DEF HoldsOK, RemovalOK
<1>3. ASSUME NEW n \in Names, PlanRemoval(p, n) PROVE HoldsOK(p)' /\ RemovalOK(p)'
  <2>1. /\ run'[p].pc = "backup" /\ run'[p].name = n /\ run'[p].id = rows[n]
        /\ rows[n] \in Ids /\ run'[p].blocked = FALSE
    BY <1>3 DEF PlanRemoval, TypeOK, Idle
  <2> QED
    BY <1>b, <2>1 DEF HoldsOK, RemovalOK
<1>4. \A s \in {"resolved_rm_log", "resolved_store", "resolved_unpublish"} : s \notin KeySteps
  BY DEF KeySteps
<1> QED
  BY <1>1, <1>2, <1>3, <1>4 DEF Begin, ResolvedSteps

(* The steps of onboardings and key commands keep what they have in hand. *)
LEMMA HoldKeeps ==
  ASSUME TypeOK, NEW p \in Procs, HoldsOK(p), Continue(p), run[p].pc \notin OffboardSteps
  PROVE  HoldsOK(p)' /\ RemovalOK(p)'
<1> DEFINE r == run[p]
<1>a. run \in [Procs -> RunState]
  BY DEF TypeOK
<1>b. \A s : Goto(p, s) =>
        /\ run'[p].pc = s /\ run'[p].name = r.name /\ run'[p].id = r.id
        /\ run'[p].key = r.key
  BY <1>a DEF Goto, RunState
<1>c. HoldSteps \subseteq Locked /\ "row" \in Locked /\ "logkey" \in Locked /\ "jwk" \in Locked
  BY DEF Locked, OnboardSteps
<1>d. (HoldSteps \union {"row", "logkey"}) \intersect (RemoveSteps \union {"backup", "recheck", "jwk", "idle"}) = {}
  BY DEF HoldSteps, RemoveSteps
<1>e. r.pc # "idle" => r.name \in Names /\ r.id \in Ids
  BY DEF HoldsOK
<1>1. CASE SaveJwk(p)
  <2>1. "row" \notin KeySteps \union HoldSteps
    BY DEF KeySteps, HoldSteps
  <2>2. r.pc = "jwk" /\ lock = p /\ Goto(p, "row") /\ lock' = lock
    BY <1>1, <1>c DEF SaveJwk, HoldsOK
  <2>3. r.key \in Keys \union {None}
    BY RunTyped
  <2> QED
    BY <1>b, <1>d, <1>e, <2>1, <2>2, <2>3 DEF HoldsOK, RemovalOK
<1>2. CASE RecordTenant(p)
  <2>1. CASE r.key = None
    BY <1>2, <2>1, EndKeeps DEF RecordTenant
  <2>2. CASE r.key # None
    <3>1. r.pc = "row" /\ lock = p /\ Goto(p, "logkey") /\ lock' = lock /\ r.key \in Keys
      BY <1>2, <1>c, <2>2 DEF RecordTenant, HoldsOK
    <3>2. rows'[r.name] = r.id
      BY <1>2, <1>e, <3>1 DEF RecordTenant, TypeOK
    <3> QED
      BY <1>b, <1>c, <1>d, <1>e, <3>1, <3>2 DEF HoldsOK, RemovalOK
  <2> QED
    BY <2>1, <2>2
<1>3. ASSUME NEW s \in ResolvedSteps, NEW u \in HoldSteps, u \in KeySteps => s \in KeySteps,
             Held(p, s, u)
      PROVE  HoldsOK(p)' /\ RemovalOK(p)'
  <2>1. r.pc = s /\ lock' = p /\ Goto(p, u) /\ rows[r.name] = r.id /\ rows' = rows
    BY <1>3 DEF Held, HoldTenant
  <2>2. r.name \in Names /\ r.id \in Ids
    BY <1>e, <2>1 DEF ResolvedSteps
  <2>3. u \in KeySteps => r.key \in Keys
    BY <1>3, <2>1 DEF HoldsOK
  <2>4. u \notin {"row", "jwk"}
    BY DEF HoldSteps
  <2>5. HoldsOK(p)'
    BY <1>b, <2>1, <2>2, <2>3, <2>4 DEF HoldsOK
  <2> QED
    BY <1>b, <1>d, <2>1, <2>5 DEF RemovalOK
<1>4. CASE SetupPut(p)
  <2> DEFINE stored == KeyIn("JwtBearerKeys", r.name)
             kid == IF stored = None THEN r.key ELSE stored
  <2>1. r.pc = "setup_put" /\ r.pc \in HoldSteps /\ r.pc \in KeySteps
    BY <1>4 DEF SetupPut, HoldSteps, KeySteps
  <2>2. kid \in Keys
    BY <2>1, InHand DEF HoldsOK, Artifact
  <2>3. /\ run' = [run EXCEPT ![p].pc = "setup_publish", ![p].key = kid]
        /\ lock' = lock /\ rows' = rows
    BY <1>4 DEF SetupPut
  <2> HIDE DEF kid
  <2>4. /\ run'[p].pc = "setup_publish" /\ run'[p].key = kid
        /\ run'[p].name = r.name /\ run'[p].id = r.id
    BY <1>a, <2>3 DEF RunState
  <2>5. lock = p /\ rows[r.name] = r.id /\ "setup_publish" \in HoldSteps
    BY <1>c, <2>1 DEF HoldsOK, HoldSteps
  <2> QED
    BY <1>c, <1>d, <1>e, <2>1, <2>2, <2>3, <2>4, <2>5 DEF HoldsOK, RemovalOK
<1>5. CASE RotatePublish(p)
  <2>1. CASE KeyIn("JwtBearerKeys", r.name) = None
    BY <1>5, <2>1, EndKeeps DEF RotatePublish
  <2>2. CASE KeyIn("JwtBearerKeys", r.name) # None
    <3>1. r.pc = "rotate_publish" /\ r.pc \in HoldSteps /\ r.pc \in KeySteps
      BY <1>5 DEF RotatePublish, HoldSteps, KeySteps
    <3>2. /\ run'[p].pc = "rotate_put" /\ run'[p].key = r.key
          /\ run'[p].name = r.name /\ run'[p].id = r.id /\ lock' = lock /\ rows' = rows
      BY <1>5, <1>a, <2>2 DEF RotatePublish, RunState
    <3>3. lock = p /\ rows[r.name] = r.id /\ r.key \in Keys /\ "rotate_put" \in HoldSteps
      BY <1>c, <3>1 DEF HoldsOK, HoldSteps
    <3> QED
      BY <1>c, <1>d, <1>e, <3>1, <3>2, <3>3 DEF HoldsOK, RemovalOK
  <2> QED
    BY <2>1, <2>2
<1>6. CASE RotatePut(p)
  <2>1. r.pc = "rotate_put" /\ r.pc \in HoldSteps /\ "rotate_retire" \in HoldSteps
        /\ "rotate_retire" \notin KeySteps
    BY <1>6 DEF RotatePut, HoldSteps, KeySteps
  <2>2. Goto(p, "rotate_retire") /\ lock' = lock /\ rows' = rows
    BY <1>6 DEF RotatePut
  <2> QED
    BY <1>b, <1>c, <1>d, <1>e, <2>1, <2>2 DEF HoldsOK, RemovalOK
<1>7. CASE \/ SaveLogKey(p) \/ HoldRefused(p) \/ PutLogKey(p) \/ RemoveLogKey(p)
           \/ \E f \in BOOLEAN : ImportKey(p, f)
           \/ SetupPublish(p) \/ RotateRetire(p) \/ UnpublishKey(p)
           \/ \E k \in StoreKinds : WriteStore(p, k)
  BY <1>7, EndKeeps DEF SaveLogKey, HoldRefused, PutLogKey, RemoveLogKey, ImportKey,
     SetupPublish, RotateRetire, UnpublishKey, WriteStore
<1>8. ~WriteBackup(p) /\ ~Recheck(p) /\ ~RemoveRemoteIssuer(p) /\ ~RemoveTarget(p)
      /\ ~RemoveConfigEntry(p)
  BY DEF WriteBackup, Recheck, RemoveRemoteIssuer, RemoveTarget, RemoveConfigEntry,
     OffboardSteps, RemoveSteps
<1> QED
  BY <1>1, <1>2, <1>3, <1>4, <1>5, <1>6, <1>7, <1>8
  DEF Continue, ResolvedSteps, HoldSteps, KeySteps

(* What recheck accepts is what was shown, and no survivor's. *)
LEMMA RecheckConfirms ==
  ASSUME NEW n \in Names, NEW id, NEW purge, StillSafe(n, id, Inventory(n), purge)
  PROVE  /\ Inventory(n).log = KeyIn("LogKeys", n)
         /\ Inventory(n).issuer = KeyIn("JwtBearerKeys", n)
         /\ "IssuerSigningKey" \in purge => IssuerUnshared(n, id, Inventory(n))
         /\ purge \intersect FileKinds # {} => StoreUnshared(n)
<1>1. Inventory(n).log = KeyIn("LogKeys", n) /\ Inventory(n).issuer = KeyIn("JwtBearerKeys", n)
  BY DEF Inventory
<1>2. purge \subseteq Offered(n, id, Inventory(n))
  BY DEF StillSafe
<1> HIDE DEF Inventory
<1>3. "IssuerSigningKey" \in Offered(n, id, Inventory(n)) => IssuerUnshared(n, id, Inventory(n))
  BY DEF Offered, FileKinds
<1>4. \A k \in FileKinds : k \in Offered(n, id, Inventory(n)) => StoreUnshared(n)
  BY DEF Offered, FileKinds
<1> QED
  BY <1>1, <1>2, <1>3, <1>4

(* The steps of an offboarding keep what its operator confirmed true. *)
LEMMA RemovalKeeps ==
  ASSUME TypeOK, NEW p \in Procs, HoldsOK(p), RemovalOK(p),
         \/ WriteBackup(p) \/ Recheck(p) \/ RemoveRemoteIssuer(p) \/ RemoveTarget(p)
         \/ RemoveConfigEntry(p) \/ RemoteIssuerFails(p) \/ RemoveTargetFails(p) \/ Fails(p)
  PROVE  HoldsOK(p)' /\ RemovalOK(p)'
<1> DEFINE r == run[p]
<1>a. run \in [Procs -> RunState]
  BY DEF TypeOK
<1>b. r.pc # "idle" => r.name \in Names /\ r.id \in Ids
  BY DEF HoldsOK
<1>c. {"recheck", "remote", "remove", "backup"}
        \intersect (KeySteps \union HoldSteps \union {"idle", "row", "jwk", "logkey"}) = {}
  BY DEF KeySteps, HoldSteps
<1>d. RemoveSteps = {"remote", "remove"} /\ RemoveSteps \subseteq Locked
      /\ "recheck" \notin Locked
  BY DEF RemoveSteps, Locked, OnboardSteps, HoldSteps
<1>1. CASE WriteBackup(p)
  <2>1. /\ r.pc = "backup" /\ run'[p].pc = "recheck" /\ run'[p].name = r.name
        /\ run'[p].id = r.id /\ run'[p].blocked = r.blocked
    BY <1>1, <1>a DEF WriteBackup, Goto, RunState
  <2>2. r.blocked = FALSE
    BY <2>1 DEF RemovalOK
  <2> QED
    BY <1>b, <1>c, <1>d, <2>1, <2>2 DEF HoldsOK, RemovalOK
<1>2. CASE Recheck(p)
  <2>1. CASE End(p)
    BY <2>1, EndKeeps
  <2>2. CASE ~End(p)
    <3> DEFINE s == IF "IssuerSigningKey" \in r.purge THEN "remote" ELSE "remove"
    <3>1. /\ r.pc = "recheck" /\ StillPlanned(r.name, r.id)
          /\ StillSafe(r.name, r.id, r.planned, r.purge)
          /\ lock' = p /\ run' = [run EXCEPT ![p].todo = r.purge, ![p].pc = s]
          /\ UNCHANGED <<rows, vault>>
      BY <1>2, <2>2 DEF Recheck
    <3>2. /\ run'[p].pc = s /\ run'[p].name = r.name /\ run'[p].id = r.id
          /\ run'[p].todo = r.purge /\ run'[p].purge = r.purge
          /\ run'[p].planned = r.planned /\ run'[p].blocked = r.blocked
      BY <1>a, <3>1 DEF RunState
    <3>3. r.planned = Inventory(r.name) /\ r.name \in Names /\ r.id \in Ids
      BY <1>b, <3>1 DEF StillSafe
    <3>4. /\ r.planned.log = KeyIn("LogKeys", r.name)
          /\ r.planned.issuer = KeyIn("JwtBearerKeys", r.name)
          /\ "IssuerSigningKey" \in r.purge => IssuerUnshared(r.name, r.id, r.planned)
          /\ r.purge \intersect FileKinds # {} => StoreUnshared(r.name)
      BY <3>1, <3>3, RecheckConfirms
    <3>5. /\ KeyIn("LogKeys", r.name)' = KeyIn("LogKeys", r.name)
          /\ KeyIn("JwtBearerKeys", r.name)' = KeyIn("JwtBearerKeys", r.name)
      BY <3>1, <3>2 DEF KeyIn
    <3>9. IssuerUnshared(r.name, r.id, r.planned)' <=> IssuerUnshared(r.name, r.id, r.planned)
      BY <3>1, <3>2 DEF IssuerUnshared, Survivors, KeyIn
    <3>10. StoreUnshared(r.name)' <=> StoreUnshared(r.name)
      BY <3>1, <3>2 DEF StoreUnshared, Survivors
    <3>6. HoldsOK(p)'
      BY <1>c, <1>d, <3>1, <3>2, <3>3 DEF HoldsOK
    <3>7. rows'[r.name] \in {None, r.id}
      BY <3>1 DEF StillPlanned
    <3>8. Confirmed(run[p])'
      BY <3>2, <3>4, <3>5, <3>7, <3>9, <3>10 DEF Confirmed
    <3> QED
      BY <1>c, <3>2, <3>6, <3>8 DEF RemovalOK
  <2> QED
    BY <2>1, <2>2
<1>3. CASE RemoveRemoteIssuer(p) \/ RemoteIssuerFails(p)
  <2>1. /\ r.pc = "remote" /\ run'[p].pc = "remove" /\ run'[p].name = r.name /\ run'[p].id = r.id
        /\ run'[p].todo = r.todo /\ run'[p].purge = r.purge
        /\ run'[p].planned = r.planned /\ run'[p].blocked = r.blocked
        /\ UNCHANGED <<rows, vault, lock>>
    BY <1>3, <1>a DEF RemoveRemoteIssuer, RemoteIssuerFails, Goto, RunState
  <2>2. HoldsOK(p)'
    BY <1>b, <1>c, <1>d, <2>1 DEF HoldsOK
  <2>3. Confirmed(run[p])
    BY <1>d, <2>1 DEF RemovalOK
  <2>4. Confirmed(run[p])'
    BY <2>1, <2>3 DEF Confirmed, KeyIn, IssuerUnshared, StoreUnshared, Survivors
  <2> QED
    BY <2>1, <2>2, <2>4 DEF RemovalOK
<1>4. CASE RemoveTarget(p)
  <2> DEFINE kind == NextTarget(r.todo)
             gone == IF kind = "Workspace" THEN {"Workspace", "SyncState"} ELSE {kind}
  <2>1. /\ r.pc = "remove" /\ r.todo # {} /\ run'[p].pc = "remove" /\ run'[p].name = r.name
        /\ run'[p].id = r.id /\ run'[p].todo = r.todo \ gone /\ run'[p].purge = r.purge
        /\ run'[p].planned = r.planned /\ run'[p].blocked = r.blocked
        /\ UNCHANGED <<rows, lock>>
    BY <1>4, <1>a DEF RemoveTarget, RunState
  <2>2. kind \in r.todo /\ r.todo \in SUBSET TargetKind /\ r.name \in Names
    BY <1>b, <2>1, NextTargetIn, RunTyped
  <2>3. \/ kind \in VaultKinds /\ vault' = [vault EXCEPT ![ArtifactOf(kind)][r.name] = None]
        \/ kind \notin VaultKinds /\ vault' = vault
    BY <1>4 DEF RemoveTarget, Store
  <2> HIDE DEF kind
  <2>4. Confirmed(run[p])
    BY <1>d, <2>1 DEF RemovalOK
  <2>5. kind \in VaultKinds =>
          /\ ArtifactOf(kind) \in Artifact
          /\ kind # "LogApiKey" => ArtifactOf(kind) # "LogKeys"
          /\ kind # "IssuerSigningKey" => ArtifactOf(kind) # "JwtBearerKeys"
    BY DEF VaultKinds, ArtifactOf, Artifact
  <2>6. /\ \A a \in Artifact : \A m \in Names \ {r.name} : vault'[a][m] = vault[a][m]
        /\ \A a \in Artifact : vault'[a][r.name] \in {None, vault[a][r.name]}
        /\ \A a \in Artifact : ~(kind \in VaultKinds /\ a = ArtifactOf(kind))
                                  => vault'[a][r.name] = vault[a][r.name]
        /\ kind \in VaultKinds => vault'[ArtifactOf(kind)][r.name] = None
    <3>1. CASE kind \notin VaultKinds
      BY <2>3, <3>1
    <3>2. CASE kind \in VaultKinds
      <4>1. vault' = [vault EXCEPT ![ArtifactOf(kind)][r.name] = None]
        BY <2>3, <3>2
      <4>2. ArtifactOf(kind) \in Artifact
        BY <2>5, <3>2
      <4> QED
        BY <2>2, <3>2, <4>1, <4>2 DEF TypeOK
    <3> QED
      BY <3>1, <3>2
  <2>7. HoldsOK(p)'
    BY <1>b, <1>c, <1>d, <2>1 DEF HoldsOK
  <2>8. "LogApiKey" \in r.todo \ gone => KeyIn("LogKeys", r.name)' = r.planned.log
    BY <2>1, <2>2, <2>4, <2>5, <2>6 DEF Confirmed, KeyIn, Artifact
  <2>9. "IssuerSigningKey" \in r.todo \ gone
          => KeyIn("JwtBearerKeys", r.name)' = r.planned.issuer
    BY <2>1, <2>2, <2>4, <2>5, <2>6 DEF Confirmed, KeyIn, Artifact
  <2>10. \A m \in Names \ {r.name} : KeyIn("JwtBearerKeys", m)' = KeyIn("JwtBearerKeys", m)
    BY <2>6 DEF KeyIn, Artifact
  <2>11. IssuerUnshared(r.name, r.id, r.planned)' = IssuerUnshared(r.name, r.id, r.planned)
    BY <2>1, <2>10 DEF IssuerUnshared, Survivors
  <2>12. StoreUnshared(r.name)' = StoreUnshared(r.name)
    BY <2>1 DEF StoreUnshared, Survivors
  <2>13. r.blocked = FALSE => \A k \in (r.purge \intersect VaultKinds) \ (r.todo \ gone) :
                                vault'[ArtifactOf(k)][r.name] = None
    <3>1. SUFFICES ASSUME r.blocked = FALSE,
                          NEW k \in (r.purge \intersect VaultKinds) \ (r.todo \ gone)
                   PROVE  vault'[ArtifactOf(k)][r.name] = None
      OBVIOUS
    <3>2. ArtifactOf(k) \in Artifact
      BY DEF VaultKinds, ArtifactOf, Artifact
    <3>3. CASE k \notin r.todo
      <4>1. vault[ArtifactOf(k)][r.name] = None
        BY <2>4, <3>1, <3>3 DEF Confirmed
      <4> QED
        BY <2>6, <3>2, <4>1
    <3>4. CASE k \in gone
      <4>1. k = kind
        BY <3>4 DEF VaultKinds
      <4> QED
        BY <2>6, <4>1
    <3> QED
      BY <3>3, <3>4
  <2>14. Confirmed(run[p])'
    BY <2>1, <2>4, <2>8, <2>9, <2>11, <2>12, <2>13 DEF Confirmed
  <2> QED
    BY <2>1, <2>7, <2>14 DEF RemovalOK
<1>5. CASE RemoveTargetFails(p)
  <2> DEFINE rest == r.todo \ {NextTarget(r.todo)}
  <2>1. /\ r.pc = "remove" /\ run'[p].pc = "remove" /\ run'[p].name = r.name
        /\ run'[p].id = r.id /\ run'[p].todo = rest /\ run'[p].purge = r.purge
        /\ run'[p].planned = r.planned /\ run'[p].blocked = TRUE
        /\ UNCHANGED <<rows, vault, lock>>
    BY <1>5, <1>a DEF RemoveTargetFails, RunState
  <2>2. rest \subseteq r.todo
    OBVIOUS
  <2> HIDE DEF rest
  <2>3. HoldsOK(p)'
    BY <1>b, <1>c, <1>d, <2>1 DEF HoldsOK
  <2>4. Confirmed(run[p])
    BY <1>d, <2>1 DEF RemovalOK
  <2>5. Confirmed(run[p])'
    BY <2>1, <2>2, <2>4 DEF Confirmed, KeyIn, IssuerUnshared, StoreUnshared, Survivors
  <2> QED
    BY <2>1, <2>3, <2>5 DEF RemovalOK
<1>6. CASE RemoveConfigEntry(p) \/ Fails(p)
  BY <1>6, EndKeeps DEF RemoveConfigEntry, Fails
<1> QED
  BY <1>1, <1>2, <1>3, <1>4, <1>5, <1>6

(* The initial states satisfy both. *)
LEMMA InitOK == Init => TypeOK /\ LifecycleInvariant
<1> SUFFICES ASSUME Init PROVE TypeOK /\ LifecycleInvariant
  OBVIOUS
<1>1. \A p \in Procs : run[p] = Idle
  BY DEF Init
<1>2. Idle.pc = "idle"
  BY DEF Idle
<1>3. "idle" \notin Locked /\ "idle" \notin KeySteps /\ "idle" \notin RemoveSteps
      /\ "idle" \notin HoldSteps
  BY DEF Locked, OnboardSteps, HoldSteps, RemoveSteps, KeySteps
<1>4. LifecycleInvariant
  BY <1>1, <1>2, <1>3 DEF LifecycleInvariant, HoldsOK, RemovalOK
<1>5. vault \in [Artifact -> [Names -> Credential \union {None}]]
  <2>1. (CHOOSE k \in Keys : TRUE) \in Keys
    OBVIOUS
  <2>2. \A n \in Names : rows[n] # None => rows[n] \in Ids
    BY DEF Init
  <2> QED
    BY <2>1, <2>2 DEF Init, Credential
<1>6. \A s \in stores : \E k \in FileKinds \union NamedKinds, n \in Names : s = Path(k, n)
  <2>1. StoreKinds \subseteq FileKinds \union NamedKinds
    BY DEF FileKinds, NamedKinds
  <2> QED
    BY <2>1 DEF Init
<1> QED
  BY <1>4, <1>5, <1>6, IdleTyped DEF Init, TypeOK

(* Every step of the specification is a step of one process. *)
LEMMA NextIsActs == [Next]_vars => (\E p \in Procs : Acts(p)) \/ UNCHANGED vars
  BY DEF Next, Acts

(* One step keeps types and invariant. *)
LEMMA InvariantStep ==
  ASSUME TypeOK, LifecycleInvariant, [Next]_vars
  PROVE  TypeOK' /\ LifecycleInvariant'
<1>1. CASE UNCHANGED vars
  <2>1. TypeOK'
    BY <1>1 DEF TypeOK, vars, Path
  <2>2. ASSUME NEW p \in Procs PROVE HoldsOK(p)' /\ RemovalOK(p)'
    <3>1. HoldsOK(p) /\ RemovalOK(p)
      BY DEF LifecycleInvariant
    <3> QED
      BY <1>1, <3>1 DEF vars, HoldsOK, RemovalOK, Confirmed, KeyIn, IssuerUnshared,
         StoreUnshared, Survivors
  <2> QED
    BY <2>1, <2>2 DEF LifecycleInvariant
<1>2. ASSUME NEW p \in Procs, Acts(p) PROVE TypeOK' /\ LifecycleInvariant'
  <2>1. HoldsOK(p) /\ RemovalOK(p)
    BY DEF LifecycleInvariant
  <2>2. TypeOK'
    BY <1>2, <2>1, TypeStep
  <2>3. OwnStep(p)
    BY <1>2, StepIsOwn
  <2>4. HoldsOK(p)' /\ RemovalOK(p)'
    <3>1. CASE Begin(p)
      BY <3>1, BeginKeeps
    <3>2. CASE Continue(p) /\ run[p].pc \notin OffboardSteps
      BY <2>1, <3>2, HoldKeeps
    <3>3. CASE Continue(p) /\ run[p].pc \in OffboardSteps
      <4>1. \/ WriteBackup(p) \/ Recheck(p) \/ RemoveRemoteIssuer(p) \/ RemoveTarget(p)
            \/ RemoveConfigEntry(p)
        BY <3>3 DEF Continue, OffboardSteps, RemoveSteps, SaveJwk, RecordTenant, SaveLogKey,
           HoldRefused, ResolvedSteps, Held, PutLogKey, RemoveLogKey, ImportKey, SetupPut,
           SetupPublish, RotatePublish, RotatePut, RotateRetire, UnpublishKey, WriteStore
      <4> QED
        BY <2>1, <4>1, RemovalKeeps
    <3>4. CASE RemoteIssuerFails(p) \/ RemoveTargetFails(p) \/ Fails(p)
      BY <2>1, <3>4, RemovalKeeps
    <3> QED
      BY <1>2, <3>1, <3>2, <3>3, <3>4 DEF Acts
  <2>5. ASSUME NEW q \in Procs \ {p} PROVE HoldsOK(q)' /\ RemovalOK(q)'
    <3>1. HoldsOK(q) /\ RemovalOK(q)
      BY DEF LifecycleInvariant
    <3> QED
      BY <2>1, <2>3, <3>1, OthersKept
  <2> QED
    BY <2>2, <2>4, <2>5 DEF LifecycleInvariant
<1> QED
  BY <1>1, <1>2, NextIsActs

(* The invariant says what PlanStaysTrue says, and more. *)
LEMMA PlanFollows == LifecycleInvariant => PlanStaysTrue
  BY DEF LifecycleInvariant, PlanStaysTrue, RemovalOK, Confirmed

(* A log or jwt-bearer key is stored under the row of its own tenant. *)
LEMMA StoredStep ==
  ASSUME TypeOK, LifecycleInvariant, [Next]_vars,
         NEW a \in {"LogKeys", "JwtBearerKeys"}, NEW n \in Names,
         vault'[a][n] # vault[a][n], vault'[a][n] # None
  PROVE  vault'[a][n].of = rows'[n]
<1>1. PICK p \in Procs : Acts(p)
  BY NextIsActs DEF vars
<1> DEFINE r == run[p]
<1>2. HoldsOK(p) /\ a \in Artifact
  BY DEF LifecycleInvariant, Artifact
<1>a. ASSUME NEW b \in Artifact, NEW m \in Names, NEW c, Store(b, m, c)
      PROVE  a = b /\ n = m /\ vault'[a][n] = c
  BY <1>a, <1>2 DEF Store, TypeOK
<1>b. "Jwks" \in Artifact /\ "LogKeys" \in Artifact /\ "JwtBearerKeys" \in Artifact
  BY DEF Artifact
<1>c. r.pc # "idle" => r.name \in Names
  BY <1>2 DEF HoldsOK
<1>d. r.pc \in HoldSteps \union {"logkey"} => rows[r.name] = r.id
  BY <1>2 DEF HoldsOK
<1>3. CASE SaveJwk(p)
  BY <1>3, <1>a, <1>b, <1>c DEF SaveJwk
<1>4. CASE SaveLogKey(p)
  BY <1>4, <1>a, <1>b, <1>c, <1>d DEF SaveLogKey
<1>5. CASE PutLogKey(p)
  BY <1>5, <1>a, <1>b, <1>c, <1>d DEF PutLogKey, HoldSteps
<1>6. CASE RemoveLogKey(p)
  BY <1>6, <1>a, <1>b, <1>c DEF RemoveLogKey
<1>7. CASE \E f \in BOOLEAN : ImportKey(p, f)
  BY <1>7, <1>a, <1>b, <1>c, <1>d DEF ImportKey, HoldSteps
<1>8. CASE SetupPut(p)
  <2>1. CASE KeyIn("JwtBearerKeys", r.name) = None
    BY <1>8, <2>1, <1>a, <1>b, <1>c, <1>d DEF SetupPut, HoldSteps
  <2>2. CASE KeyIn("JwtBearerKeys", r.name) # None
    BY <1>8, <2>2, <1>a, <1>b, <1>c DEF SetupPut
  <2> QED
    BY <2>1, <2>2
<1>9. CASE RotatePut(p)
  BY <1>9, <1>a, <1>b, <1>c, <1>d DEF RotatePut, HoldSteps
<1>10. CASE RemoveTarget(p)
  <2>1. \A k \in VaultKinds : ArtifactOf(k) \in Artifact
    BY DEF VaultKinds, ArtifactOf, Artifact
  <2> QED
    BY <1>10, <1>a, <1>c, <2>1 DEF RemoveTarget
<1>11. CASE UNCHANGED vault
  BY <1>11
<1> QED
  BY <1>1, <1>3, <1>4, <1>5, <1>6, <1>7, <1>8, <1>9, <1>10, <1>11
  DEF Acts, Begin, Continue, Onboard, Resolve, PlanRemoval, RecordTenant, HoldRefused, Held,
      SetupPublish, RotatePublish, RotateRetire, UnpublishKey, WriteStore, WriteBackup, Recheck,
      RemoveRemoteIssuer, RemoveConfigEntry, RemoteIssuerFails, RemoveTargetFails, Fails

(* While an offboarding removes, no database and no kid of a survivor goes. *)
LEMMA SharedStep ==
  ASSUME TypeOK, LifecycleInvariant, [Next]_vars,
         NEW p \in Procs, run[p].pc \in RemoveSteps, NEW m \in Survivors(run[p].name)
  PROVE  /\ \A k \in FileKinds : Path(k, m) \in stores => Path(k, m) \in stores'
         /\ <<UrlOf[rows[m]], KeyIn("JwtBearerKeys", m)>> \in published
              => <<UrlOf[rows[m]], KeyIn("JwtBearerKeys", m)>> \in published'
<1> DEFINE r == run[p]
<1>1. CASE UNCHANGED vars
  BY <1>1 DEF vars
<1>2. ASSUME NEW q \in Procs \ {p}, Acts(q)
      PROVE  stores \subseteq stores' /\ published' = published
  <2>1. lock = p /\ run[q].pc \notin Locked
    BY DEF LifecycleInvariant, HoldsOK, Locked
  <2>2. published' = published
    BY <1>2, <2>1, StepIsOwn DEF OwnStep
  <2>3. ~RemoveTarget(q)
    BY <2>1 DEF RemoveTarget, Locked, RemoveSteps
  <2>4. stores \subseteq stores'
    BY <1>2, <2>3
    DEF Acts, Begin, Continue, Onboard, Resolve, PlanRemoval, SaveJwk, RecordTenant, SaveLogKey,
        HoldRefused, Held, PutLogKey, RemoveLogKey, ImportKey, SetupPut,
        SetupPublish, RotatePublish, RotatePut, RotateRetire, UnpublishKey, WriteStore,
        WriteBackup, Recheck, RemoveRemoteIssuer, RemoveConfigEntry, RemoteIssuerFails,
        RemoveTargetFails, Fails
  <2> QED
    BY <2>2, <2>4
<1>3. ASSUME Acts(p)
      PROVE  \/ RemoveRemoteIssuer(p) \/ RemoveTarget(p)
             \/ UNCHANGED <<stores, published>>
  BY <1>3
  DEF RemoveSteps, Acts, Begin, Start, Continue, Onboard, Resolve, PlanRemoval, SaveJwk,
      RecordTenant, SaveLogKey, HoldRefused, Held, PutLogKey, RemoveLogKey, ImportKey, SetupPut,
      SetupPublish, RotatePublish, RotatePut, RotateRetire, UnpublishKey, WriteStore,
      WriteBackup, Recheck, RemoveConfigEntry, RemoteIssuerFails, RemoveTargetFails, Fails
<1>4. Confirmed(r) /\ r.name \in Names /\ m \in Names \ {r.name}
  BY DEF LifecycleInvariant, RemovalOK, HoldsOK, RemoveSteps, Survivors
<1>5. CASE RemoveRemoteIssuer(p)
  <2>1. IssuerUnshared(r.name, r.id, r.planned)
    BY <1>4, <1>5 DEF RemoveRemoteIssuer, Confirmed
  <2>2. <<UrlOf[rows[m]], KeyIn("JwtBearerKeys", m)>> # <<UrlOf[r.id], r.planned.issuer>>
    BY <2>1 DEF IssuerUnshared
  <2> QED
    BY <1>5, <2>2 DEF RemoveRemoteIssuer
<1>6. CASE RemoveTarget(p)
  <2> DEFINE kind == NextTarget(r.todo)
             gone == IF kind = "Workspace" THEN {"Workspace", "SyncState"} ELSE {kind}
  <2>1. kind \in r.todo
    BY <1>6, NextTargetIn, RunTyped DEF RemoveTarget
  <2>2. published' = published
    BY <1>6 DEF RemoveTarget
  <2>3. CASE kind \in FileKinds
    <3>1. FileOf[m] # FileOf[r.name]
      BY <1>4, <2>1, <2>3 DEF Confirmed, StoreUnshared
    <3>2. \A k \in FileKinds : Path(k, m) \notin {Path(l, r.name) : l \in {kind}}
      BY <2>3, <3>1 DEF Path
    <3>3. gone = {kind}
      BY <2>3 DEF FileKinds
    <3>4. stores' = stores \ {Path(l, r.name) : l \in gone}
      BY <1>6, <2>3 DEF RemoveTarget, FileKinds, VaultKinds
    <3> QED
      BY <2>2, <3>2, <3>3, <3>4
  <2>4. CASE kind \notin FileKinds
    <3>1. gone \intersect FileKinds = {}
      BY <2>4 DEF FileKinds
    <3>2. stores' = stores \/ stores' = stores \ {Path(l, r.name) : l \in gone}
      BY <1>6 DEF RemoveTarget
    <3>3. \A k \in FileKinds, l \in gone : Path(k, m) # Path(l, r.name)
      BY <3>1 DEF Path
    <3> QED
      BY <2>2, <3>2, <3>3
  <2> QED
    BY <2>3, <2>4
<1> QED
  BY <1>1, <1>2, <1>3, <1>5, <1>6, NextIsActs

(* A row goes only after every credential that was to go with it. *)
LEMMA RowStep ==
  ASSUME TypeOK, LifecycleInvariant, [Next]_vars,
         NEW p \in Procs, run[p].pc = "remove", rows[run[p].name] # None,
         rows'[run[p].name] = None, run'[p] # run[p],
         NEW k \in run[p].purge \intersect VaultKinds
  PROVE  vault[ArtifactOf(k)][run[p].name] = None
<1>1. PICK q \in Procs : Acts(q)
  BY NextIsActs DEF vars
<1>2. q = p
  BY <1>1, StepIsOwn DEF OwnStep
<1>3. RemoveConfigEntry(p)
  BY <1>1, <1>2
  DEF Acts, Begin, Start, Continue, Onboard, Resolve, PlanRemoval, SaveJwk, RecordTenant,
      SaveLogKey, HoldRefused, ResolvedSteps, Held, PutLogKey, RemoveLogKey, ImportKey, SetupPut,
      SetupPublish, RotatePublish, RotatePut, RotateRetire, UnpublishKey, WriteStore,
      WriteBackup, Recheck, RemoveRemoteIssuer, RemoveTarget, RemoteIssuerFails,
      RemoveTargetFails, Fails
<1>4. run[p].todo = {} /\ ~run[p].blocked
  BY <1>3 DEF RemoveConfigEntry, RowMayGo
<1>5. run[p].blocked \in BOOLEAN
  BY RunTyped
<1>6. run[p].blocked = FALSE
  BY <1>4, <1>5, Zenon
<1>7. Confirmed(run[p])
  BY DEF LifecycleInvariant, RemovalOK, RemoveSteps
<1> QED
  BY <1>4, <1>6, <1>7 DEF Confirmed

(* Types and invariant hold throughout, whatever tenants, processes and        *)
(* failures there are.                                                         *)
THEOREM LifecycleInvariantHolds == Spec => [](TypeOK /\ LifecycleInvariant)
<1>1. Init => TypeOK /\ LifecycleInvariant
  BY InitOK
<1>2. TypeOK /\ LifecycleInvariant /\ [Next]_vars => (TypeOK /\ LifecycleInvariant)'
  BY InvariantStep
<1> QED
  BY <1>1, <1>2, PTL DEF Spec

(* An offboarding (offboard/ops.rs: recheck, execute) removes what its operator *)
(* confirmed and nothing that a survivor depends on, the row last, and a key is *)
(* stored only under the name that still means its tenant (hold_tenant).        *)
THEOREM OffboardingIsSafe == Spec => OffboardingSafe
<1> DEFINE Inv == TypeOK /\ LifecycleInvariant
           Stored == \A a \in {"LogKeys", "JwtBearerKeys"}, n \in Names :
                        vault'[a][n] # vault[a][n] /\ vault'[a][n] # None
                           => vault'[a][n].of = rows'[n]
           Shared == \A p \in Procs : run[p].pc \in RemoveSteps =>
                        \A m \in Survivors(run[p].name) :
                          /\ \A k \in FileKinds : Path(k, m) \in stores => Path(k, m) \in stores'
                          /\ <<UrlOf[rows[m]], KeyIn("JwtBearerKeys", m)>> \in published
                               => <<UrlOf[rows[m]], KeyIn("JwtBearerKeys", m)>> \in published'
           RowLast == \A p \in Procs :
                        (run[p].pc = "remove" /\ rows[run[p].name] # None
                           /\ rows'[run[p].name] = None /\ run'[p] # run[p])
                        => \A k \in run[p].purge \intersect VaultKinds :
                               vault[ArtifactOf(k)][run[p].name] = None
<1>1. Inv => TypeOK /\ PlanStaysTrue /\ LifecycleInvariant
  BY PlanFollows
<1>2. Inv /\ [Next]_vars => Stored
  BY StoredStep
<1>3. Inv /\ [Next]_vars => Shared
  BY SharedStep
<1>4. Inv /\ [Next]_vars => RowLast
  BY RowStep
<1>5. Spec => []Inv /\ [][Next]_vars
  BY LifecycleInvariantHolds, PTL DEF Spec
<1> HIDE DEF Inv, Stored, Shared, RowLast
<1>6. Spec => [](TypeOK /\ PlanStaysTrue /\ LifecycleInvariant)
  BY <1>1, <1>5, PTL
<1>7. Spec => [][Stored]_vars
  BY <1>2, <1>5, PTL
<1>8. Spec => [][Shared]_vars
  BY <1>3, <1>5, PTL
<1>9. Spec => [][RowLast]_vars
  BY <1>4, <1>5, PTL
<1> QED
  BY <1>6, <1>7, <1>8, <1>9
  DEF OffboardingSafe, StoredForItsTenant, SurvivorKeepsShared, RowOutlivesCredentials,
      Stored, Shared, RowLast
=============================================================================
