--------------------------- MODULE TenantLifecycle ---------------------------
(***************************************************************************)
(* Tenants come and go by NAME: the `[[tenant]]` row of config.toml, three *)
(* vault artifacts (service-account JWK, log API key, jwt-bearer key), the *)
(* stores on disk and the kid this install publishes in the tenant's       *)
(* Trusted JWT issuer.  Several `aic` processes onboard, offboard and      *)
(* store keys at once.  What keeps them apart is tenants.lock, taken with  *)
(* try_lock, and the identity (base URL and service account) each          *)
(* re-reads under it.                                                      *)
(*                                                                         *)
(* A row is its identity; default_tenant, current-context, theme, scopes   *)
(* and provenance steer prompts, not removals, and are left out.  The      *)
(* backup an offboarding writes first is a step that may fail.  A process  *)
(* that dies lets go of the flock.                                         *)
(***************************************************************************)
EXTENDS Naturals, FiniteSets

CONSTANTS
    Names,      \* tenant names
    Ids,        \* identities: a base URL with a service account
    UrlOf,      \* [Ids -> base URLs]
    SaOf,       \* [Ids -> service-account ids]; NoSa for a log-only tenant
    FileOf,     \* [Names -> file names]: tenant_file_name, not injective
    Keys,       \* api_key_ids and kids
    Procs,      \* aic processes
    StoreKinds, \* the paths that may exist, of FileKinds and NamedKinds
    MaxOps,     \* bound: operations started
    MaxFaults,  \* bound: failed steps and crashes
    None, NoSa, Free

ASSUME LifecycleAssumption ==
    /\ None \notin Ids /\ None \notin Keys /\ Keys # {} /\ Free \notin Procs
    /\ DOMAIN UrlOf = Ids /\ DOMAIN SaOf = Ids /\ DOMAIN FileOf = Names
    /\ StoreKinds \subseteq {"LogsDatabase", "IdmStore", "Workspace", "SyncState", "UndoLog"}
    /\ MaxOps \in Nat /\ MaxFaults \in Nat

VARIABLES
    rows,       \* config.toml: name -> identity or None
    vault,      \* artifact -> name -> credential or None
    stores,     \* the paths on disk
    published,  \* kids in the issuers, as <<base URL, kid>>
    lock,       \* tenants.lock
    run,        \* what each process is doing
    ops, faults \* the bounds' counters

vars == <<rows, vault, stores, published, lock, run, ops, faults>>

Artifact == {"Jwks", "LogKeys", "JwtBearerKeys"}
\* A stored credential, with the identity it was obtained for.
Credential == [of : Ids, key : Keys]

FileKinds == {"LogsDatabase", "IdmStore"}
NamedKinds == {"Workspace", "SyncState", "UndoLog"}
VaultKinds == {"ServiceAccountJwk", "LogApiKey", "IssuerSigningKey"}
TargetKind == VaultKinds \union FileKinds \union NamedKinds

\* The order in which execute removes what is purged.
ExecuteOrder == <<"ServiceAccountJwk", "LogApiKey", "IssuerSigningKey",
                  "LogsDatabase", "IdmStore", "Workspace", "SyncState", "UndoLog">>

ArtifactOf(kind) ==
    CASE kind = "ServiceAccountJwk" -> "Jwks"
      [] kind = "LogApiKey"         -> "LogKeys"
      [] kind = "IssuerSigningKey"  -> "JwtBearerKeys"

\* Layout: the two databases are named by the sanitised tenant name, the rest
\* by the name itself.
Path(kind, name) == <<kind, IF kind \in FileKinds THEN FileOf[name] ELSE name>>

KeyIn(artifact, name) ==
    IF vault[artifact][name] = None THEN None ELSE vault[artifact][name].key

-----------------------------------------------------------------------------
(* What offboarding plans. *)

\* inventory_from(probe_vault, probe_paths).  A JWK is only present or absent;
\* the other two credentials are known by their identifiers.
Inventory(name) ==
    [jwk    |-> vault["Jwks"][name] # None,
     log    |-> KeyIn("LogKeys", name),
     issuer |-> KeyIn("JwtBearerKeys", name),
     paths  |-> {k \in FileKinds \union NamedKinds : Path(k, name) \in stores}]

EmptyInventory == [jwk |-> FALSE, log |-> None, issuer |-> None, paths |-> {}]

Inventories == [jwk : BOOLEAN, log : Keys \union {None},
                issuer : Keys \union {None}, paths : SUBSET (FileKinds \union NamedKinds)]

\* survivors_from: the other rows.
Survivors(name) == {m \in Names \ {name} : rows[m] # None}

\* The issuer guard: no survivor at this base URL stores the same kid.
IssuerUnshared(name, id, inv) ==
    \A m \in Survivors(name) : ~ /\ KeyIn("JwtBearerKeys", m) = inv.issuer
                                 /\ UrlOf[rows[m]] = UrlOf[id]

\* The store guard: no survivor's sanitised name is this file.
StoreUnshared(name) == \A m \in Survivors(name) : FileOf[m] # FileOf[name]

\* plan: the targets whose decision is Offered.
Offered(name, id, inv) ==
    {k \in TargetKind :
        CASE k = "ServiceAccountJwk" ->
               /\ inv.jwk
               /\ \/ SaOf[id] = NoSa
                  \/ \A m \in Survivors(name) : SaOf[rows[m]] # SaOf[id]
          [] k = "LogApiKey" ->
               /\ inv.log # None
               /\ \A m \in Survivors(name) : KeyIn("LogKeys", m) # inv.log
          [] k = "IssuerSigningKey" ->
               inv.issuer # None /\ IssuerUnshared(name, id, inv)
          [] k \in FileKinds -> k \in inv.paths /\ StoreUnshared(name)
          [] OTHER -> k \in inv.paths}

\* resolve_purge: what is not offered is dropped, and a workspace takes the
\* sync state inside it along.
ResolvePurge(requested, offered) ==
    (requested \intersect offered)
        \union (IF "Workspace" \in requested \intersect offered
                THEN {"SyncState"} \intersect offered ELSE {})

\* Mutant of StillSafe: the purge confirmed earlier is trusted.
StillSafeTrusted(name, id, planned, purge) == TRUE

\* spec::still_safe against the plan rebuilt under the lock.
StillSafe(name, id, planned, purge) ==
    /\ planned = Inventory(name)
    /\ purge \subseteq Offered(name, id, Inventory(name))

\* Mutant of StillPlanned: the row's name is enough.
StillPlannedByName(name, id) == TRUE

\* still_planned: the row is gone, or still the tenant the removal is for.
StillPlanned(name, id) == rows[name] \in {None, id}

-----------------------------------------------------------------------------
(* Processes. *)

Idle == [pc |-> "idle", name |-> None, id |-> None, jwk |-> None, key |-> None,
         old |-> None, planned |-> EmptyInventory, todo |-> {}, purge |-> {},
         blocked |-> FALSE]

OnboardSteps == {"jwk", "row", "logkey"}
HoldSteps == {"put_log", "rm_log", "import", "setup_put", "setup_publish",
              "rotate_publish", "rotate_put", "rotate_retire", "unpublish"}
ResolvedSteps == {"resolved_put_log", "resolved_rm_log", "resolved_import",
                  "resolved_setup", "resolved_rotate", "resolved_unpublish",
                  "resolved_store"}
RemoveSteps == {"remote", "remove"}
OffboardSteps == {"backup", "recheck"} \union RemoveSteps
\* The steps taken under tenants.lock.
Locked == OnboardSteps \union HoldSteps \union RemoveSteps
Steps == {"idle"} \union ResolvedSteps \union OffboardSteps \union Locked

Init ==
    /\ rows \in [Names -> Ids \union {None}]
    /\ vault = [a \in Artifact |-> [n \in Names |->
                  IF a = "Jwks" /\ rows[n] # None
                  THEN [of |-> rows[n], key |-> CHOOSE k \in Keys : TRUE] ELSE None]]
    /\ stores = {Path(k, n) : k \in StoreKinds,
                              n \in {m \in Names : rows[m] # None}}
    /\ published = {}
    /\ lock = Free
    /\ run = [p \in Procs |-> Idle]
    /\ ops = 0 /\ faults = 0

Start(p) == /\ run[p].pc = "idle" /\ ops < MaxOps
            /\ ops' = ops + 1

\* Mutant of End: the lock outlives the run (a LiveIo kept by the session).
EndKeepsLock(p) == run' = [run EXCEPT ![p] = Idle] /\ UNCHANGED lock

\* The process returns to the shell; a lock it holds goes with it.
End(p) == /\ run' = [run EXCEPT ![p] = Idle]
          /\ lock' = IF lock = p THEN Free ELSE lock

Goto(p, pc) == run' = [run EXCEPT ![p].pc = pc]

Fault == faults < MaxFaults /\ faults' = faults + 1
NoFault == UNCHANGED faults

Store(artifact, name, value) == vault' = [vault EXCEPT ![artifact][name] = value]

-----------------------------------------------------------------------------
(* Onboarding: persist_tenant_overwriting.  The operator has confirmed an   *)
(* overwrite of an existing name before this starts.                        *)

Onboard(p, name, id, jwk, key) ==
    /\ Start(p)
    /\ lock = Free /\ lock' = p
    /\ (jwk = None) <=> (SaOf[id] = NoSa)
    /\ run' = [run EXCEPT ![p] = [Idle EXCEPT !.pc = IF jwk = None THEN "row" ELSE "jwk",
                                     !.name = name, !.id = id, !.jwk = jwk, !.key = key]]
    /\ UNCHANGED <<rows, vault, stores, published>> /\ NoFault

\* save_jwk
SaveJwk(p) ==
    /\ run[p].pc = "jwk"
    /\ Store("Jwks", run[p].name, [of |-> run[p].id, key |-> run[p].jwk])
    /\ Goto(p, "row")
    /\ UNCHANGED <<rows, stores, published, lock, ops>> /\ NoFault

\* record_tenant
RecordTenant(p) ==
    /\ run[p].pc = "row"
    /\ rows' = [rows EXCEPT ![run[p].name] = run[p].id]
    /\ IF run[p].key = None THEN End(p) ELSE Goto(p, "logkey") /\ UNCHANGED lock
    /\ UNCHANGED <<vault, stores, published, ops>> /\ NoFault

\* save_log_key
SaveLogKey(p) ==
    /\ run[p].pc = "logkey"
    /\ Store("LogKeys", run[p].name, [of |-> run[p].id, key |-> run[p].key])
    /\ End(p)
    /\ UNCHANGED <<rows, stores, published, ops>> /\ NoFault

-----------------------------------------------------------------------------
(* Commands that resolve a tenant, talk to the operator, then hold it.      *)

Resolve(p, name, step, key) ==
    /\ Start(p)
    /\ rows[name] # None
    /\ run' = [run EXCEPT ![p] = [Idle EXCEPT !.pc = step, !.name = name,
                                     !.id = rows[name], !.key = key]]
    /\ UNCHANGED <<rows, vault, stores, published, lock>> /\ NoFault

\* Mutant of HoldTenant: the identity is not compared.
HoldTenantByName(p) == lock = Free /\ rows[run[p].name] # None

\* hold_tenant succeeds: the lock is free and the row is still this tenant's.
HoldTenant(p) == lock = Free /\ rows[run[p].name] = run[p].id

\* hold_tenant refuses: somebody holds the lock, or the row is gone or another's.
HoldRefused(p) ==
    /\ run[p].pc \in ResolvedSteps \ {"resolved_store"}
    /\ ~HoldTenant(p)
    /\ End(p)
    /\ UNCHANGED <<rows, vault, stores, published, ops>> /\ NoFault

Held(p, from, to) ==
    /\ run[p].pc = from /\ HoldTenant(p)
    /\ lock' = p
    /\ Goto(p, to)
    /\ UNCHANGED <<rows, vault, stores, published, ops>> /\ NoFault

\* `logs key set` and `logs key create`: put_log_key under the hold.
PutLogKey(p) ==
    /\ run[p].pc = "put_log"
    /\ Store("LogKeys", run[p].name, [of |-> run[p].id, key |-> run[p].key])
    /\ End(p)
    /\ UNCHANGED <<rows, stores, published, ops>> /\ NoFault

\* `logs key rm`
RemoveLogKey(p) ==
    /\ run[p].pc = "rm_log"
    /\ Store("LogKeys", run[p].name, None)
    /\ End(p)
    /\ UNCHANGED <<rows, stores, published, ops>> /\ NoFault

\* `jwt-bearer key import`: refused over a stored key without --force.
ImportKey(p, force) ==
    /\ run[p].pc = "import"
    /\ IF vault["JwtBearerKeys"][run[p].name] = None \/ force
       THEN Store("JwtBearerKeys", run[p].name, [of |-> run[p].id, key |-> run[p].key])
       ELSE UNCHANGED vault
    /\ End(p)
    /\ UNCHANGED <<rows, stores, published, ops>> /\ NoFault

\* setup, up to the store: the stored key is taken again, a first one is new.
SetupPut(p) ==
    /\ run[p].pc = "setup_put"
    /\ LET stored == KeyIn("JwtBearerKeys", run[p].name)
           kid == IF stored = None THEN run[p].key ELSE stored IN
       /\ Store("JwtBearerKeys", run[p].name,
                IF stored = None THEN [of |-> run[p].id, key |-> kid]
                ELSE vault["JwtBearerKeys"][run[p].name])
       /\ run' = [run EXCEPT ![p].pc = "setup_publish", ![p].key = kid]
    /\ UNCHANGED <<rows, stores, published, lock, ops>> /\ NoFault

\* setup, the publish: the kid joins the shared set.
SetupPublish(p) ==
    /\ run[p].pc = "setup_publish"
    /\ published' = published \union {<<UrlOf[run[p].id], run[p].key>>}
    /\ End(p)
    /\ UNCHANGED <<rows, vault, stores, ops>> /\ NoFault

\* rotate: publish the new key, store it, retire the old one.
RotatePublish(p) ==
    /\ run[p].pc = "rotate_publish"
    /\ IF KeyIn("JwtBearerKeys", run[p].name) = None
       THEN End(p) /\ UNCHANGED published
       ELSE /\ published' = published \union {<<UrlOf[run[p].id], run[p].key>>}
            /\ run' = [run EXCEPT ![p].pc = "rotate_put",
                                  ![p].old = KeyIn("JwtBearerKeys", run[p].name)]
            /\ UNCHANGED lock
    /\ UNCHANGED <<rows, vault, stores, ops>> /\ NoFault

RotatePut(p) ==
    /\ run[p].pc = "rotate_put"
    /\ Store("JwtBearerKeys", run[p].name, [of |-> run[p].id, key |-> run[p].key])
    /\ Goto(p, "rotate_retire")
    /\ UNCHANGED <<rows, stores, published, lock, ops>> /\ NoFault

RotateRetire(p) ==
    /\ run[p].pc = "rotate_retire"
    /\ published' = published \ {<<UrlOf[run[p].id], run[p].old>>}
    /\ End(p)
    /\ UNCHANGED <<rows, vault, stores, ops>> /\ NoFault

\* `jwt-bearer key remove --force`
UnpublishKey(p) ==
    /\ run[p].pc = "unpublish"
    /\ published' = published \ {<<UrlOf[run[p].id], run[p].key>>}
    /\ End(p)
    /\ UNCHANGED <<rows, vault, stores, ops>> /\ NoFault

\* A log or IDM sync, or a script pull, writes the tenant's store.  It holds
\* nothing, so the row may be gone by now.
WriteStore(p, kind) ==
    /\ run[p].pc = "resolved_store"
    /\ stores' = stores \union {Path(kind, run[p].name)}
    /\ End(p)
    /\ UNCHANGED <<rows, vault, published, ops>> /\ NoFault

-----------------------------------------------------------------------------
(* Offboarding: `ctx rm`. *)

\* run: load the config, probe, plan, print, and let the operator choose.  A
\* removal can always be repeated: it does not count against MaxOps.
PlanRemoval(p, name) ==
    /\ run[p].pc = "idle" /\ rows[name] # None
    /\ LET inv == Inventory(name)
           offered == Offered(name, rows[name], inv) IN
       \E requested \in SUBSET offered :
         run' = [run EXCEPT ![p] = [Idle EXCEPT !.pc = "backup", !.name = name,
                     !.id = rows[name], !.planned = inv,
                     !.purge = ResolvePurge(requested, offered)]]
    /\ UNCHANGED <<rows, vault, stores, published, lock, ops>> /\ NoFault

\* write_backup_step: without a backup nothing is removed.
WriteBackup(p) ==
    /\ run[p].pc = "backup"
    /\ Goto(p, "recheck")
    /\ UNCHANGED <<rows, vault, stores, published, lock, ops>> /\ NoFault

\* recheck: the lock, the identity, and the purge against a fresh plan.
Recheck(p) ==
    /\ run[p].pc = "recheck"
    /\ LET r == run[p] IN
       IF /\ lock = Free
          /\ StillPlanned(r.name, r.id)
          /\ StillSafe(r.name, r.id, r.planned, r.purge)
       THEN /\ lock' = p
            /\ run' = [run EXCEPT ![p].todo = r.purge,
                         ![p].pc = IF "IssuerSigningKey" \in r.purge
                                   THEN "remote" ELSE "remove"]
       ELSE End(p)
    /\ UNCHANGED <<rows, vault, stores, published, ops>> /\ NoFault

\* remove_remote_issuer, with this tenant's own bearer.
RemoveRemoteIssuer(p) ==
    /\ run[p].pc = "remote"
    /\ published' = published \ {<<UrlOf[run[p].id], run[p].planned.issuer>>}
    /\ Goto(p, "remove")
    /\ UNCHANGED <<rows, vault, stores, lock, ops>> /\ NoFault

\* A failed remote edit is reported and does not stop the local purge.
RemoteIssuerFails(p) ==
    /\ run[p].pc = "remote" /\ Fault
    /\ Goto(p, "remove")
    /\ UNCHANGED <<rows, vault, stores, published, lock, ops>>

NextTarget(todo) ==
    ExecuteOrder[CHOOSE i \in DOMAIN ExecuteOrder :
        /\ ExecuteOrder[i] \in todo
        /\ \A j \in 1..(i - 1) : ExecuteOrder[j] \notin todo]

\* The next removal of execute: a vault entry, a path or the undo entries.
\* Removing the workspace takes the sync state inside it.
RemoveTarget(p) ==
    /\ run[p].pc = "remove" /\ run[p].todo # {}
    /\ LET kind == NextTarget(run[p].todo)
           name == run[p].name
           gone == IF kind = "Workspace" THEN {"Workspace", "SyncState"} ELSE {kind} IN
       /\ run' = [run EXCEPT ![p].todo = @ \ gone]
       /\ IF kind \in VaultKinds
          THEN Store(ArtifactOf(kind), name, None) /\ UNCHANGED stores
          ELSE stores' = stores \ {Path(k, name) : k \in gone} /\ UNCHANGED vault
    /\ UNCHANGED <<rows, published, lock, ops>> /\ NoFault

\* A removal that fails is recorded; the others are still tried.
RemoveTargetFails(p) ==
    /\ run[p].pc = "remove" /\ run[p].todo # {} /\ Fault
    /\ run' = [run EXCEPT ![p].todo = @ \ {NextTarget(run[p].todo)}, ![p].blocked = TRUE]
    /\ UNCHANGED <<rows, vault, stores, published, lock, ops>>

\* Mutant of RowMayGo: a failed local step is only reported.
RowMayGoAnyway(p) == TRUE

\* blocking_failure keeps the row, so that the tenant stays addressable.
RowMayGo(p) == ~run[p].blocked

\* The row goes last: drop_planned under the config lock.
RemoveConfigEntry(p) ==
    /\ run[p].pc = "remove" /\ run[p].todo = {}
    /\ IF RowMayGo(p) /\ StillPlanned(run[p].name, run[p].id)
       THEN rows' = [rows EXCEPT ![run[p].name] = None]
       ELSE UNCHANGED rows
    /\ End(p)
    /\ UNCHANGED <<vault, stores, published, ops>> /\ NoFault

-----------------------------------------------------------------------------
\* A step of any other operation fails and the command returns its error, or
\* the process dies: either way the lock is free again and nothing is undone.
\* A command that stops before it has the lock leaves nothing behind.
Fails(p) ==
    /\ run[p].pc \in Locked \union {"backup"} /\ Fault
    /\ End(p)
    /\ UNCHANGED <<rows, vault, stores, published, ops>>

\* What a process may begin.
Begin(p) ==
    \/ \E n \in Names, i \in Ids, j, k \in Keys \union {None} : Onboard(p, n, i, j, k)
    \/ \E n \in Names, k \in Keys,
          s \in {"resolved_put_log", "resolved_import", "resolved_setup",
                 "resolved_rotate", "resolved_unpublish"} : Resolve(p, n, s, k)
    \/ \E n \in Names, s \in {"resolved_rm_log", "resolved_store"} : Resolve(p, n, s, None)
    \/ \E n \in Names : PlanRemoval(p, n)

\* What a process does next, on its own.
Continue(p) ==
    \/ SaveJwk(p) \/ RecordTenant(p) \/ SaveLogKey(p)
    \/ HoldRefused(p)
    \/ Held(p, "resolved_put_log", "put_log") \/ Held(p, "resolved_rm_log", "rm_log")
    \/ Held(p, "resolved_import", "import") \/ Held(p, "resolved_setup", "setup_put")
    \/ Held(p, "resolved_rotate", "rotate_publish")
    \/ Held(p, "resolved_unpublish", "unpublish")
    \/ PutLogKey(p) \/ RemoveLogKey(p) \/ \E f \in BOOLEAN : ImportKey(p, f)
    \/ SetupPut(p) \/ SetupPublish(p)
    \/ RotatePublish(p) \/ RotatePut(p) \/ RotateRetire(p) \/ UnpublishKey(p)
    \/ \E k \in StoreKinds : WriteStore(p, k)
    \/ WriteBackup(p) \/ Recheck(p) \/ RemoveRemoteIssuer(p)
    \/ RemoveTarget(p) \/ RemoveConfigEntry(p)

Next ==
    \E p \in Procs : \/ Begin(p) \/ Continue(p)
                     \/ RemoteIssuerFails(p) \/ RemoveTargetFails(p) \/ Fails(p)

Spec == Init /\ [][Next]_vars

\* A command runs on to its end, and the operator repeats a removal that left
\* the row in place.
FairSpec ==
    /\ Spec
    /\ \A p \in Procs : WF_vars(Continue(p))
    /\ \A n \in Names : WF_vars(\E p \in Procs : PlanRemoval(p, n))

-----------------------------------------------------------------------------
(* Properties. *)

RunState == [pc : Steps, name : Names \union {None}, id : Ids \union {None},
             jwk : Keys \union {None}, key : Keys \union {None}, old : Keys \union {None},
             planned : Inventories, todo : SUBSET TargetKind, purge : SUBSET TargetKind,
             blocked : BOOLEAN]

TypeOK ==
    /\ rows \in [Names -> Ids \union {None}]
    /\ vault \in [Artifact -> [Names -> Credential \union {None}]]
    /\ \A s \in stores : \E k \in FileKinds \union NamedKinds, n \in Names : s = Path(k, n)
    /\ \A e \in published : e[2] \in Keys
    /\ lock \in Procs \union {Free}
    /\ run \in [Procs -> RunState]
    /\ ops \in 0..MaxOps /\ faults \in 0..MaxFaults

\* While an offboarding removes, the plan its operator confirmed stays true:
\* the row is that tenant's (or gone), and each credential still to go is the
\* one shown.  No onboarding, key command or second offboarding can slip a
\* replacement under the name (tenants.lock, hold_tenant, recheck).
PlanStaysTrue ==
    \A p \in Procs : run[p].pc \in RemoveSteps =>
        LET r == run[p] IN
        /\ rows[r.name] \in {None, r.id}
        /\ "LogApiKey" \in r.todo => KeyIn("LogKeys", r.name) = r.planned.log
        /\ "IssuerSigningKey" \in r.todo => KeyIn("JwtBearerKeys", r.name) = r.planned.issuer

\* A log or jwt-bearer key is stored only under a name whose row is the
\* tenant it was obtained for, however long ago the command resolved that
\* row (hold_tenant; persist_tenant_overwriting stores the log key last).
StoredForItsTenant ==
    [][\A a \in {"LogKeys", "JwtBearerKeys"}, n \in Names :
         vault'[a][n] # vault[a][n] /\ vault'[a][n] # None
            => vault'[a][n].of = rows'[n]]_vars

\* Offboarding takes nothing a survivor depends on: not the database its
\* sanitised name shares, not the kid it signs with at the same base URL.
SurvivorKeepsShared ==
    [][\A p \in Procs : run[p].pc \in RemoveSteps =>
         \A m \in Survivors(run[p].name) :
           /\ \A k \in FileKinds : Path(k, m) \in stores => Path(k, m) \in stores'
           /\ <<UrlOf[rows[m]], KeyIn("JwtBearerKeys", m)>> \in published
                => <<UrlOf[rows[m]], KeyIn("JwtBearerKeys", m)>> \in published']_vars

\* A row disappears only when every credential its operator chose to purge is
\* gone from the vault: until then the name still addresses what is left, and
\* `ctx rm` can be repeated (execute's order and blocking_failure).
RowOutlivesCredentials ==
    [][\A p \in Procs :
         (run[p].pc = "remove" /\ rows[run[p].name] # None /\ rows'[run[p].name] = None
            /\ run'[p] # run[p])
         => \A k \in run[p].purge \intersect VaultKinds :
                vault[ArtifactOf(k)][run[p].name] = None]_vars

\* The steps that store or publish the key the command came with.
KeySteps == {"logkey", "put_log", "import", "setup_put", "setup_publish",
             "rotate_publish", "rotate_put", "resolved_put_log", "resolved_import",
             "resolved_setup", "resolved_rotate"}

\* What a command under way has in hand: a tenant, the lock where its steps
\* need it, and a row that is its tenant's from the hold to the end.
HoldsOK(p) ==
    LET r == run[p] IN
    /\ r.pc # "idle" => r.name \in Names /\ r.id \in Ids
    /\ r.pc \in Locked => lock = p
    /\ r.pc = "jwk" => r.jwk \in Keys
    /\ r.pc \in KeySteps \/ (r.pc = "row" /\ r.key # None) => r.key \in Keys
    /\ r.pc \in HoldSteps \union {"logkey"} => rows[r.name] = r.id

\* What a removal under way still may take: a target not yet removed is the one
\* that was shown and no survivor's, and one that was removed is gone.
Confirmed(r) ==
    /\ rows[r.name] \in {None, r.id}
    /\ r.todo \subseteq r.purge
    /\ "LogApiKey" \in r.todo => KeyIn("LogKeys", r.name) = r.planned.log
    /\ "IssuerSigningKey" \in r.todo =>
         /\ KeyIn("JwtBearerKeys", r.name) = r.planned.issuer
         /\ IssuerUnshared(r.name, r.id, r.planned)
    /\ r.todo \intersect FileKinds # {} => StoreUnshared(r.name)
    /\ r.pc = "remote" => "IssuerSigningKey" \in r.todo
    /\ r.blocked = FALSE => \A k \in (r.purge \intersect VaultKinds) \ r.todo :
                               vault[ArtifactOf(k)][r.name] = None

RemovalOK(p) ==
    /\ run[p].pc \in {"backup", "recheck"} => run[p].blocked = FALSE
    /\ run[p].pc \in RemoveSteps => Confirmed(run[p])

\* The two for every process: PlanStaysTrue and the three action properties
\* follow from it, and it is inductive because rows and vault entries change
\* only under tenants.lock.
LifecycleInvariant == \A p \in Procs : HoldsOK(p) /\ RemovalOK(p)

\* An offboarding removes what its operator confirmed and nothing that a
\* survivor depends on, the row last; and a key is stored only for its tenant.
OffboardingSafe ==
    /\ [](TypeOK /\ PlanStaysTrue /\ LifecycleInvariant)
    /\ StoredForItsTenant /\ SurvivorKeepsShared /\ RowOutlivesCredentials

\* What a removal that the operator keeps repeating must reach, once nothing
\* fails any more: no row, and so no lock left behind half way.
AllRemoved == \A n \in Names : rows[n] = None
=============================================================================
