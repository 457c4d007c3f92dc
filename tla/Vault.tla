------------------------------- MODULE Vault -------------------------------
(***************************************************************************)
(* The credential vault that every `aic` process of a project shares:      *)
(* three per-tenant maps under .aic/, each stored either in the clear      *)
(* (<stem>.plain) or encrypted under the vault's data key (<stem>.enc),    *)
(* the key itself wrapped once per factor in wraps.toml, and the flag      *)
(* encrypt_keys of settings.toml, which says which form is read.           *)
(*                                                                         *)
(* Several processes (TUI sessions, CLI commands, the daemon) act on these *)
(* files.  Each write of a file is two steps here, as it is in             *)
(* save_private_file: a sidecar is written, then renamed into place.  A    *)
(* process may die or meet an I/O error between any two steps.  flock is   *)
(* released by the kernel when its holder dies.                            *)
(*                                                                         *)
(* Acquiring a lock and the checks made right after it are one step: every *)
(* writer of the files read by the checks holds the same lock.             *)
(***************************************************************************)
EXTENDS Integers, FiniteSets

CONSTANTS Proc,      \* aic processes
          Artifact,  \* the credential maps: JWKs, log API keys, jwt-bearer keys
          Jwks,      \* the map an encrypted vault always has (keys.enc)
          Entry,     \* per-tenant credentials a map may hold
          Key,       \* data keys Dek::random can return
          Factor,    \* what a wrap is for: the password, a security key
          NoKey,     \* no data key: the plain form
          Nobody,    \* no holder
          MaxFaults, \* bound: crashes and I/O errors
          MaxLost    \* bound: times settings.toml is lost

ASSUME JwksAssumption == Jwks \in Artifact
ASSUME NoKeyAssumption == NoKey \notin Key
ASSUME NobodyAssumption == Nobody \notin Proc
ASSUME BoundAssumption == MaxFaults \in Nat /\ MaxLost \in Nat

VARIABLES
    settings,   \* settings.toml: its encrypt_keys flag, or "none" with no file
    files,      \* files[mode][a]: <stem>.plain and <stem>.enc
    wraps,      \* wraps.toml: the key each factor unwraps; all NoKey is no file
    junk,       \* sidecars no living process will rename, by what they hold
    shared,     \* processes with a shared hold of vault.lock
    excl,       \* the process with the exclusive hold of vault.lock
    alock,      \* holder of each map's <stem>.lock
    ses,        \* what each process believes: mode, key, key kept for a retry
    op,         \* the operation each process is in
    pc,         \* ... and the point it has reached
    opKey,      \* ... with this data key
    todo,       \* ... and these maps still to treat
    side,       \* the sidecar it has written and not yet renamed
    minted,     \* data keys handed out so far
    committed,  \* history: the mode last recorded in settings.toml
    truth,      \* history: the credentials added and not since removed
    faults, lost

disk == <<settings, files, wraps, junk>>
locks == <<shared, excl, alock>>
local == <<ses, op, pc, opKey, todo, side, minted>>
history == <<committed, truth, faults, lost>>
vars == <<disk, locks, local, history>>

Form == {"plain", "enc"}
Mode == Form \cup {"none"}
KeyOpt == Key \cup {NoKey}
Map == SUBSET Entry
File == [there : BOOLEAN, key : KeyOpt, map : Map]
SideKind == {"settings", "wraps", "plain", "enc"}

NoFile == [there |-> FALSE, key |-> NoKey, map |-> {}]
NoWraps == [f \in Factor |-> NoKey]

(* A sidecar, by the file it is to become. *)
MapSidecar(form, a, new, gain, loss) ==
    [file |-> form, art |-> a, map |-> new, gain |-> gain, loss |-> loss,
     mode |-> "none", wraps |-> NoWraps]
FlagSidecar(m) ==
    [file |-> "settings", art |-> Jwks, map |-> {}, gain |-> {}, loss |-> {},
     mode |-> m, wraps |-> NoWraps]
WrapsSidecar(w) ==
    [file |-> "wraps", art |-> Jwks, map |-> {}, gain |-> {}, loss |-> {},
     mode |-> "none", wraps |-> w]
NoSide == MapSidecar("none", Jwks, {}, {}, {})

(* What a session believes: the mode it loaded, the key it holds, the key of a
   failed first attempt. *)
Believes(m, k, r) == [mode |-> m, key |-> k, retry |-> r]
Closed == Believes("none", NoKey, NoKey)

Other(form) == IF form = "enc" THEN "plain" ELSE "enc"

(* The form an optional data key selects: <stem>.enc under a key. *)
FormOf(dek) == IF dek = NoKey THEN "plain" ELSE "enc"

(* load_artifact_bytes succeeds: no file reads as absent, an encrypted one
   must open under the key. *)
Readable(a, dek) == LET file == files[FormOf(dek)][a]
                    IN file.there => file.key = dek
Load(a, dek) == files[FormOf(dek)][a].map

WrapsThere == wraps # NoWraps
-----------------------------------------------------------------------------
(* Plausible bugs, used to show that the properties can fail: each has the
   parameters of the definition it stands in for. *)

(* The mode is checked, but not that the key is the vault's own. *)
KeyExists(dek) == files["enc"][Jwks].there

(* Setup over whatever a lost settings.toml left behind. *)
SetupOverAnything(form) == TRUE

(* A retry that forgets to mint a key. *)
RetryKeyOnly(p) == {ses[p].retry}

(* Settling starts at the stale forms. *)
SweepNothing(p) ==
    /\ pc[p] = "sweep"
    /\ pc' = [pc EXCEPT ![p] = "stale"]
    /\ todo' = [todo EXCEPT ![p] = IF settings = "none" THEN {} ELSE Artifact]
    /\ UNCHANGED <<disk, locks, ses, op, opKey, side, minted, history>>

(* The other form goes whether or not the form in use exists. *)
DiscardUnchecked(a, form) == [files EXCEPT ![Other(form)][a] = NoFile]

(* A map missing in the form in use is taken for an empty one. *)
MissingIsEmpty(a, dek) == TRUE

(* An updater takes the map's lock but not the vault's. *)
BeginUpdateUnshared(p) ==
    /\ pc[p] = "idle"
    /\ ses[p].mode = "plain" \/ ses[p].key # NoKey
    /\ op' = [op EXCEPT ![p] = "update"] /\ pc' = [pc EXCEPT ![p] = "lock"]
    /\ opKey' = [opKey EXCEPT ![p] = ses[p].key]
    /\ UNCHANGED <<disk, locks, ses, todo, side, minted, history>>

(* The wrap is left for after the migration. *)
AfterSettleNoWrap(p) ==
    /\ pc' = [pc EXCEPT ![p] = IF op[p] \in {"enable", "disable"} THEN "migrate" ELSE "idle"]
    /\ op' = [op EXCEPT ![p] = IF @ \in {"enable", "disable"} THEN @ ELSE "none"]
    /\ todo' = [todo EXCEPT ![p] = Artifact]
    /\ excl' = IF op[p] \in {"enable", "disable"} THEN excl ELSE Nobody
    /\ UNCHANGED <<shared, alock, ses, opKey>>

(* A map the mode in use has no file for is tried again. *)
DiscardStaleRetrying(p) ==
    /\ pc[p] = "stale"
    /\ \E a \in todo[p] :
         /\ files' = DiscardUnchecked(a, settings)
         /\ todo' = [todo EXCEPT ![p] = IF files[settings][a].there THEN @ \ {a} ELSE @]
    /\ UNCHANGED <<settings, wraps, junk, locks, ses, op, pc, opKey, side, minted, history>>
-----------------------------------------------------------------------------
(* Checks, each made under a hold of the vault lock. *)

key_is_current(dek) == files["enc"][Jwks].there /\ files["enc"][Jwks].key = dek

vault_mode_is(dek) == /\ settings = FormOf(dek)
                      /\ dek # NoKey => key_is_current(dek)

no_files_in_form(form) == \A a \in Artifact : ~files[form][a].there

not_only_in_other_form(a, dek) ==
    files[FormOf(dek)][a].there \/ ~files[Other(FormOf(dek))][a].there

(* A destination with no source is kept, so it must open under `to`. *)
migration_preflight(a, from, to) ==
    \/ files[FormOf(from)][a].there
    \/ Readable(a, to)

interrupted_first_run ==
    /\ settings = "none" /\ WrapsThere
    /\ files["enc"][Jwks].there
    /\ no_files_in_form("plain")
-----------------------------------------------------------------------------
Init ==
    /\ settings = "none" /\ committed = "none"
    /\ files = [form \in Form |-> [a \in Artifact |-> NoFile]]
    /\ wraps = NoWraps
    /\ junk = {}
    /\ shared = {} /\ excl = Nobody /\ alock = [a \in Artifact |-> Nobody]
    /\ ses = [p \in Proc |-> Closed]
    /\ op = [p \in Proc |-> "none"] /\ pc = [p \in Proc |-> "off"]
    /\ opKey = [p \in Proc |-> NoKey] /\ todo = [p \in Proc |-> {}]
    /\ side = [p \in Proc |-> NoSide]
    /\ minted = {}
    /\ truth = [a \in Artifact |-> {}]
    /\ faults = 0 /\ lost = 0

(* A vault whose encryption change was interrupted by an older aic, which deleted
   each map's source as it went: every map is in one form or the other. *)
LegacyInit ==
    /\ settings \in Form /\ committed = settings
    /\ truth \in [Artifact -> Map]
    /\ \E k \in Key, f \in Factor : \E form \in [Artifact -> Form] :
         /\ files = [m \in Form |-> [a \in Artifact |->
                       IF form[a] # m THEN NoFile
                       ELSE [there |-> TRUE, map |-> truth[a],
                             key |-> IF m = "enc" THEN k ELSE NoKey]]]
         /\ wraps = [NoWraps EXCEPT ![f] = k]
         /\ minted = {k}
    /\ junk = {}
    /\ shared = {} /\ excl = Nobody /\ alock = [a \in Artifact |-> Nobody]
    /\ ses = [p \in Proc |-> Closed]
    /\ op = [p \in Proc |-> "none"] /\ pc = [p \in Proc |-> "off"]
    /\ opKey = [p \in Proc |-> NoKey] /\ todo = [p \in Proc |-> {}]
    /\ side = [p \in Proc |-> NoSide]
    /\ faults = 0 /\ lost = 0

LockFree == shared = {} /\ excl = Nobody

(* The process starts operation o at stage s holding the vault lock exclusively. *)
Enter(p, o, s, k) ==
    /\ LockFree /\ excl' = p
    /\ op' = [op EXCEPT ![p] = o] /\ pc' = [pc EXCEPT ![p] = s]
    /\ opKey' = [opKey EXCEPT ![p] = k]
    /\ UNCHANGED <<shared, alock>>

Goto(p, s) == pc' = [pc EXCEPT ![p] = s]

(* The operation is over: its locks go, the session s is what it leaves. *)
Return(p, s) ==
    /\ shared' = shared \ {p}
    /\ excl' = IF excl = p THEN Nobody ELSE excl
    /\ alock' = [a \in Artifact |-> IF alock[a] = p THEN Nobody ELSE alock[a]]
    /\ ses' = [ses EXCEPT ![p] = s]
    /\ op' = [op EXCEPT ![p] = "none"] /\ pc' = [pc EXCEPT ![p] = "idle"]
    /\ opKey' = [opKey EXCEPT ![p] = NoKey] /\ todo' = [todo EXCEPT ![p] = {}]
-----------------------------------------------------------------------------
(* Sessions. *)

(* A process starts and loads settings.toml, under no lock. *)
OpenSession(p) ==
    /\ pc[p] = "off"
    /\ ses' = [ses EXCEPT ![p] = Believes(settings, NoKey, NoKey)]
    /\ Goto(p, "idle")
    /\ UNCHANGED <<disk, locks, op, opKey, todo, side, minted, history>>

CloseSession(p) ==
    /\ pc[p] = "idle"
    /\ ses' = [ses EXCEPT ![p] = Closed]
    /\ Goto(p, "off")
    /\ UNCHANGED <<disk, locks, op, opKey, todo, side, minted, history>>

(* The first half of an unlock, under no lock: a factor unwraps the key that
   wraps.toml holds for it. *)
UnwrapKey(p) ==
    /\ pc[p] = "idle" /\ ses[p].key = NoKey
    /\ \/ ses[p].mode = "enc"
       \/ ses[p].mode = "none" /\ interrupted_first_run
    /\ \E f \in Factor :
         /\ wraps[f] # NoKey
         /\ opKey' = [opKey EXCEPT ![p] = wraps[f]]
    /\ op' = [op EXCEPT ![p] = "unlock"] /\ Goto(p, "unwrapped")
    /\ UNCHANGED <<disk, locks, ses, todo, side, minted, history>>

(* The second half: the encrypted maps are read with that key.  An unlock that
   found no settings.toml goes on to finish the first run, any other to settle
   the vault. *)
DecryptMaps(p) ==
    /\ pc[p] = "unwrapped"
    /\ IF \A a \in Artifact : Readable(a, opKey[p])
       THEN IF ses[p].mode = "none"
            THEN /\ op' = [op EXCEPT ![p] = "finish"] /\ Goto(p, "lock")
                 /\ UNCHANGED <<locks, ses, opKey, todo>>
            ELSE /\ op' = [op EXCEPT ![p] = "settle"] /\ Goto(p, "lock")
                 /\ ses' = [ses EXCEPT ![p] = Believes(@.mode, opKey[p], @.retry)]
                 /\ UNCHANGED <<locks, opKey, todo>>
       ELSE Return(p, ses[p])
    /\ UNCHANGED <<disk, side, minted, history>>
-----------------------------------------------------------------------------
(* Transitions, from the point they take the lock. *)

(* session_or_retry_dek: the key a failed first attempt minted, else a new one.
   A session that is not encrypted holds no other. *)
session_or_retry_dek(p) ==
    IF ses[p].retry # NoKey THEN {ses[p].retry} ELSE Key \ minted

(* keep_for_retry: what a session believes after its enable failed. *)
KeepForRetry(p) == Believes(ses[p].mode, NoKey, opKey[p])

(* enable_encryption, decided from the mode the session loaded. *)
BeginEnable(p) ==
    /\ pc[p] = "idle" /\ ses[p].mode # "enc" /\ ses[p].key = NoKey
    /\ LockFree
    /\ \E k \in session_or_retry_dek(p) :
         /\ minted' = minted \cup {k}
         /\ IF /\ settings = ses[p].mode
               /\ ses[p].mode = "none" => no_files_in_form("plain")
            THEN /\ Enter(p, "enable", "sweep", k)
                 /\ UNCHANGED ses
            ELSE /\ ses' = [ses EXCEPT ![p] = Believes(@.mode, @.key, k)]
                 /\ UNCHANGED <<locks, op, pc, opKey>>
    /\ UNCHANGED <<disk, todo, side, history>>

(* disable_encryption *)
BeginDisable(p) ==
    /\ pc[p] = "idle" /\ ses[p].mode = "enc" /\ ses[p].key # NoKey
    /\ settings = "enc" /\ key_is_current(ses[p].key)
    /\ Enter(p, "disable", "sweep", ses[p].key)
    /\ UNCHANGED <<disk, ses, todo, side, minted, history>>

(* set_up_plain, from the first-run screen only. *)
BeginSetUpPlain(p) ==
    /\ pc[p] = "idle" /\ ses[p].mode = "none" /\ ses[p].key = NoKey
    /\ settings = "none" /\ no_files_in_form("enc")
    /\ Enter(p, "setup", IF files["plain"][Jwks].there THEN "commit" ELSE "empty", NoKey)
    /\ UNCHANGED <<disk, ses, todo, side, minted, history>>

(* finish_first_run *)
BeginFinish(p) ==
    /\ op[p] = "finish" /\ pc[p] = "lock"
    /\ IF interrupted_first_run /\ \A a \in Artifact : Readable(a, opKey[p])
       THEN Enter(p, "finish", "commit", opKey[p]) /\ UNCHANGED <<ses, todo>>
       ELSE LockFree /\ Return(p, ses[p])
    /\ UNCHANGED <<disk, side, minted, history>>

(* settle_vault *)
BeginSettle(p) ==
    /\ op[p] = "settle" /\ pc[p] = "lock"
    /\ Enter(p, "settle", "sweep", opKey[p])
    /\ UNCHANGED <<disk, ses, todo, side, minted, history>>

(* save_settings: the flag on disk wins; with none, the session's flag (plain by
   default) is recorded unless files of the other form exist. *)
BeginSave(p) ==
    /\ pc[p] = "idle"
    /\ settings = "none" =>
         no_files_in_form(IF ses[p].mode = "enc" THEN "plain" ELSE "enc")
    /\ Enter(p, "save", "commit", NoKey)
    /\ UNCHANGED <<disk, ses, todo, side, minted, history>>

(* update_wraps *)
BeginFactor(p) ==
    /\ pc[p] = "idle" /\ ses[p].key # NoKey
    /\ vault_mode_is(ses[p].key) /\ WrapsThere
    /\ Enter(p, "factor", "factor", ses[p].key)
    /\ UNCHANGED <<disk, ses, todo, side, minted, history>>
-----------------------------------------------------------------------------
(* settle: abandoned sidecars, then stale forms, then an orphan wraps.toml. *)

(* discard_abandoned_sidecars goes by file name: it cannot tell an abandoned
   sidecar from one another process is about to rename. *)
SweepSidecars(p) ==
    /\ pc[p] = "sweep"
    /\ LET live == {side[q].file : q \in Proc \ {p}} \ {"none"}
       IN IF junk \cup live # {}
          THEN \E kind \in junk \cup live :
                 /\ junk' = junk \ {kind}
                 /\ side' = [q \in Proc |-> IF side[q].file = kind THEN NoSide ELSE side[q]]
                 /\ UNCHANGED <<pc, todo>>
          ELSE /\ Goto(p, "stale")
               /\ todo' = [todo EXCEPT ![p] = IF settings = "none" THEN {} ELSE Artifact]
               /\ UNCHANGED <<junk, side>>
    /\ UNCHANGED <<settings, files, wraps, locks, ses, op, opKey, minted, history>>

(* discard_stale_form: the copy the mode does not read goes only if the one it
   does read exists. *)
StaleDiscarded(a, form) ==
    IF files[form][a].there
    THEN [files EXCEPT ![Other(form)][a] = NoFile] ELSE files

DiscardStale(p) ==
    /\ pc[p] = "stale"
    /\ \E a \in todo[p] :
         /\ files' = StaleDiscarded(a, settings)
         /\ todo' = [todo EXCEPT ![p] = @ \ {a}]
    /\ UNCHANGED <<settings, wraps, junk, locks, ses, op, pc, opKey, side, minted, history>>

(* The end of settle, and what its caller does next. *)
AfterSettle(p) ==
    \/ /\ op[p] = "enable"
       /\ \A a \in Artifact : migration_preflight(a, NoKey, opKey[p])
       /\ Goto(p, "wrap") /\ UNCHANGED <<locks, ses, op, opKey, todo>>
    \/ /\ op[p] = "enable"
       /\ \E a \in Artifact : ~migration_preflight(a, NoKey, opKey[p])
       /\ Return(p, KeepForRetry(p))
    \/ /\ op[p] = "disable"
       /\ \A a \in Artifact : migration_preflight(a, opKey[p], NoKey)
       /\ Goto(p, "migrate") /\ todo' = [todo EXCEPT ![p] = Artifact]
       /\ UNCHANGED <<locks, ses, op, opKey>>
    \/ op[p] = "enabled" /\ Return(p, Believes("enc", opKey[p], NoKey))
    \/ op[p] = "disabled" /\ Return(p, Believes("plain", NoKey, ses[p].retry))
    \/ op[p] = "settle" /\ Return(p, ses[p])

DiscardOrphanWraps(p) ==
    /\ pc[p] = "stale" /\ todo[p] = {}
    /\ wraps' = IF settings = "plain" /\ no_files_in_form("enc") THEN NoWraps ELSE wraps
    /\ AfterSettle(p)
    /\ UNCHANGED <<settings, files, junk, side, minted, history>>
-----------------------------------------------------------------------------
(* Writing a file: the sidecar, then the rename. *)

WriteSidecar(p, content) == side' = [side EXCEPT ![p] = content]

(* save_wrap: the new vault's wraps are the factor just enrolled, no other. *)
WriteWrap(p) ==
    /\ pc[p] = "wrap" /\ side[p].file = "none"
    /\ \E f \in Factor :
         WriteSidecar(p, WrapsSidecar([NoWraps EXCEPT ![f] = opKey[p]]))
    /\ UNCHANGED <<disk, locks, ses, op, pc, opKey, todo, minted, history>>

(* migrate_artifact: the source is copied; with no source an empty map is made
   only where one is required and no destination exists. *)
MigrateSource(p) == IF op[p] = "enable" THEN NoKey ELSE opKey[p]
MigrateTarget(p) == IF op[p] = "enable" THEN opKey[p] ELSE NoKey

Migrate(p) ==
    /\ pc[p] = "migrate" /\ side[p].file = "none"
    /\ \E a \in todo[p] :
         LET from == MigrateSource(p)
             to == FormOf(MigrateTarget(p))
         IN /\ alock[a] = Nobody
            /\ Readable(a, from)  \* holds: the source opened at the start, under this lock
            /\ IF files[FormOf(from)][a].there \/ (a = Jwks /\ ~files[to][a].there)
               THEN /\ WriteSidecar(p, MapSidecar(to, a, Load(a, from), {}, {}))
                    /\ alock' = [alock EXCEPT ![a] = p]
                    /\ UNCHANGED todo
               ELSE /\ todo' = [todo EXCEPT ![p] = @ \ {a}]
                    /\ UNCHANGED <<side, alock>>
    /\ UNCHANGED <<disk, shared, excl, ses, op, pc, opKey, minted, history>>

(* set_up_plain's empty keys.plain. *)
WriteEmpty(p) ==
    /\ pc[p] = "empty" /\ side[p].file = "none"
    /\ WriteSidecar(p, MapSidecar("plain", Jwks, {}, {}, {}))
    /\ UNCHANGED <<disk, locks, ses, op, pc, opKey, todo, minted, history>>

(* The flag an operation records. *)
NewMode(p) ==
    IF op[p] = "save" /\ settings # "none" THEN settings
    ELSE IF op[p] \in {"enable", "finish"} \/ (op[p] = "save" /\ ses[p].mode = "enc")
         THEN "enc" ELSE "plain"

ReadyToCommit(p) == pc[p] = "commit" \/ (pc[p] = "migrate" /\ todo[p] = {})

WriteFlag(p) ==
    /\ ReadyToCommit(p) /\ side[p].file = "none"
    /\ WriteSidecar(p, FlagSidecar(NewMode(p)))
    /\ UNCHANGED <<disk, locks, ses, op, pc, opKey, todo, minted, history>>

(* add_factor and remove_factor, on the file as it is on disk; the last factor
   is never removed. *)
WriteFactor(p) ==
    /\ pc[p] = "factor" /\ side[p].file = "none"
    /\ \E f \in Factor, k \in {NoKey, opKey[p]} :
         LET changed == [wraps EXCEPT ![f] = k]
         IN /\ changed # NoWraps
            /\ WriteSidecar(p, WrapsSidecar(changed))
    /\ UNCHANGED <<disk, locks, ses, op, pc, opKey, todo, minted, history>>
-----------------------------------------------------------------------------
(* update_artifact_map: a shared hold of the vault lock, then the map's own. *)

UpdateKey(p) == ses[p].key

BeginUpdate(p) ==
    /\ pc[p] = "idle"
    /\ ses[p].mode = "plain" \/ ses[p].key # NoKey
    /\ excl = Nobody /\ shared' = shared \cup {p}
    /\ op' = [op EXCEPT ![p] = "update"] /\ Goto(p, "lock")
    /\ opKey' = [opKey EXCEPT ![p] = UpdateKey(p)]
    /\ UNCHANGED <<disk, excl, alock, ses, todo, side, minted, history>>

(* Checks, the read, the change of one entry and the sidecar, under both locks;
   the history remembers what was to be gained or lost. *)
WriteUpdate(p) ==
    /\ op[p] = "update" /\ pc[p] = "lock"
    /\ \E a \in Artifact :
         /\ alock[a] = Nobody
         /\ IF /\ vault_mode_is(opKey[p])
               /\ not_only_in_other_form(a, opKey[p])
               /\ Readable(a, opKey[p])
            THEN /\ alock' = [alock EXCEPT ![a] = p]
                 /\ \E e \in Entry : \E gain \in {{}, {e}} : LET loss == {e} \ gain IN
                      WriteSidecar(p, MapSidecar(FormOf(opKey[p]), a,
                                                 (Load(a, opKey[p]) \cup gain) \ loss, gain, loss))
                 /\ Goto(p, "update")
                 /\ UNCHANGED <<shared, excl, ses, op, opKey, todo>>
            ELSE Return(p, ses[p]) /\ UNCHANGED side
    /\ UNCHANGED <<disk, minted, history>>

(* The written map's other form is discarded, and the locks go. *)
FinishUpdate(p) ==
    /\ op[p] = "update" /\ pc[p] = "tidy"
    /\ \E a \in Artifact :
         /\ alock[a] = p
         /\ files' = StaleDiscarded(a, FormOf(opKey[p]))
    /\ Return(p, ses[p])
    /\ UNCHANGED <<settings, wraps, junk, side, minted, history>>
-----------------------------------------------------------------------------
(* rename: the sidecar becomes the file, and the operation moves on. *)

RenameMap(p) ==
    /\ side[p].file \in Form
    /\ LET a == side[p].art IN
         /\ files' = [files EXCEPT ![side[p].file][a] =
                         [there |-> TRUE, map |-> side[p].map,
                          key |-> IF side[p].file = "enc" THEN opKey[p] ELSE NoKey]]
         /\ side' = [side EXCEPT ![p] = NoSide]
         /\ IF op[p] = "update"
            THEN /\ truth' = [truth EXCEPT ![a] = (@ \cup side[p].gain) \ side[p].loss]
                 /\ Goto(p, "tidy")
                 /\ UNCHANGED <<alock, todo>>
            ELSE /\ todo' = [todo EXCEPT ![p] = @ \ {a}]
                 /\ alock' = [alock EXCEPT ![a] = Nobody]
                 /\ pc' = [pc EXCEPT ![p] = IF op[p] = "setup" THEN "commit" ELSE @]
                 /\ UNCHANGED truth
    /\ UNCHANGED <<settings, wraps, junk, shared, excl, ses, op, opKey, minted,
                   committed, faults, lost>>

RenameWraps(p) ==
    /\ side[p].file = "wraps"
    /\ wraps' = side[p].wraps
    /\ side' = [side EXCEPT ![p] = NoSide]
    /\ IF op[p] = "enable"
       THEN /\ Goto(p, "migrate") /\ todo' = [todo EXCEPT ![p] = Artifact]
            /\ UNCHANGED <<locks, ses, op, opKey>>
       ELSE Return(p, ses[p])
    /\ UNCHANGED <<settings, files, junk, minted, history>>

(* The commit point.  A transition then settles; the others are done. *)
RenameSettings(p) ==
    /\ side[p].file = "settings"
    /\ settings' = side[p].mode /\ committed' = side[p].mode
    /\ side' = [side EXCEPT ![p] = NoSide]
    /\ \/ /\ op[p] \in {"enable", "disable"}
          /\ op' = [op EXCEPT ![p] = IF @ = "enable" THEN "enabled" ELSE "disabled"]
          /\ Goto(p, "sweep")
          /\ UNCHANGED <<locks, ses, opKey, todo>>
       \/ /\ op[p] = "finish"
          /\ op' = [op EXCEPT ![p] = "settle"] /\ Goto(p, "lock")
          /\ excl' = Nobody
          /\ ses' = [ses EXCEPT ![p] = Believes("enc", opKey[p], @.retry)]
          /\ UNCHANGED <<shared, alock, opKey, todo>>
       \/ op[p] = "setup" /\ Return(p, Believes("plain", ses[p].key, ses[p].retry))
       \/ op[p] = "save" /\ Return(p, ses[p])
    /\ UNCHANGED <<files, wraps, junk, minted, truth, faults, lost>>
-----------------------------------------------------------------------------
(* Faults. *)

(* The kernel releases a dead process's locks; its sidecar stays. *)
Crash(p) ==
    /\ pc[p] # "off" /\ faults < MaxFaults
    /\ faults' = faults + 1
    /\ junk' = junk \cup ({side[p].file} \ {"none"})
    /\ side' = [side EXCEPT ![p] = NoSide]
    /\ shared' = shared \ {p}
    /\ excl' = IF excl = p THEN Nobody ELSE excl
    /\ alock' = [a \in Artifact |-> IF alock[a] = p THEN Nobody ELSE alock[a]]
    /\ ses' = [ses EXCEPT ![p] = Closed]
    /\ op' = [op EXCEPT ![p] = "none"] /\ Goto(p, "off")
    /\ opKey' = [opKey EXCEPT ![p] = NoKey] /\ todo' = [todo EXCEPT ![p] = {}]
    /\ UNCHANGED <<settings, files, wraps, minted, committed, truth, lost>>

(* What a session believes after its operation failed: keep_for_retry after a
   failed enable; past the commit point a transition has happened whatever its
   cleanup does (settle_after_commit). *)
AfterError(p) ==
    IF op[p] = "enable" THEN KeepForRetry(p)
    ELSE IF op[p] = "enabled" THEN Believes("enc", opKey[p], NoKey)
    ELSE IF op[p] = "disabled" THEN Believes("plain", NoKey, ses[p].retry)
    ELSE ses[p]

(* An I/O error ends the operation; removing its sidecar is best effort. *)
IOError(p) ==
    /\ op[p] # "none" /\ faults < MaxFaults
    /\ faults' = faults + 1
    /\ \E left \in SUBSET ({side[p].file} \ {"none"}) : junk' = junk \cup left
    /\ side' = [side EXCEPT ![p] = NoSide]
    /\ Return(p, AfterError(p))
    /\ UNCHANGED <<settings, files, wraps, minted, committed, truth, lost>>

(* settings.toml disappears while no process has the vault locked. *)
LoseSettings ==
    /\ settings # "none" /\ LockFree /\ lost < MaxLost
    /\ settings' = "none" /\ lost' = lost + 1
    /\ UNCHANGED <<files, wraps, junk, locks, local, committed, truth, faults>>
-----------------------------------------------------------------------------
(* What a process inside an operation does next. *)
Step(p) ==
    \/ DecryptMaps(p) \/ BeginFinish(p) \/ BeginSettle(p)
    \/ SweepSidecars(p) \/ DiscardStale(p) \/ DiscardOrphanWraps(p)
    \/ WriteWrap(p) \/ Migrate(p) \/ WriteEmpty(p) \/ WriteFlag(p) \/ WriteFactor(p)
    \/ WriteUpdate(p) \/ FinishUpdate(p)
    \/ RenameMap(p) \/ RenameWraps(p) \/ RenameSettings(p)

(* What an operator may ask of an idle process. *)
Request(p) ==
    \/ OpenSession(p) \/ CloseSession(p) \/ UnwrapKey(p)
    \/ BeginEnable(p) \/ BeginDisable(p) \/ BeginSetUpPlain(p)
    \/ BeginSave(p) \/ BeginFactor(p) \/ BeginUpdate(p)

Next == \/ \E p \in Proc : Step(p) \/ Request(p) \/ Crash(p) \/ IOError(p)
        \/ LoseSettings

Spec == Init /\ [][Next]_vars

(* The same code over a vault an older version left half moved. *)
LegacySpec == LegacyInit /\ [][Next]_vars

(* A process inside an operation keeps running: nothing in it waits for input. *)
FairSpec == Spec /\ \A p \in Proc : WF_vars(Step(p))
-----------------------------------------------------------------------------
(* Properties. *)

Stage == {"off", "idle", "unwrapped", "lock", "sweep", "stale", "wrap", "migrate", "empty",
          "commit", "factor", "update", "tidy"}
Operation == {"none", "unlock", "enable", "enabled", "disable", "disabled", "setup", "finish",
              "settle", "save", "factor", "update"}

Session == [mode : Mode, key : KeyOpt, retry : KeyOpt]
Sidecar == [file : SideKind \cup {"none"}, art : Artifact, mode : Mode,
            map : Map, gain : Map, loss : Map, wraps : [Factor -> KeyOpt]]

(* The type of every variable. *)
TypeOK ==
    /\ settings \in Mode /\ committed \in Mode
    /\ files \in [Form -> [Artifact -> File]]
    /\ wraps \in [Factor -> KeyOpt]
    /\ junk \subseteq SideKind
    /\ shared \subseteq Proc /\ excl \in Proc \cup {Nobody}
    /\ alock \in [Artifact -> Proc \cup {Nobody}]
    /\ ses \in [Proc -> Session]
    /\ op \in [Proc -> Operation] /\ pc \in [Proc -> Stage]
    /\ opKey \in [Proc -> KeyOpt]
    /\ todo \in [Proc -> SUBSET Artifact]
    /\ side \in [Proc -> Sidecar]
    /\ minted \subseteq Key
    /\ truth \in [Artifact -> Map]
    /\ faults \in 0..MaxFaults /\ lost \in 0..MaxLost

(* What a map reads as in the mode last recorded: the form that mode names, else
   the only copy there is. *)
Reads(a) == IF committed = "none" THEN files["enc"][a].map
            ELSE IF files[committed][a].there THEN files[committed][a].map
            ELSE files[Other(committed)][a].map

(* No crash, I/O error, lost settings.toml or race of two sessions ever loses or
   resurrects a credential: the files always hold every credential an
   update_artifact_map added and none it removed (config/mod.rs, enable_encryption to settle). *)
CredentialsKept == \A a \in Artifact : Reads(a) = truth[a]

(* An encrypted vault can be unlocked: keys.enc exists, some factor is enrolled,
   and every factor unwraps the one key that every encrypted map opens under. *)
EncryptedVaultOpens ==
    settings = "enc" =>
      \E k \in Key :
        /\ files["enc"][Jwks].there
        /\ \A a \in Artifact : files["enc"][a].there => files["enc"][a].key = k
        /\ WrapsThere
        /\ \A f \in Factor : wraps[f] \in {NoKey, k}

(* discard_abandoned_sidecars may delete every sidecar it sees, because under the
   exclusive vault lock no other process has one in flight. *)
NoLiveSidecarUnderExclusive ==
    \A p, q \in Proc : excl = p /\ q # p => side[q].file = "none"

(* A settle that ran to its end leaves an encrypted vault no cleartext: neither a
   plain copy of an encrypted map nor a plain sidecar of a dead process. *)
SettleLeavesNoCleartext ==
    [][\A p \in Proc :
         /\ op[p] \in {"enabled", "settle"} /\ op'[p] = "none" /\ faults' = faults
         /\ settings' = "enc"
         => /\ "plain" \notin junk'
            /\ \A a \in Artifact : files'["enc"][a].there => ~files'["plain"][a].there]_vars

(* A first run that died can be finished: the operator is shown the unlock
   screen, and the key any factor unwraps opens every encrypted map. *)
InterruptedFirstRunOpens ==
    /\ settings = "none" /\ committed = "none" /\ excl = Nobody
    /\ \E a \in Artifact : files["enc"][a].there
    => /\ interrupted_first_run
       /\ \A f \in Factor : wraps[f] # NoKey => \A a \in Artifact : Readable(a, wraps[f])

(* The vault lock is never held for ever: an exclusive hold ends although the
   migration inside it waits for each map's own lock. *)
ExclusiveHoldEnds == \A p \in Proc : excl = p ~> excl # p

(* The files behave as one atomic store of credentials. *)
Store == INSTANCE CredentialStore
           WITH mode <- committed, store <- [a \in Artifact |-> Reads(a)]

(* Every step of every process, fault included, is one change of one credential,
   a change of mode that leaves every credential alone, or invisible. *)
RefinesCredentialStore == Store!Spec

(* The documentation of enable_encryption: a transition that dies part way leaves
   the vault working in the old mode, and a retry under any key overwrites the
   partial copies.  A plain vault at rest is then never left with an encrypted
   map that has no plain original, which every reader, writer and enable of
   another key refuses. *)
OldModeStillWorks ==
    settings = "plain" /\ excl = Nobody =>
      \A a \in Artifact : not_only_in_other_form(a, NoKey)
=============================================================================
