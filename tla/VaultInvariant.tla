-------------------------- MODULE VaultInvariant --------------------------
(* The inductive invariants of the vault: how the locks, the point each process
   has reached, the files on disk and the data keys go together. *)
EXTENDS Vault

Exclusive == {"enable", "enabled", "disable", "disabled", "setup", "finish", "settle",
              "save", "factor"}

(* The operation a process can be in at each point of the code. *)
StageMatches(p) ==
    /\ pc[p] \in {"off", "idle"} => op[p] = "none"
    /\ pc[p] = "unwrapped" => op[p] = "unlock"
    /\ pc[p] = "lock" => op[p] \in {"finish", "settle", "update"}
    /\ pc[p] \in {"sweep", "stale"} =>
         op[p] \in {"enable", "enabled", "disable", "disabled", "settle"}
    /\ pc[p] = "wrap" => op[p] = "enable"
    /\ pc[p] = "migrate" => op[p] \in {"enable", "disable"}
    /\ pc[p] = "empty" => op[p] = "setup"
    /\ pc[p] = "commit" => op[p] \in {"setup", "finish", "save"}
    /\ pc[p] = "factor" => op[p] = "factor"
    /\ pc[p] \in {"update", "tidy"} => op[p] = "update"

(* A sidecar exists only at the point that is about to rename it. *)
SidecarMatches(p) ==
    /\ side[p].file \in Form => pc[p] \in {"update", "migrate", "empty"}
    /\ side[p].file = "wraps" => pc[p] \in {"wrap", "factor"}
    /\ side[p].file = "settings" => ReadyToCommit(p)

(* Who is inside an operation that takes the vault lock holds it. *)
LocksMatch ==
    /\ \A p \in Proc : excl = p <=> op[p] \in Exclusive /\ pc[p] # "lock"
    /\ \A p \in Proc : p \in shared <=> op[p] = "update"
    /\ excl # Nobody => shared = {}

(* Nothing is discarded as stale before first-run setup. *)
StaleHasMode == \A p \in Proc : pc[p] = "stale" /\ todo[p] # {} => settings # "none"

Structure ==
    /\ TypeOK
    /\ \A p \in Proc : StageMatches(p) /\ SidecarMatches(p)
    /\ LocksMatch
    /\ StaleHasMode
-----------------------------------------------------------------------------
(* No file holds nothing. *)
FilesWellFormed ==
    \A a \in Artifact : \A form \in Form :
      ~files[form][a].there => files[form][a].map = {}

(* The recorded mode is the one on disk, unless settings.toml was lost; before
   the first setup there is no credential. *)
ModeMatches ==
    /\ settings # "none" => settings = committed
    /\ committed = "none" => \A a \in Artifact : truth[a] = {} /\ files["plain"][a].map = {}

(* A transition has copied this map: the new form can replace the old. *)
Migrated(p, a) ==
    LET to == FormOf(MigrateTarget(p))
    IN /\ files[to][a].there => files[to][a].map = truth[a]
       /\ files[Other(to)][a].there => files[to][a].there

(* What an operation under the exclusive lock relies on since its checks. *)
ChecksStillHold(p) ==
    /\ op[p] \in {"enable", "disable"} => opKey[p] # NoKey
    /\ op[p] = "enable" => settings # "enc" /\ (settings = "none" => no_files_in_form("plain"))
    /\ op[p] = "disable" => settings = "enc"
    /\ op[p] = "setup" => settings = "none" /\ no_files_in_form("enc")
    /\ pc[p] = "empty" => ~files["plain"][Jwks].there
    /\ op[p] = "finish" /\ pc[p] = "commit" => settings = "none" /\ no_files_in_form("plain")
    /\ op[p] = "save" /\ settings = "none" => no_files_in_form(Other(NewMode(p)))
    /\ pc[p] = "migrate" => \A a \in Artifact \ todo[p] : Migrated(p, a)

(* What a sidecar holds is what the map should hold once it is renamed. *)
SidecarIsTruth(p) ==
    /\ side[p].file \in Form =>
         LET a == side[p].art
         IN /\ pc[p] = "update" =>
                 /\ side[p].file = settings /\ FormOf(opKey[p]) = settings
                 /\ alock[a] = p
                 /\ side[p].map = (truth[a] \cup side[p].gain) \ side[p].loss
                 /\ \E e \in Entry : \/ side[p].gain = {e} /\ side[p].loss = {}
                                     \/ side[p].gain = {} /\ side[p].loss = {e}
            /\ pc[p] = "migrate" =>
                 side[p].file = FormOf(MigrateTarget(p)) /\ side[p].map = truth[a]
            /\ pc[p] = "empty" => side[p].file = "plain" /\ side[p].map = {} /\ a = Jwks
    /\ side[p].file = "settings" => side[p].mode = NewMode(p)
    /\ pc[p] = "tidy" => FormOf(opKey[p]) = settings

(* The inductive invariant behind CredentialsKept. *)
StoreInvariant ==
    /\ Structure
    /\ FilesWellFormed
    /\ ModeMatches
    /\ \A p \in Proc : ChecksStillHold(p) /\ SidecarIsTruth(p)
    /\ CredentialsKept
-----------------------------------------------------------------------------
(* The inductive invariant behind EncryptedVaultOpens: which data key every file
   and every wrap is under. *)

VaultKey == files["enc"][Jwks].key

OneKey(k) == \A a \in Artifact : files["enc"][a].there => files["enc"][a].key = k
WrapsUnder(k) == \A f \in Factor : wraps[f] \in {NoKey, k}

(* What an encrypted vault is: one key, which every factor unwraps. *)
Opens ==
    /\ files["enc"][Jwks].there /\ VaultKey # NoKey
    /\ OneKey(VaultKey) /\ WrapsThere /\ WrapsUnder(VaultKey)

(* Outside an encrypted vault, keys.enc without keys.plain is what a failed enable
   left, with the wraps of its key; only a vault that has always been plain has no
   keys.plain, and no session of it believes in an encrypted one. *)
LeftoverKeyed ==
    /\ files["enc"][Jwks].there /\ ~files["plain"][Jwks].there => WrapsUnder(VaultKey)
    /\ ~files["plain"][Jwks].there => \A p \in Proc : ses[p].mode # "enc"

(* Before the first setup the only encrypted map is the keys.enc of a first run. *)
FirstRunKeyed ==
    \A a \in Artifact : files["enc"][a].there =>
        a = Jwks /\ WrapsThere /\ no_files_in_form("plain")

(* What an operation relies on about its own key since its checks. *)
KeyStillHolds(p) ==
    /\ op[p] \in {"unlock", "finish"} => opKey[p] # NoKey
    /\ op[p] = "enabled" => settings = "enc"
    /\ op[p] = "factor" => settings = "enc" /\ VaultKey = opKey[p]
    /\ op[p] = "finish" /\ pc[p] = "commit"
          => files["enc"][Jwks].there /\ OneKey(opKey[p]) /\ WrapsThere
    /\ pc[p] = "wrap" =>
          \A a \in Artifact : migration_preflight(a, NoKey, opKey[p])
    /\ pc[p] = "migrate" /\ op[p] = "enable" =>
          /\ WrapsThere /\ WrapsUnder(opKey[p])
          /\ \A a \in Artifact : files["enc"][a].there /\ files["enc"][a].key # opKey[p]
                => files["plain"][a].there /\ a \in todo[p]
          /\ Jwks \notin todo[p] => files["enc"][Jwks].there

(* What it is about to rename is under that key. *)
SidecarKeyed(p) ==
    /\ side[p].file = "enc" /\ pc[p] = "update" => VaultKey = opKey[p]
    /\ side[p].file = "enc" /\ pc[p] = "migrate" /\ side[p].art # Jwks
          => files["plain"][side[p].art].there
    /\ side[p].file = "wraps" => side[p].wraps # NoWraps
    /\ side[p].file = "wraps" /\ pc[p] = "wrap"
          => \A f \in Factor : side[p].wraps[f] \in {NoKey, opKey[p]}
    /\ side[p].file = "wraps" /\ pc[p] = "factor"
          => \A f \in Factor : side[p].wraps[f] \in {NoKey, opKey[p], wraps[f]}

KeyInvariant ==
    /\ committed = "enc" => Opens
    /\ committed # "enc" => LeftoverKeyed
    /\ committed = "none" => FirstRunKeyed
    /\ \A p \in Proc : KeyStillHolds(p) /\ SidecarKeyed(p)

(* The cleaning under the exclusive lock: once no sidecar is left none appears, and
   a map already treated is in one form. *)
Cleaned(p) ==
    pc[p] = "stale" =>
      /\ junk = {}
      /\ settings = "enc" => \A a \in Artifact \ todo[p] :
                                 files["enc"][a].there => ~files["plain"][a].there

(* The inductive invariant of a vault that current code has always run on. *)
VaultInvariant ==
    /\ StoreInvariant
    /\ KeyInvariant
    /\ \A p \in Proc : Cleaned(p)
=============================================================================
