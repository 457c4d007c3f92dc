------------------------------- MODULE Agent -------------------------------
(***************************************************************************)
(* The agent daemon of a project: it holds the unlocked vault, a copy of   *)
(* the JWK map and one authenticated client per tenant, while other aic    *)
(* processes re-onboard and offboard tenants (rewriting the key file),     *)
(* edit config.toml and change the vault's encryption.                     *)
(*                                                                         *)
(* Each connection is a task that handles one request.  A task reads files *)
(* under no lock, and the daemon's state under a read or write guard it    *)
(* drops before the next await: every step below is one such guard or one  *)
(* file access, and anything else may happen in between.                   *)
(*                                                                         *)
(* One tenant is modelled: tenants share the key file, config.toml and the *)
(* generation, and a client of one is never looked up for another.         *)
(***************************************************************************)
EXTENDS Integers

CONSTANTS Task,        \* connections, each handling a request at a time
          Key,         \* data keys the vault may be encrypted under
          NoKey,       \* no data key: the vault is plain
          MaxWrites,   \* bound: changes other processes make to the files
          MaxRequests  \* bound: requests the daemon receives

ASSUME AgentKeyAssumption == NoKey \notin Key
ASSUME AgentBoundAssumption == MaxWrites \in Nat /\ MaxRequests \in Nat

JWK_REFRESH_ATTEMPTS == 3

VARIABLES
    mode,         \* settings.toml: the form in use, "plain" or "enc"
    keys,         \* keys.plain and keys.enc: the tenant's JWK, the data key, the mtime
    config,       \* config.toml's content
    change,       \* where another process is in changing the vault: "no", "copied" and
                  \* "flipped" in a change of encryption, "saved" in an update of the map
    writes,       \* changes made so far: every write has an mtime of its own
    vault,        \* the daemon: "locked", "plain" or "enc"
    dek,          \* ... its data key
    cache,        \* ... its copy of the JWK, with the mtime it was read under
    client,       \* ... the tenant's cached client
    config_stamp, \* ... config.toml's content when clients were last checked against it
    generation,   \* ... how often clients were invalidated
    task,         \* each task: the point it has reached and what it captured
    requests,     \* requests received so far
    upheavals     \* history: times the vault was unlocked or its form changed

files == <<mode, keys, config, change, writes>>
daemon == <<vault, dek, cache, client, config_stamp, generation>>
vars == <<files, daemon, task, requests, upheavals>>

Form == {"plain", "enc"}
Other(f) == IF f = "plain" THEN "enc" ELSE "plain"

NoJwk == 0       \* the map has no entry for the tenant
Epoch == 0       \* UNIX_EPOCH, the stamp of a file that cannot be statted
NoStamp == -1    \* no cache
NoConfig == 0    \* config.toml absent or unreadable
HasTenant(c) == c > 0   \* a negative content parses, and does not list the tenant

NoFile == [there |-> FALSE, key |-> NoKey, jwk |-> NoJwk, mtime |-> Epoch]
NoCache == [jwk |-> NoJwk, stamp |-> NoStamp]
NoClient == [jwk |-> NoJwk, config |-> NoConfig]

(* The oldest key and config a request that begins now may be answered with. *)
OldestFresh(v) == IF v > 0 THEN v ELSE writes + 1
Now == [jwk |-> OldestFresh(keys[mode].jwk), mtime |-> keys[mode].mtime,
        config |-> OldestFresh(config),
        settled |-> vault = mode /\ change = "no", upheavals |-> upheavals]
Never == [jwk |-> 0, mtime |-> 0, config |-> 0, settled |-> FALSE, upheavals |-> 0]

Idle == [pc |-> "idle", round |-> 1, tries |-> 0, form |-> "plain", key |-> NoKey,
         known |-> NoStamp, gen |-> 0, stamp |-> NoStamp, jwk |-> NoJwk, bytes |-> NoConfig,
         served |-> NoClient, begun |-> Never]

At(t, point) == task[t].pc = point
Answer(t) == task' = [task EXCEPT ![t] = Idle]   \* with no client: done, refused or failed
AnswerWith(t, c) ==
    task' = [task EXCEPT ![t] = [Idle EXCEPT !.pc = "answered", !.served = c,
                                             !.round = task[t].round,
                                             !.begun = task[t].begun]]
-----------------------------------------------------------------------------
(* Plausible bugs, used to show that the properties can fail. *)

(* A client is cached if its config is the stamped one, whatever its key. *)
MayPublishByConfig(t) == config_stamp = task[t].bytes

(* Clients are cleared, and builds under way are not told. *)
ClearOnly == client' = NoClient /\ UNCHANGED generation

(* A request looks its client up before the refresh. *)
FirstStepLookup == IF client # NoClient THEN "lookup" ELSE "config"
-----------------------------------------------------------------------------
(* A vault in either form that holds the tenant's key, and a daemon just started. *)
Init ==
    /\ mode \in Form /\ change = "no" /\ writes = 1 /\ config = 1
    /\ \E k \in IF mode = "enc" THEN Key ELSE {NoKey} :
         keys = [f \in Form |-> IF f = mode
                                THEN [there |-> TRUE, key |-> k, jwk |-> 1, mtime |-> 1]
                                ELSE NoFile]
    /\ vault = "locked" /\ dek = NoKey /\ cache = NoCache /\ client = NoClient
    /\ config_stamp = NoConfig /\ generation = 0
    /\ task = [t \in Task |-> Idle] /\ requests = 0 /\ upheavals = 0

invalidate_clients == client' = NoClient /\ generation' = generation + 1

(* Replacing the vault drops the cached JWKs and every client. *)
set_vault(v, k, c) ==
    /\ vault' = v /\ dek' = k /\ cache' = c
    /\ invalidate_clients
    /\ UNCHANGED config_stamp

lock == set_vault("locked", NoKey, NoCache)

(* A task accepts the next request. *)
Accept(t) ==
    /\ task[t].pc \in {"idle", "answered"} /\ requests < MaxRequests
    /\ requests' = requests + 1
-----------------------------------------------------------------------------
(* The other aic processes; the vault's own steps are module Vault's. *)
Elsewhere == UNCHANGED <<daemon, task, requests>>

(* Onboarding a tenant again replaces its JWK, offboarding removes it. *)
RewriteKeys ==
    /\ writes < MaxWrites /\ change = "no"
    /\ writes' = writes + 1
    /\ \E j \in {writes', NoJwk} :
         keys' = [keys EXCEPT ![mode].there = TRUE, ![mode].jwk = j, ![mode].mtime = writes']
    /\ change' = IF keys[Other(mode)].there THEN "saved" ELSE "no"
    /\ UNCHANGED <<mode, config, upheavals>> /\ Elsewhere

(* config.toml is edited, loses the tenant, or goes. *)
EditConfig ==
    /\ writes < MaxWrites
    /\ writes' = writes + 1
    /\ config' \in {writes', -writes', NoConfig}
    /\ UNCHANGED <<mode, keys, change, upheavals>> /\ Elsewhere

(* A change of encryption: settle, copy the map, flip the flag, remove the source. *)
CopyKeys ==
    /\ writes < MaxWrites /\ change = "no" /\ ~keys[Other(mode)].there
    /\ writes' = writes + 1 /\ change' = "copied"
    /\ \E k \in IF mode = "plain" THEN Key ELSE {NoKey} :
         keys' = [keys EXCEPT ![Other(mode)] = [there |-> TRUE, key |-> k,
                                                jwk |-> keys[mode].jwk, mtime |-> writes']]
    /\ UNCHANGED <<mode, config, upheavals>> /\ Elsewhere

FlipMode ==
    /\ change = "copied" /\ change' = "flipped"
    /\ mode' = Other(mode) /\ upheavals' = upheavals + 1
    /\ UNCHANGED <<keys, config, writes>> /\ Elsewhere

(* The end of the change of encryption or of the update, and what settling after
   an abandoned one comes to. *)
DiscardStale ==
    /\ change # "copied" /\ keys[Other(mode)].there
    /\ keys' = [keys EXCEPT ![Other(mode)] = NoFile] /\ change' = "no"
    /\ UNCHANGED <<mode, config, writes, upheavals>> /\ Elsewhere

(* The process dies: the kernel drops its lock. *)
AbandonChange ==
    /\ change # "no" /\ change' = "no"
    /\ UNCHANGED <<mode, keys, config, writes, upheavals>> /\ Elsewhere
-----------------------------------------------------------------------------
(* Requests that replace or drop the vault. *)

(* The vault lock can be had shared: only a change of encryption keeps it. *)
SharedHold == change \in {"no", "saved"}

(* vault_mode_is(Some(k)) under a shared hold of the vault lock: the key opens keys.enc. *)
hold_vault_key(k) == mode = "enc" /\ keys["enc"].there /\ keys["enc"].key = k

(* do_put_dek waits for the vault lock, and holds it and the state guard from
   the check to the install. *)
PutDek(t) ==
    /\ Accept(t) /\ SharedHold
    /\ \E k \in Key :
         \/ hold_vault_key(k) /\ set_vault("enc", k, NoCache) /\ upheavals' = upheavals + 1
         \/ ~hold_vault_key(k) /\ UNCHANGED <<daemon, upheavals>>
    /\ Answer(t) /\ UNCHANGED files

(* A caller that found the vault plain sends UnlockPlain. *)
SendUnlockPlain(t) ==
    /\ Accept(t) /\ mode = "plain"
    /\ task' = [task EXCEPT ![t] = [Idle EXCEPT !.pc = "unlock_stat"]]
    /\ UNCHANGED <<files, daemon, upheavals>>

(* do_unlock_plain: the stat, the read and the install are steps of their own. *)
StatPlain(t) ==
    /\ At(t, "unlock_stat")
    /\ task' = [task EXCEPT ![t].pc = "unlock_read",
                            ![t].stamp = IF keys["plain"].there THEN keys["plain"].mtime
                                         ELSE NoStamp]
    /\ UNCHANGED <<files, daemon, requests, upheavals>>

ReadPlain(t) ==
    /\ At(t, "unlock_read")
    /\ \/ /\ keys["plain"].there
          /\ task' = [task EXCEPT ![t].pc = "unlock_set", ![t].jwk = keys["plain"].jwk]
       \/ ~keys["plain"].there /\ Answer(t)
    /\ UNCHANGED <<files, daemon, requests, upheavals>>

(* A plausible bug: the stat is taken after the read. *)
UnlockPlainStatLate(t) ==
    /\ At(t, "unlock_set")
    /\ set_vault("plain", NoKey, [jwk |-> task[t].jwk, stamp |-> keys["plain"].mtime])
    /\ upheavals' = upheavals + 1
    /\ Answer(t) /\ UNCHANGED <<files, requests>>

UnlockPlain(t) ==
    /\ At(t, "unlock_set")
    /\ set_vault("plain", NoKey,
                 IF task[t].stamp = NoStamp THEN NoCache
                 ELSE [jwk |-> task[t].jwk, stamp |-> task[t].stamp])
    /\ upheavals' = upheavals + 1
    /\ Answer(t) /\ UNCHANGED <<files, requests>>

Lock(t) == Accept(t) /\ lock /\ Answer(t) /\ UNCHANGED <<files, upheavals>>

(* The unlocked state still describes the vault on disk. *)
matches_disk == \/ vault = "locked"
                \/ vault = "enc" /\ hold_vault_key(dek)
                \/ vault = "plain" /\ mode = "plain"

(* do_status locks a daemon that is out of step with the vault; asking about an
   encrypted one waits for the vault lock. *)
Status(t) ==
    /\ Accept(t)
    /\ (vault = "enc" => SharedHold)
    /\ IF matches_disk THEN UNCHANGED daemon ELSE lock
    /\ Answer(t) /\ UNCHANGED <<files, upheavals>>

(* The periodic tick finds the idle timeout passed. *)
IdleLock ==
    /\ vault # "locked" /\ lock
    /\ UNCHANGED <<files, task, requests, upheavals>>

(* The daemon exits, taking its tasks with it, and is spawned again. *)
Restart ==
    /\ vault' = "locked" /\ dek' = NoKey /\ cache' = NoCache /\ client' = NoClient
    /\ config_stamp' = NoConfig /\ generation' = 0
    /\ task' = [t \in Task |-> Idle]
    /\ UNCHANGED <<files, requests, upheavals>>
-----------------------------------------------------------------------------
(* GetToken and ApiCall: refresh, look the client up, build one if there is none. *)

FirstStep == "config"

StartToken(t) ==
    /\ Accept(t)
    /\ IF vault = "locked" THEN Answer(t)
       ELSE task' = [task EXCEPT ![t] = [Idle EXCEPT !.pc = FirstStep, !.begun = Now]]
    /\ UNCHANGED <<files, daemon, upheavals>>

(* refresh_config_stamp reads config.toml, then takes the guard. *)
ReadConfig(t) ==
    /\ At(t, "config")
    /\ task' = [task EXCEPT ![t].pc = "stamp", ![t].bytes = config]
    /\ UNCHANGED <<files, daemon, requests, upheavals>>

refresh_config_stamp(t) ==
    /\ At(t, "stamp")
    /\ IF task[t].bytes = NoConfig \/ config_stamp # task[t].bytes
       THEN config_stamp' = task[t].bytes /\ invalidate_clients
       ELSE UNCHANGED <<config_stamp, client, generation>>
    /\ task' = [task EXCEPT ![t].pc = "peek", ![t].bytes = NoConfig]
    /\ UNCHANGED <<files, vault, dek, cache, requests, upheavals>>

(* The refresh is over, with what it captured: the first one leads to the lookup,
   the second to the build. *)
Refreshed(t) ==
    task' = [task EXCEPT ![t] =
        [Idle EXCEPT !.pc = IF task[t].round = 1 THEN "lookup" ELSE "build",
                     !.round = task[t].round, !.begun = task[t].begun]]

AfterPeek(t) ==
    task' = [task EXCEPT ![t].pc = "stat", ![t].form = vault, ![t].key = dek,
                         ![t].known = cache.stamp, ![t].gen = generation]

PeekVault(t) ==
    /\ At(t, "peek")
    /\ IF vault = "locked" THEN Answer(t) ELSE AfterPeek(t)
    /\ UNCHANGED <<files, daemon, requests, upheavals>>

AfterStat(t, m) == task' = [task EXCEPT ![t].pc = "read", ![t].stamp = m]

(* An unchanged file needs no read, and a failed stat keeps the cache there is. *)
StatKeys(t) ==
    /\ At(t, "stat")
    /\ LET file == keys[task[t].form]
           modified == IF file.there THEN file.mtime ELSE Epoch
       IN IF task[t].known # NoStamp /\ (file.there => modified = task[t].known)
          THEN Refreshed(t) ELSE AfterStat(t, modified)
    /\ UNCHANGED <<files, daemon, requests, upheavals>>

(* A missing file reads as an empty map; another key's file is an error. *)
ReadKeys(t) ==
    /\ At(t, "read")
    /\ LET file == keys[task[t].form]
       IN IF file.there /\ file.key # task[t].key THEN Answer(t)
          ELSE task' = [task EXCEPT ![t].pc = "install", ![t].jwk = file.jwk]
    /\ UNCHANGED <<files, daemon, requests, upheavals>>

(* A plausible bug: the fence has no last attempt. *)
DiscardedForever(t) ==
    task' = [task EXCEPT ![t] = [Idle EXCEPT !.pc = "peek", !.tries = task[t].tries + 1,
                                    !.round = task[t].round, !.begun = task[t].begun]]

(* One attempt of the fence was discarded; the last one fails the request. *)
Discarded(t) ==
    IF task[t].tries + 1 = JWK_REFRESH_ATTEMPTS THEN Answer(t)
    ELSE task' = [task EXCEPT ![t] = [Idle EXCEPT !.pc = "peek", !.tries = task[t].tries + 1,
                                        !.round = task[t].round, !.begun = task[t].begun]]

install_jwks(t) ==
    /\ At(t, "install")
    /\ \/ generation # task[t].gen /\ Discarded(t) /\ UNCHANGED <<cache, client, generation>>
       \/ /\ generation = task[t].gen /\ Refreshed(t)
          /\ IF vault = "locked" \/ cache.stamp = task[t].stamp
             THEN UNCHANGED <<cache, client, generation>>
             ELSE /\ cache' = [jwk |-> task[t].jwk, stamp |-> task[t].stamp]
                  /\ invalidate_clients
    /\ UNCHANGED <<files, vault, dek, config_stamp, requests, upheavals>>

(* The fast path, or the refresh of build_client. *)
Lookup(t) ==
    /\ At(t, "lookup")
    /\ CASE vault = "locked"   -> Answer(t)
         [] client # NoClient  -> AnswerWith(t, client)
         [] OTHER              -> task' = [task EXCEPT ![t].pc = "config", ![t].round = 2]
    /\ UNCHANGED <<files, daemon, requests, upheavals>>

(* build_client_from_cache: the JWK and the generation under one guard ... *)
Build(t) ==
    /\ At(t, "build")
    /\ IF vault = "locked" \/ cache.jwk = NoJwk THEN Answer(t)
       ELSE task' = [task EXCEPT ![t].pc = "build_config", ![t].jwk = cache.jwk,
                                 ![t].gen = generation]
    /\ UNCHANGED <<files, daemon, requests, upheavals>>

(* ... then config.toml, which must list the tenant. *)
ReadTenant(t) ==
    /\ At(t, "build_config")
    /\ IF HasTenant(config) THEN task' = [task EXCEPT ![t].pc = "publish", ![t].bytes = config]
       ELSE Answer(t)
    /\ UNCHANGED <<files, daemon, requests, upheavals>>

may_publish(t) == generation = task[t].gen /\ config_stamp = task[t].bytes

(* The client is cached only if nothing it was built from was replaced; the
   request that built it is served either way. *)
publish(t) ==
    /\ At(t, "publish")
    /\ LET built == [jwk |-> task[t].jwk, config |-> task[t].bytes]
       IN /\ client' = IF may_publish(t) THEN built ELSE client
          /\ AnswerWith(t, built)
    /\ UNCHANGED <<files, vault, dek, cache, config_stamp, generation, requests, upheavals>>
-----------------------------------------------------------------------------
TokenStep(t) ==
    \/ StartToken(t) \/ ReadConfig(t) \/ refresh_config_stamp(t) \/ PeekVault(t)
    \/ StatKeys(t) \/ ReadKeys(t) \/ install_jwks(t) \/ Lookup(t)
    \/ Build(t) \/ ReadTenant(t) \/ publish(t)

VaultRequest(t) ==
    \/ PutDek(t) \/ SendUnlockPlain(t) \/ StatPlain(t) \/ ReadPlain(t) \/ UnlockPlain(t)
    \/ Lock(t) \/ Status(t)

OtherProcess ==
    \/ RewriteKeys \/ EditConfig \/ CopyKeys \/ FlipMode \/ DiscardStale \/ AbandonChange

Next == \/ \E t \in Task : TokenStep(t) \/ VaultRequest(t)
        \/ OtherProcess \/ IdleLock \/ Restart

Spec == Init /\ [][Next]_vars
-----------------------------------------------------------------------------
Client == [jwk : Nat, config : Int]
KeyOpt == Key \cup {NoKey}
KeyFile == [there : BOOLEAN, key : KeyOpt, jwk : Nat, mtime : Nat]
Request == [jwk : Nat, mtime : Nat, config : Nat, settled : BOOLEAN, upheavals : Nat]
Point == {"idle", "answered", "unlock_stat", "unlock_read", "unlock_set", "config", "stamp",
          "peek", "stat", "read", "install", "lookup", "build", "build_config", "publish"}
TaskState ==
    [pc : Point, round : {1, 2}, tries : 0 .. JWK_REFRESH_ATTEMPTS - 1, form : Form,
     key : KeyOpt, known : Nat \cup {NoStamp}, gen : Nat, stamp : Nat \cup {NoStamp},
     jwk : Nat, bytes : Int, served : Client, begun : Request]

(* Every variable has the type the daemon's structs and the files give it; a
   refresh makes at most JWK_REFRESH_ATTEMPTS attempts. *)
TypeOK ==
    /\ mode \in Form /\ change \in {"no", "saved", "copied", "flipped"} /\ writes \in Nat
    /\ keys \in [Form -> KeyFile] /\ config \in Int
    /\ vault \in Form \cup {"locked"} /\ dek \in KeyOpt
    /\ cache \in [jwk : Nat, stamp : Nat \cup {NoStamp}]
    /\ client \in Client /\ config_stamp \in Int /\ generation \in Nat
    /\ task \in [Task -> TaskState]
    /\ requests \in Nat /\ upheavals \in Nat

(* A cached client was built from the JWK the daemon holds and the config bytes
   it last stamped, and there is none in a locked daemon: what a build captured
   before an invalidation is never cached after it (AgentState.generation and
   publish). *)
CachedClientIsCurrent ==
    client # NoClient => /\ vault # "locked"
                         /\ client.jwk = cache.jwk
                         /\ client.config = config_stamp

(* When the key file's mtime is the cached one, the cached map is the file's: a
   stale map is always one the next stat questions (fn stamped and
   refresh_jwk_cache_once take the stat before the read, and install_jwks is
   fenced against a replaced vault). *)
StampDescribesRead ==
    vault # "locked" /\ keys[vault].there /\ cache.stamp = keys[vault].mtime
        => cache.jwk = keys[vault].jwk

(* What a task captured, against the daemon and the files as they are now. *)
CapturesOK(t) ==
    LET r == task[t] IN
    /\ r.stamp <= writes /\ r.gen <= generation
    /\ r.pc \in {"unlock_stat", "unlock_read", "unlock_set"} => r.form = "plain"
    /\ r.pc \in {"stat", "read", "install"} /\ r.gen = generation => vault = r.form
    /\ r.pc \in {"build_config", "publish"} /\ r.gen = generation
           => vault # "locked" /\ r.jwk = cache.jwk
    /\ r.pc \in {"unlock_set", "install"} /\ keys[r.form].there /\ r.stamp = keys[r.form].mtime
           => r.jwk = keys[r.form].jwk

(* The two invariants above and what makes them inductive: nothing is stamped
   with an mtime no write has had yet, and what a task read or captured is either
   still the daemon's, or marked as outdated by its stamp or its generation. *)
CaptureInvariant ==
    /\ CachedClientIsCurrent
    /\ StampDescribesRead
    /\ cache.stamp <= writes
    /\ \A f \in Form : keys[f].mtime <= writes
    /\ \A t \in Task : CapturesOK(t)

Answered(t) == task[t].pc = "answered" /\ task[t].served # NoClient

(* No request is answered with a client whose config was replaced before the
   request began, nor, unless the vault was unlocked or changed its form
   meanwhile or was already in another form than the daemon's, with one whose
   key was (do_get_token and do_api_call refresh before they look). *)
ServedIsFresh ==
    \A t \in Task : Answered(t) =>
        LET b == task[t].begun IN
        /\ task[t].served.config >= b.config
        /\ b.settled /\ b.upheavals = upheavals => task[t].served.jwk >= b.jwk

(* The map of the form in use is there, nothing is newer than the last write, a
   stamp is never ahead of the file it was taken from, and clients are built from
   real keys and real configs. *)
FilesOK ==
    /\ keys[mode].there
    /\ change = "copied" => keys[Other(mode)].there
    /\ config <= writes /\ \A f \in Form : keys[f].jwk <= writes
    /\ vault # "locked" /\ keys[vault].there => cache.stamp <= keys[vault].mtime
    /\ client # NoClient => client.jwk > 0 /\ client.config > 0

(* While no invalidation came between, a refresh replaces the stamp it peeked at,
   and by one at least as late. *)
RefreshOK(t) ==
    LET r == task[t] IN
    /\ r.known <= writes
    /\ r.pc = "stat" /\ keys[r.form].there => r.known <= keys[r.form].mtime
    /\ r.pc \in {"read", "install", "unlock_read", "unlock_set"} /\ keys[r.form].there
           => r.stamp <= keys[r.form].mtime
    /\ r.pc \in {"stat", "read", "install"} /\ r.gen = generation => r.known = cache.stamp
    /\ r.pc \in {"read", "install"} => r.known <= r.stamp
    /\ r.pc \in {"build_config", "publish"} => r.jwk > 0

(* The vault has kept its form, and not been unlocked, since t's request began
   with the daemon in step with it. *)
Undisturbed(t) == task[t].begun.settled /\ task[t].begun.upheavals = upheavals

(* A JWK read since t's request began: none, or one at least as late. *)
SinceBegun(t, j) == j # NoJwk => task[t].begun.jwk <= j

(* The files are no older than when t's request began, and if it is undisturbed,
   neither is any map stamped no earlier than the key file then was. *)
WorldSince(t) ==
    LET b == task[t].begun IN
    /\ b.config <= writes + 1 /\ b.jwk <= writes + 1 /\ b.upheavals <= upheavals
    /\ config > 0 => b.config <= config
    /\ Undisturbed(t) =>
        /\ vault \in {mode, "locked"}
        /\ b.mtime <= keys[mode].mtime /\ SinceBegun(t, keys[mode].jwk)
        /\ \A u \in Task : At(u, "install") /\ task[u].form = mode /\ b.mtime <= task[u].stamp
              => SinceBegun(t, task[u].jwk)
        /\ vault # "locked" /\ b.mtime <= cache.stamp => SinceBegun(t, cache.jwk)

(* Past its config stamp, a request can only meet clients of configs at least as
   late as the one it began under, the one another task is about to cache included. *)
ConfigFresh(t) ==
    LET r == task[t]
        b == task[t].begun
    IN
    /\ r.pc = "stamp" /\ r.bytes > 0 => b.config <= r.bytes
    /\ r.pc = "publish" => r.bytes > 0 /\ b.config <= r.bytes
    /\ r.pc \in {"peek", "stat", "read", "install", "lookup"} =>
          /\ client # NoClient => b.config <= client.config
          /\ \A u \in Task : At(u, "publish") /\ may_publish(u) => b.config <= task[u].bytes
    /\ Answered(t) => b.config <= r.served.config

(* An undisturbed request refreshes from the form in use, and after that the
   daemon's map is stamped no earlier than the file the request began with. *)
KeyFresh(t) ==
    LET r == task[t]
        b == task[t].begun
    IN Undisturbed(t) =>
        /\ r.pc \in {"stat", "read", "install"} => r.form = mode
        /\ r.pc = "stat" /\ vault # "locked" => r.known <= cache.stamp
        /\ r.pc \in {"read", "install"} => b.mtime <= r.stamp
        /\ r.pc \in {"lookup", "build"} /\ vault # "locked" => b.mtime <= cache.stamp
        /\ r.pc \in {"build_config", "publish"} => b.jwk <= r.jwk
        /\ Answered(t) => b.jwk <= r.served.jwk

(* What a request is answered with is fresh because of how stamps and generations
   are ordered: the captures, and what every task may still be answered with. *)
AgentInvariant ==
    /\ CaptureInvariant
    /\ FilesOK
    /\ \A t \in Task : RefreshOK(t) /\ WorldSince(t) /\ ConfigFresh(t) /\ KeyFresh(t)

(* daemon.rs, do_api_call: "no cached client may outlive a changed keys file".
   Read as: a request that no unlock and no change of form overlaps is never
   answered from the cached client once its key was replaced or removed. *)
NoClientOutlivesKeys ==
    \A t \in Task : Answered(t) /\ task[t].round = 1 /\ task[t].begun.upheavals = upheavals
        => task[t].served.jwk >= task[t].begun.jwk
=============================================================================
