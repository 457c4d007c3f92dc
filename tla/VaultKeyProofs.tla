-------------------------- MODULE VaultKeyProofs --------------------------
(* An encrypted vault can always be unlocked and a settled one holds no cleartext:
   VaultInvariant is inductive, for any number of processes, maps, keys, factors
   and faults. *)
EXTENDS VaultProofs

(* What the key invariant says of one process, and of the disk as a whole. *)
Keyed(p) == KeyStillHolds(p) /\ SidecarKeyed(p) /\ Cleaned(p)
KeyedDisk ==
    /\ committed = "enc" => Opens
    /\ committed # "enc" => LeftoverKeyed
    /\ committed = "none" => FirstRunKeyed

(* The steps that change a map, a wrap or the recorded mode. *)
TouchesKeys(p) == Touches(p) \/ DiscardOrphanWraps(p) \/ RenameWraps(p)
KeysUntouched == UNCHANGED <<files, wraps, settings, committed>>

(* Every other step leaves the files that decide about keys alone. *)
LEMMA OnlyTouchesKeys ==
    ASSUME NEW p \in Proc, Act(p), ~TouchesKeys(p)
    PROVE  KeysUntouched
  BY DEF TouchesKeys, Touches, KeysUntouched, Act, Step, Request, OpenSession, CloseSession,
       UnwrapKey, DecryptMaps, BeginEnable, BeginDisable, BeginSetUpPlain, BeginFinish,
       BeginSettle, BeginSave, BeginFactor, SweepSidecars, WriteWrap, Migrate, WriteEmpty,
       WriteFlag, WriteFactor, BeginUpdate, WriteUpdate, Crash, IOError, disk, history

(* Whoever changes wraps.toml holds the vault lock exclusively. *)
LEMMA WrapTouchersExclusive ==
    ASSUME NEW p \in Proc, Structure, DiscardOrphanWraps(p) \/ RenameWraps(p)
    PROVE  excl = p
<1>1. StageMatches(p) /\ SidecarMatches(p) /\ LocksMatch
  BY DEF Structure
<1> QED BY <1>1
        DEF DiscardOrphanWraps, RenameWraps, SidecarMatches, StageMatches, LocksMatch, Exclusive

(* Under an exclusive hold no one else has a sidecar. *)
LEMMA NoOtherSidecar ==
    ASSUME NEW p \in Proc, NEW q \in Proc, Structure, excl = p, q # p
    PROVE  side[q].file = "none"
<1>1. side[q].file \in SideKind \cup {"none"} /\ StageMatches(q) /\ SidecarMatches(q)
  BY DEF Structure, TypeOK, Sidecar
<1>2. op[q] # "update" /\ ~(op[q] \in Exclusive /\ pc[q] # "lock")
  BY NobodyAssumption DEF Structure, LocksMatch
<1> QED BY <1>1, <1>2
        DEF StageMatches, SidecarMatches, ReadyToCommit, SideKind, Form, Exclusive

(* A process that is past or before the critical points relies on nothing. *)
LEMMA QuietKeyed ==
    ASSUME NEW p \in Proc, op'[p] \notin {"unlock", "finish", "enabled", "factor"},
           pc'[p] \notin {"wrap", "migrate", "stale"}, side'[p].file \notin {"enc", "wraps"}
    PROVE  Keyed(p)'
  BY DEF Keyed, KeyStillHolds, SidecarKeyed, Cleaned

(* Without the exclusive lock a process relies on the key it unwrapped, and an
   updater on the key of the map it is about to rename. *)
LEMMA SharedKeyed ==
    ASSUME NEW q \in Proc, Structure, excl # q
    PROVE  /\ op[q] \notin {"enabled", "factor"}
           /\ pc[q] \notin {"commit", "wrap", "migrate", "stale", "sweep"}
           /\ side[q].file # "wraps"
<1>1. StageMatches(q) /\ SidecarMatches(q) /\ LocksMatch
  BY DEF Structure
<1>2. op[q] \in Exclusive => pc[q] = "lock"
  BY <1>1 DEF LocksMatch
<1> QED BY <1>1, <1>2 DEF StageMatches, SidecarMatches, Exclusive

(* The junk of a process that has no sidecar is none. *)
LEMMA JunkFrame ==
    ASSUME NEW p \in Proc, Act(p), side[p].file = "none", pc[p] # "sweep"
    PROVE  junk' = junk
<1>1. CASE Crash(p)
  BY <1>1 DEF Crash
<1>2. CASE IOError(p)
  BY <1>2 DEF IOError
<1>3. CASE ~(Crash(p) \/ IOError(p))
  BY <1>3 DEF Act, Step, Request, OpenSession, CloseSession, UnwrapKey,
       DecryptMaps, BeginEnable, BeginDisable, BeginSetUpPlain, BeginFinish, BeginSettle,
       BeginSave, BeginFactor, SweepSidecars, DiscardStale, DiscardOrphanWraps,
       WriteWrap, Migrate, WriteEmpty, WriteFlag, WriteFactor, BeginUpdate, WriteUpdate,
       FinishUpdate, RenameMap, RenameWraps, RenameSettings, disk
<1> QED BY <1>1, <1>2, <1>3

(* What an update or a settle discards is never the form in use. *)
LEMMA DiscardedForm ==
    ASSUME TypeOK, NEW form \in Form, NEW a \in Artifact, files' = StaleDiscarded(a, form)
    PROVE  \A b \in Artifact :
             /\ files'[form][b] = files[form][b]
             /\ files'[Other(form)][b] = IF b = a /\ files[form][a].there
                                         THEN NoFile ELSE files[Other(form)][b]
<1>1. Other(form) \in Form /\ Other(form) # form
  BY DEF Other, Form
<1> QED BY <1>1 DEF StaleDiscarded, TypeOK

(* What renaming a map's sidecar does to the files. *)
LEMMA RenamedMap ==
    ASSUME NEW p \in Proc, TypeOK, RenameMap(p)
    PROVE  /\ side[p].file \in Form /\ side[p].art \in Artifact
           /\ \A form \in Form, b \in Artifact :
                files'[form][b] = IF form = side[p].file /\ b = side[p].art
                                  THEN [there |-> TRUE, map |-> side[p].map,
                                        key |-> IF side[p].file = "enc" THEN opKey[p] ELSE NoKey]
                                  ELSE files[form][b]
<1>1. side[p].file \in Form /\ side[p].art \in Artifact
  BY DEF RenameMap, TypeOK, Sidecar
<1>2. PICK a \in Artifact, f \in Form : a = side[p].art /\ f = side[p].file
  BY <1>1
<1> QED BY <1>1, <1>2 DEF RenameMap, TypeOK

(* A step of one process leaves alone what the others rely on about keys. *)
LEMMA OthersKeyed ==
    ASSUME NEW p \in Proc, NEW q \in Proc \ {p}, VaultInvariant, Act(p)
    PROVE  Keyed(q)'
<1>0. /\ Structure /\ TypeOK /\ LocksMatch /\ StoreInvariant
      /\ KeyStillHolds(q) /\ SidecarKeyed(q) /\ Cleaned(q)
  BY DEF VaultInvariant, KeyInvariant, StoreInvariant, Structure
<1>1. /\ op'[q] = op[q] /\ pc'[q] = pc[q] /\ todo'[q] = todo[q] /\ opKey'[q] = opKey[q]
      /\ side'[q] \in {side[q], NoSide}
  BY <1>0, FrameStep DEF Frame
<1>2. NoSide.file = "none"
  BY DEF NoSide, MapSidecar
<1>3. CASE excl = q
  <2>1. shared = {} /\ excl # p /\ q # p
    BY <1>0, <1>3, NobodyAssumption DEF LocksMatch
  <2>2. KeysUntouched
    BY <1>0, <2>1, TouchersHoldLock, WrapTouchersExclusive, OnlyTouchesKeys DEF TouchesKeys
  <2>3. junk' = junk
    <3>1. side[p].file = "none"
      BY <1>0, <1>3, <2>1, NoOtherSidecar
    <3>2. pc[p] # "sweep"
      BY <1>0, <2>1, SharedKeyed
    <3> QED BY <3>1, <3>2, JunkFrame
  <2>4. KeyStillHolds(q)'
    BY <1>0, <1>1, <2>2
       DEF KeysUntouched, KeyStillHolds, VaultKey, OneKey, WrapsThere, WrapsUnder,
           migration_preflight, Readable
  <2>5. SidecarKeyed(q)'
    BY <1>0, <1>1, <1>2, <2>2 DEF KeysUntouched, SidecarKeyed, VaultKey
  <2>6. Cleaned(q)'
    BY <1>0, <1>1, <2>2, <2>3 DEF KeysUntouched, Cleaned
  <2> QED BY <2>4, <2>5, <2>6 DEF Keyed
<1>4. CASE excl # q
  <2>1. /\ op[q] \notin {"enabled", "factor"}
        /\ pc[q] \notin {"commit", "wrap", "migrate", "stale"} /\ side[q].file # "wraps"
    BY <1>0, <1>4, SharedKeyed
  <2>2. KeyStillHolds(q)' /\ Cleaned(q)'
    BY <1>0, <1>1, <2>1 DEF KeyStillHolds, Cleaned
  <2>3. CASE ~(pc[q] = "update" /\ side'[q].file = "enc")
    <3>1. SidecarKeyed(q)'
      BY <1>1, <1>2, <2>1, <2>3 DEF SidecarKeyed
    <3> QED BY <2>2, <3>1 DEF Keyed
  <2>4. CASE pc[q] = "update" /\ side'[q].file = "enc"
    <3>1. side'[q] = side[q] /\ side[q].file = "enc" /\ VaultKey = opKey[q] /\ op[q] = "update"
      BY <1>0, <1>1, <1>2, <2>4 DEF SidecarKeyed, Structure, StageMatches
    <3>2. settings = "enc" /\ q \in shared /\ excl = Nobody
      BY <1>0, <2>4, <3>1, NobodyAssumption DEF StoreInvariant, SidecarIsTruth, LocksMatch, Form
    <3>3. VaultKey' = VaultKey
      <4>0. excl # p
        BY <3>2, NobodyAssumption
      <4>1. CASE ~Touches(p)
        BY <4>1, OnlyTouchesTouch DEF DiskUntouched, VaultKey
      <4>2. CASE Touches(p)
        <5>1. op[p] = "update" /\ ~DiscardStale(p) /\ ~RenameSettings(p)
          BY <1>0, <4>0, <4>2, TouchersHoldLock, CheckedIsExclusive, SharedKeyed
             DEF DiscardStale, RenameSettings
        <5>2. CASE FinishUpdate(p)
          <6>1. PICK a \in Artifact : files' = StaleDiscarded(a, FormOf(opKey[p]))
            BY <5>2 DEF FinishUpdate
          <6>2. FormOf(opKey[p]) = "enc"
            BY <1>0, <3>2, <5>2 DEF FinishUpdate, StoreInvariant, SidecarIsTruth
          <6>3. files'["enc"][Jwks] = files["enc"][Jwks]
            BY <1>0, <6>1, <6>2, DiscardedForm, JwksAssumption DEF Form
          <6> QED BY <6>3 DEF VaultKey
        <5>3. CASE RenameMap(p)
          <6>1. side[p].file \in Form /\ pc[p] = "update"
            BY <1>0, <5>1, <5>3, <4>0, CheckedIsExclusive
               DEF RenameMap, Structure, SidecarMatches
          <6>2. side[p].file = "enc" /\ VaultKey = opKey[p]
            BY <3>2, <6>1
               DEF VaultInvariant, KeyInvariant, SidecarKeyed, StoreInvariant, SidecarIsTruth
          <6>3. Jwks # side[p].art => files'["enc"][Jwks] = files["enc"][Jwks]
            BY <1>0, <5>3, RenamedMap, JwksAssumption DEF Form
          <6>4. Jwks = side[p].art
                  => files'["enc"][Jwks] = [there |-> TRUE, map |-> side[p].map, key |-> opKey[p]]
            BY <1>0, <5>3, <6>2, RenamedMap, JwksAssumption DEF Form
          <6> QED BY <6>2, <6>3, <6>4 DEF VaultKey
        <5> QED BY <4>2, <5>1, <5>2, <5>3 DEF Touches
      <4> QED BY <4>1, <4>2
    <3>4. SidecarKeyed(q)'
      BY <1>1, <2>4, <3>1, <3>3 DEF SidecarKeyed
    <3> QED BY <2>2, <3>4 DEF Keyed
  <2> QED BY <2>3, <2>4
<1> QED BY <1>3, <1>4

(* A step keeps what the process that takes it relies on about keys. *)
LEMMA ActorKeyed ==
    ASSUME NEW p \in Proc, VaultInvariant, Act(p)
    PROVE  Keyed(p)'
<1>0. /\ TypeOK /\ StageMatches(p) /\ SidecarMatches(p) /\ ChecksStillHold(p)
      /\ SidecarIsTruth(p) /\ Structure /\ KeyStillHolds(p) /\ SidecarKeyed(p) /\ Cleaned(p)
  BY DEF VaultInvariant, KeyInvariant, StoreInvariant, Structure
<1>a. side[p].file \in {"none", "settings", "wraps", "plain", "enc"}
  BY <1>0 DEF TypeOK, Sidecar, SideKind
<1>b. NoSide.file = "none"
  BY DEF NoSide, MapSidecar
<1>1. CASE OpenSession(p)
  BY <1>0, <1>1, QuietKeyed DEF OpenSession, Goto, TypeOK, StageMatches, SidecarMatches, Form
<1>2. CASE CloseSession(p)
  BY <1>0, <1>2, QuietKeyed DEF CloseSession, Goto, TypeOK, StageMatches, SidecarMatches, Form
<1>3. CASE UnwrapKey(p)
  <2>1. /\ op'[p] = "unlock" /\ pc'[p] = "unwrapped" /\ UNCHANGED side /\ pc[p] = "idle"
        /\ opKey'[p] # NoKey
    BY <1>0, <1>3 DEF UnwrapKey, Goto, TypeOK
  <2>2. side'[p].file \notin {"enc", "wraps"}
    BY <1>0, <2>1 DEF SidecarMatches, Form
  <2> QED BY <2>1, <2>2 DEF Keyed, KeyStillHolds, SidecarKeyed, Cleaned
<1>4. CASE DecryptMaps(p)
  <2>1. UNCHANGED side /\ pc[p] = "unwrapped" /\ op[p] = "unlock" /\ side[p].file \notin {"enc", "wraps"}
    BY <1>0, <1>4 DEF DecryptMaps, StageMatches, SidecarMatches, Form
  <2>2. CASE Return(p, ses[p])
    BY <1>0, <2>1, <2>2, QuietKeyed DEF Return, TypeOK
  <2>3. CASE ~Return(p, ses[p])
    <3>1. op'[p] \in {"finish", "settle"} /\ pc'[p] = "lock" /\ opKey'[p] = opKey[p]
      BY <1>0, <1>4, <2>3 DEF DecryptMaps, Goto, TypeOK
    <3> QED BY <1>0, <2>1, <3>1 DEF Keyed, KeyStillHolds, SidecarKeyed, Cleaned
  <2> QED BY <2>2, <2>3
<1>5. CASE BeginEnable(p)
  <2>1. PICK k \in session_or_retry_dek(p) :
          Enter(p, "enable", "sweep", k) \/ UNCHANGED <<op, pc>>
    BY <1>5 DEF BeginEnable
  <2>2. UNCHANGED side /\ pc[p] = "idle" /\ op[p] = "none" /\ side[p].file \notin {"enc", "wraps"}
    BY <1>0, <1>5 DEF BeginEnable, StageMatches, SidecarMatches, Form
  <2> QED BY <1>0, <2>1, <2>2, QuietKeyed DEF Enter, TypeOK
<1>6. CASE BeginDisable(p)
  BY <1>0, <1>6, QuietKeyed DEF BeginDisable, Enter, TypeOK, SidecarMatches, Form
<1>7. CASE BeginSetUpPlain(p)
  BY <1>0, <1>7, QuietKeyed DEF BeginSetUpPlain, Enter, TypeOK, SidecarMatches, Form
<1>8. CASE BeginFinish(p)
  <2>1. /\ UNCHANGED <<side, files, wraps>> /\ pc[p] = "lock" /\ op[p] = "finish"
        /\ side[p].file \notin {"enc", "wraps"} /\ opKey[p] # NoKey
    BY <1>0, <1>8 DEF BeginFinish, SidecarMatches, Form, KeyStillHolds, disk
  <2>2. CASE Return(p, ses[p])
    BY <1>0, <2>1, <2>2, QuietKeyed DEF Return, TypeOK
  <2>3. CASE ~Return(p, ses[p])
    <3>1. /\ interrupted_first_run /\ \A a \in Artifact : Readable(a, opKey[p])
          /\ Enter(p, "finish", "commit", opKey[p])
      BY <1>8, <2>3 DEF BeginFinish
    <3>2. op'[p] = "finish" /\ pc'[p] = "commit" /\ opKey'[p] = opKey[p]
      BY <1>0, <3>1 DEF Enter, TypeOK
    <3>3. files'["enc"][Jwks].there /\ OneKey(opKey[p])' /\ WrapsThere'
      BY <2>1, <3>1, <3>2
         DEF interrupted_first_run, Readable, FormOf, OneKey, WrapsThere
    <3> QED BY <2>1, <3>2, <3>3 DEF Keyed, KeyStillHolds, SidecarKeyed, Cleaned, OneKey
  <2> QED BY <2>2, <2>3
<1>9. CASE BeginSettle(p)
  BY <1>0, <1>9, QuietKeyed DEF BeginSettle, Enter, TypeOK, SidecarMatches, Form
<1>10. CASE BeginSave(p)
  BY <1>0, <1>10, QuietKeyed DEF BeginSave, Enter, TypeOK, SidecarMatches, Form
<1>11. CASE BeginFactor(p)
  <2>1. /\ UNCHANGED <<side, files, settings>> /\ op'[p] = "factor" /\ pc'[p] = "factor"
        /\ opKey'[p] = ses[p].key /\ side[p].file \notin {"enc", "wraps"}
    BY <1>0, <1>11 DEF BeginFactor, Enter, TypeOK, SidecarMatches, Form, disk
  <2>2. settings = "enc" /\ VaultKey = ses[p].key
    BY <1>11 DEF BeginFactor, vault_mode_is, key_is_current, FormOf, VaultKey
  <2> QED BY <2>1, <2>2 DEF Keyed, KeyStillHolds, SidecarKeyed, Cleaned, VaultKey
<1>12. CASE SweepSidecars(p)
  <2>1. /\ side'[p] \in {side[p], NoSide} /\ UNCHANGED <<op, opKey, settings, files>>
        /\ pc[p] = "sweep"
    BY <1>0, <1>12 DEF SweepSidecars, Goto, TypeOK
  <2>2. /\ op[p] \in {"enable", "enabled", "disable", "disabled", "settle"}
        /\ side'[p].file \notin {"enc", "wraps"}
    BY <1>0, <1>b, <2>1 DEF StageMatches, SidecarMatches, Form
  <2>3. \/ pc'[p] = "sweep"
        \/ pc'[p] = "stale" /\ junk' = {} /\ (settings # "none" => todo'[p] = Artifact)
    BY <1>0, <1>12 DEF SweepSidecars, Goto, TypeOK
  <2> QED BY <1>0, <2>1, <2>2, <2>3 DEF Keyed, KeyStillHolds, SidecarKeyed, Cleaned
<1>13. CASE DiscardStale(p)
  <2>1. PICK a \in todo[p] : /\ files' = StaleDiscarded(a, settings)
                             /\ todo' = [todo EXCEPT ![p] = @ \ {a}]
    BY <1>13 DEF DiscardStale
  <2>2. /\ UNCHANGED <<op, pc, opKey, settings, side, junk>> /\ pc[p] = "stale"
        /\ todo'[p] = todo[p] \ {a} /\ a \in Artifact
        /\ op[p] \in {"enable", "enabled", "disable", "disabled", "settle"}
        /\ side[p].file \notin {"enc", "wraps"} /\ settings # "none"
    BY <1>0, <1>13, <2>1
       DEF DiscardStale, TypeOK, StageMatches, SidecarMatches, Form, Structure, StaleHasMode
  <2>3. ASSUME settings = "enc", NEW b \in Artifact \ todo'[p], files'["enc"][b].there
        PROVE  files'["plain"][b].there = FALSE
    <3>1. /\ files'["enc"][b] = files["enc"][b]
          /\ files'["plain"][b] = IF b = a /\ files["enc"][a].there THEN NoFile
                                  ELSE files["plain"][b]
      BY <1>0, <2>1, <2>2, <2>3, DiscardedForm DEF Form, Other
    <3>2. CASE b = a
      BY <2>3, <3>1, <3>2 DEF NoFile
    <3>3. CASE b # a
      <4>1. b \in Artifact \ todo[p] /\ junk = {}
        BY <1>0, <2>2, <2>3, <3>3 DEF Cleaned
      <4>2. ~files["plain"][b].there
        BY <1>0, <2>2, <2>3, <3>1, <4>1 DEF Cleaned
      <4>3. files["plain"][b].there \in BOOLEAN
        BY <1>0, <2>3 DEF TypeOK, File, Form
      <4> QED BY <3>1, <3>3, <4>2, <4>3
    <3> QED BY <3>2, <3>3
  <2>4. Cleaned(p)'
    BY <1>0, <2>2, <2>3 DEF Cleaned
  <2>5. KeyStillHolds(p)' /\ SidecarKeyed(p)'
    BY <1>0, <2>2 DEF KeyStillHolds, SidecarKeyed
  <2> QED BY <2>4, <2>5 DEF Keyed
<1>14. CASE DiscardOrphanWraps(p)
  <2>1. /\ UNCHANGED <<files, side>> /\ pc[p] = "stale"
        /\ side[p].file \notin {"enc", "wraps"}
    BY <1>0, <1>14 DEF DiscardOrphanWraps, SidecarMatches, Form
  <2>2. CASE \E s : Return(p, s)
    BY <1>0, <2>1, <2>2, QuietKeyed DEF Return, TypeOK
  <2>3. CASE ~\E s : Return(p, s)
    <3>1. /\ UNCHANGED <<op, opKey>>
          /\ \/ /\ op[p] = "enable" /\ pc' = [pc EXCEPT ![p] = "wrap"]
                /\ \A a \in Artifact : migration_preflight(a, NoKey, opKey[p])
             \/ op[p] = "disable" /\ pc' = [pc EXCEPT ![p] = "migrate"]
      BY <1>14, <2>3 DEF DiscardOrphanWraps, AfterSettle, Goto
    <3>2. CASE op[p] = "enable"
      <4>1. pc'[p] = "wrap" /\ \A a \in Artifact : migration_preflight(a, NoKey, opKey[p])'
        BY <1>0, <2>1, <3>1, <3>2 DEF TypeOK, migration_preflight, Readable
      <4> QED BY <2>1, <3>1, <3>2, <4>1 DEF Keyed, KeyStillHolds, SidecarKeyed, Cleaned,
                                            migration_preflight, Readable
    <3>3. CASE op[p] = "disable"
      <4>1. pc'[p] = "migrate"
        BY <1>0, <3>1, <3>3 DEF TypeOK
      <4> QED BY <2>1, <3>1, <3>3, <4>1 DEF Keyed, KeyStillHolds, SidecarKeyed, Cleaned
    <3> QED BY <3>1, <3>2, <3>3
  <2> QED BY <2>2, <2>3
<1>15. CASE WriteWrap(p)
  <2>1. PICK f \in Factor :
          side' = [side EXCEPT ![p] = WrapsSidecar([NoWraps EXCEPT ![f] = opKey[p]])]
    BY <1>15 DEF WriteWrap, WriteSidecar
  <2>2. /\ UNCHANGED <<files, wraps, settings, op, pc, opKey, todo>> /\ pc[p] = "wrap"
        /\ op[p] = "enable" /\ opKey[p] # NoKey
    BY <1>0, <1>15 DEF WriteWrap, disk, StageMatches, ChecksStillHold
  <2>3. side'[p].file = "wraps" /\ side'[p].wraps = [NoWraps EXCEPT ![f] = opKey[p]]
    BY <1>0, <2>1 DEF TypeOK, WrapsSidecar
  <2>4. side'[p].wraps[f] = opKey[p] /\ NoWraps[f] = NoKey
        /\ \A g \in Factor : side'[p].wraps[g] \in {NoKey, opKey[p]}
    BY <2>3 DEF NoWraps
  <2>5. SidecarKeyed(p)'
    BY <2>2, <2>3, <2>4 DEF SidecarKeyed
  <2>6. KeyStillHolds(p)'
    BY <1>0, <2>2 DEF KeyStillHolds, migration_preflight, Readable
  <2> QED BY <2>2, <2>5, <2>6 DEF Keyed, Cleaned
<1>16. CASE Migrate(p)
  <2> DEFINE from == FormOf(MigrateSource(p))
             to == FormOf(MigrateTarget(p))
  <2>1. PICK a \in todo[p] :
          IF files[from][a].there \/ (a = Jwks /\ ~files[to][a].there)
          THEN /\ side' = [side EXCEPT ![p] = MapSidecar(to, a, Load(a, MigrateSource(p)), {}, {})]
               /\ UNCHANGED todo
          ELSE todo' = [todo EXCEPT ![p] = @ \ {a}] /\ UNCHANGED side
    BY <1>16 DEF Migrate, WriteSidecar
  <2>2. /\ pc[p] = "migrate" /\ side[p].file = "none" /\ op[p] \in {"enable", "disable"}
        /\ UNCHANGED <<files, settings, wraps, pc, op, opKey>> /\ opKey[p] # NoKey
        /\ a \in Artifact
    BY <1>0, <1>16, <2>1 DEF Migrate, disk, StageMatches, ChecksStillHold, TypeOK
  <2>3. CASE op[p] = "disable"
    <3>1. to = "plain"
      BY <2>3 DEF MigrateTarget, FormOf
    <3>2. side'[p].file \in {"plain", "none"}
      BY <1>0, <2>1, <2>2, <3>1 DEF TypeOK, MapSidecar
    <3> QED BY <2>2, <2>3, <3>2 DEF Keyed, KeyStillHolds, SidecarKeyed, Cleaned
  <2>4. CASE op[p] = "enable"
    <3>1. from = "plain" /\ to = "enc"
      BY <2>2, <2>4 DEF MigrateSource, MigrateTarget, FormOf
    <3>2. CASE files["plain"][a].there \/ (a = Jwks /\ ~files["enc"][a].there)
      <4>1. /\ side' = [side EXCEPT ![p] = MapSidecar(to, a, Load(a, MigrateSource(p)), {}, {})]
            /\ UNCHANGED todo
        BY <2>1, <3>1, <3>2
      <4>2. side'[p].file = "enc" /\ side'[p].art = a
        BY <1>0, <3>1, <4>1 DEF TypeOK, MapSidecar
      <4>3. SidecarKeyed(p)'
        BY <2>2, <3>2, <4>2 DEF SidecarKeyed
      <4>4. KeyStillHolds(p)'
        BY <1>0, <2>2, <4>1 DEF KeyStillHolds, WrapsThere, WrapsUnder
      <4> QED BY <2>2, <4>3, <4>4 DEF Keyed, Cleaned
    <3>3. CASE ~(files["plain"][a].there \/ (a = Jwks /\ ~files["enc"][a].there))
      <4>1. todo'[p] = todo[p] \ {a} /\ UNCHANGED side
        BY <1>0, <2>1, <3>1, <3>3 DEF TypeOK
      <4>2. KeyStillHolds(p)'
        BY <1>0, <2>2, <3>3, <4>1 DEF KeyStillHolds, WrapsThere, WrapsUnder
      <4> QED BY <2>2, <4>1, <4>2 DEF Keyed, SidecarKeyed, Cleaned
    <3> QED BY <3>2, <3>3
  <2> QED BY <2>2, <2>3, <2>4
<1>17. CASE WriteEmpty(p)
  BY <1>0, <1>17, QuietKeyed DEF WriteEmpty, WriteSidecar, TypeOK, StageMatches, MapSidecar
<1>18. CASE WriteFlag(p)
  <2>1. /\ UNCHANGED <<files, wraps, settings, op, pc, opKey, todo, junk>> /\ ReadyToCommit(p)
        /\ side'[p].file = "settings"
    BY <1>0, <1>18 DEF WriteFlag, WriteSidecar, FlagSidecar, TypeOK, disk
  <2>2. pc[p] # "stale"
    BY <2>1 DEF ReadyToCommit
  <2>3. KeyStillHolds(p)'
    BY <1>0, <2>1 DEF KeyStillHolds, VaultKey, OneKey, WrapsThere, WrapsUnder,
                      migration_preflight, Readable
  <2> QED BY <2>1, <2>2, <2>3 DEF Keyed, SidecarKeyed, Cleaned
<1>19. CASE WriteFactor(p)
  <2>1. PICK f \in Factor, k \in {NoKey, opKey[p]} :
          /\ [wraps EXCEPT ![f] = k] # NoWraps
          /\ side' = [side EXCEPT ![p] = WrapsSidecar([wraps EXCEPT ![f] = k])]
    BY <1>19 DEF WriteFactor, WriteSidecar
  <2>2. /\ UNCHANGED <<files, wraps, settings, op, pc, opKey, todo>> /\ pc[p] = "factor"
        /\ op[p] = "factor"
    BY <1>0, <1>19 DEF WriteFactor, disk, StageMatches
  <2>3. side'[p].file = "wraps" /\ side'[p].wraps = [wraps EXCEPT ![f] = k]
    BY <1>0, <2>1 DEF TypeOK, WrapsSidecar
  <2>4. \A g \in Factor : side'[p].wraps[g] \in {NoKey, opKey[p], wraps[g]}
    BY <1>0, <2>3 DEF TypeOK
  <2>5. SidecarKeyed(p)'
    BY <2>1, <2>2, <2>3, <2>4 DEF SidecarKeyed
  <2>6. KeyStillHolds(p)'
    BY <1>0, <2>2 DEF KeyStillHolds, VaultKey
  <2> QED BY <2>2, <2>5, <2>6 DEF Keyed, Cleaned
<1>20. CASE BeginUpdate(p)
  BY <1>0, <1>20, QuietKeyed DEF BeginUpdate, Goto, TypeOK, SidecarMatches, Form
<1>21. CASE WriteUpdate(p)
  <2>1. CASE Return(p, ses[p]) /\ UNCHANGED side
    <3>1. side'[p].file \notin {"enc", "wraps"} /\ op'[p] = "none" /\ pc'[p] = "idle"
      BY <1>0, <1>21, <2>1 DEF WriteUpdate, Return, TypeOK, SidecarMatches, Form
    <3> QED BY <3>1, QuietKeyed
  <2>2. CASE ~(Return(p, ses[p]) /\ UNCHANGED side)
    <3>1. PICK a \in Artifact :
            /\ vault_mode_is(opKey[p])
            /\ \E e \in Entry : \E gain \in {{}, {e}} :
                 WriteSidecar(p, MapSidecar(FormOf(opKey[p]), a,
                   (Load(a, opKey[p]) \cup gain) \ ({e} \ gain), gain, {e} \ gain))
            /\ pc' = [pc EXCEPT ![p] = "update"]
            /\ UNCHANGED <<op, opKey>>
      BY <1>21, <2>2 DEF WriteUpdate, Goto
    <3>2. /\ op'[p] = "update" /\ pc'[p] = "update" /\ opKey'[p] = opKey[p] /\ UNCHANGED files
          /\ side'[p].file = FormOf(opKey[p])
      BY <1>0, <1>21, <3>1 DEF WriteUpdate, WriteSidecar, TypeOK, MapSidecar, disk
    <3>3. side'[p].file = "enc" => VaultKey = opKey[p]
      BY <3>1, <3>2 DEF vault_mode_is, key_is_current, VaultKey, FormOf
    <3>4. side'[p].file # "wraps"
      BY <3>2 DEF FormOf
    <3> QED BY <3>2, <3>3, <3>4 DEF Keyed, KeyStillHolds, SidecarKeyed, Cleaned, VaultKey
  <2> QED BY <2>1, <2>2
<1>22. CASE FinishUpdate(p)
  BY <1>0, <1>22, QuietKeyed DEF FinishUpdate, Return, TypeOK, SidecarMatches, Form
<1>23. CASE RenameMap(p)
  <2>1. /\ side'[p].file = "none" /\ UNCHANGED <<op, opKey, settings, wraps>>
        /\ side[p].file \in Form /\ side[p].art \in Artifact
    BY <1>0, <1>23, <1>b DEF RenameMap, TypeOK, Sidecar
  <2>2. PICK a \in Artifact : a = side[p].art
    BY <2>1
  <2>3. CASE op[p] # "enable"
    <3>1. op[p] \in {"update", "disable", "setup"} /\ pc[p] \in {"update", "migrate", "empty"}
      BY <1>0, <2>1, <2>3 DEF SidecarMatches, StageMatches
    <3>2. pc'[p] \in {"tidy", "migrate", "commit"}
      BY <1>0, <1>23, <3>1 DEF RenameMap, Goto, TypeOK, StageMatches
    <3> QED BY <2>1, <3>1, <3>2 DEF Keyed, KeyStillHolds, SidecarKeyed, Cleaned
  <2>4. CASE op[p] = "enable"
    <3>1. pc[p] = "migrate" /\ pc'[p] = "migrate" /\ todo'[p] = todo[p] \ {a}
      BY <1>0, <1>23, <2>1, <2>2, <2>4 DEF RenameMap, TypeOK, SidecarMatches, StageMatches
    <3>2. side[p].file = "enc" /\ opKey[p] # NoKey
      BY <1>0, <2>1, <2>4, <3>1
         DEF SidecarIsTruth, ChecksStillHold, MigrateTarget, FormOf
    <3>3. /\ files'["enc"][a] = [there |-> TRUE, map |-> side[p].map, key |-> opKey[p]]
          /\ \A b \in Artifact \ {a} : files'["enc"][b] = files["enc"][b]
          /\ \A b \in Artifact : files'["plain"][b] = files["plain"][b]
      BY <1>0, <1>23, <2>2, <3>2, RenamedMap DEF Form
    <3>4. files'["enc"][a].there /\ files'["enc"][a].key = opKey[p]
      BY <3>3
    <3>5. \A b \in Artifact : files'["enc"][b].there /\ files'["enc"][b].key # opKey[p]
                => files'["plain"][b].there /\ b \in todo'[p]
      BY <1>0, <2>4, <3>1, <3>3, <3>4 DEF KeyStillHolds
    <3>6. Jwks \notin todo'[p] => files'["enc"][Jwks].there
      BY <1>0, <2>4, <3>1, <3>3, <3>4, JwksAssumption DEF KeyStillHolds
    <3>7. WrapsThere' /\ WrapsUnder(opKey[p])'
      BY <1>0, <2>1, <2>4, <3>1 DEF KeyStillHolds, WrapsThere, WrapsUnder
    <3> QED BY <2>1, <2>4, <3>1, <3>5, <3>6, <3>7
            DEF Keyed, KeyStillHolds, SidecarKeyed, Cleaned, WrapsUnder
  <2> QED BY <2>3, <2>4
<1>24. CASE RenameWraps(p)
  <2>1. CASE Return(p, ses[p])
    <3>1. op'[p] = "none" /\ pc'[p] = "idle" /\ side'[p].file = "none"
      BY <1>0, <1>24, <1>b, <2>1 DEF RenameWraps, Return, TypeOK
    <3> QED BY <3>1, QuietKeyed
  <2>2. CASE ~Return(p, ses[p])
    <3>1. /\ op[p] = "enable" /\ op'[p] = "enable" /\ pc'[p] = "migrate" /\ todo'[p] = Artifact
          /\ UNCHANGED <<files, opKey>> /\ side'[p].file = "none" /\ wraps' = side[p].wraps
          /\ side[p].file = "wraps"
      BY <1>0, <1>24, <1>b, <2>2 DEF RenameWraps, Goto, TypeOK
    <3>2. pc[p] = "wrap" /\ opKey[p] # NoKey
      BY <1>0, <3>1 DEF SidecarMatches, StageMatches, ChecksStillHold
    <3>3. WrapsThere' /\ WrapsUnder(opKey[p])'
      BY <1>0, <3>1, <3>2 DEF SidecarKeyed, WrapsThere, WrapsUnder
    <3>4. \A a \in Artifact : files["plain"][a].there
             \/ (files["enc"][a].there => files["enc"][a].key = opKey[p])
      BY <1>0, <3>2 DEF KeyStillHolds, migration_preflight, Readable, FormOf
    <3> QED BY <3>1, <3>3, <3>4, JwksAssumption
            DEF Keyed, KeyStillHolds, SidecarKeyed, Cleaned, WrapsUnder
  <2> QED BY <2>1, <2>2
<1>25. CASE RenameSettings(p)
  <2>1. /\ side'[p].file = "none" /\ settings' = NewMode(p)
        /\ op[p] \in {"enable", "disable", "finish", "setup", "save"}
    BY <1>0, <1>25, <1>b DEF RenameSettings, TypeOK, SidecarIsTruth
  <2>2. CASE op[p] = "enable"
    <3>1. op'[p] = "enabled" /\ pc'[p] = "sweep" /\ settings' = "enc"
      BY <1>0, <1>25, <2>1, <2>2 DEF RenameSettings, Goto, TypeOK, NewMode
    <3> QED BY <2>1, <3>1 DEF Keyed, KeyStillHolds, SidecarKeyed, Cleaned
  <2>3. CASE op[p] # "enable"
    <3>1. op'[p] \in {"disabled", "settle", "none"} /\ pc'[p] \in {"sweep", "lock", "idle"}
      BY <1>0, <1>25, <2>1, <2>3 DEF RenameSettings, Return, Goto, TypeOK
    <3> QED BY <2>1, <3>1, QuietKeyed
  <2> QED BY <2>2, <2>3
<1>26. CASE Crash(p)
  BY <1>0, <1>26, <1>b, QuietKeyed DEF Crash, Goto, TypeOK
<1>27. CASE IOError(p)
  BY <1>0, <1>27, <1>b, QuietKeyed DEF IOError, Return, TypeOK
<1> QED BY <1>1, <1>2, <1>3, <1>4, <1>5, <1>6, <1>7, <1>8, <1>9, <1>10, <1>11, <1>12, <1>13,
   <1>14, <1>15, <1>16, <1>17, <1>18, <1>19, <1>20, <1>21, <1>22, <1>23, <1>24, <1>25, <1>26,
   <1>27 DEF Act, Step, Request

(* A session believes in an encrypted vault only if one was recorded. *)
LEMMA SessionMoves ==
    ASSUME NEW p \in Proc, VaultInvariant, Act(p), ~RenameSettings(p), NEW q \in Proc,
           ses'[q].mode = "enc"
    PROVE  ses[q].mode = "enc" \/ settings = "enc"
<1>0. TypeOK /\ KeyStillHolds(p) /\ StageMatches(p)
  BY DEF VaultInvariant, KeyInvariant, StoreInvariant, Structure
<1>1. CASE q # p
  BY <1>0, <1>1, FrameStep DEF Frame
<1>2. CASE q = p
  <2>1. CASE OpenSession(p)
    BY <1>0, <1>2, <2>1 DEF OpenSession, Believes, TypeOK
  <2>2. CASE CloseSession(p)
    BY <1>0, <1>2, <2>2 DEF CloseSession, Closed, Believes, TypeOK
  <2>3. CASE DecryptMaps(p)
    BY <1>0, <1>2, <2>3 DEF DecryptMaps, Return, Believes, TypeOK
  <2>4. CASE BeginEnable(p)
    <3>1. PICK k \in session_or_retry_dek(p) :
            UNCHANGED ses \/ ses' = [ses EXCEPT ![p] = Believes(@.mode, @.key, k)]
      BY <2>4 DEF BeginEnable
    <3> QED BY <1>0, <1>2, <3>1 DEF Believes, TypeOK
  <2>5. CASE DiscardOrphanWraps(p)
    <3>1. CASE op[p] = "enabled"
      BY <1>0, <3>1 DEF KeyStillHolds
    <3>2. CASE op[p] # "enabled"
      BY <1>0, <1>2, <2>5, <3>2
         DEF DiscardOrphanWraps, AfterSettle, KeepForRetry, Return, Believes, TypeOK
    <3> QED BY <3>1, <3>2
  <2>6. CASE Crash(p)
    BY <1>0, <1>2, <2>6 DEF Crash, Closed, Believes, TypeOK
  <2>7. CASE IOError(p)
    <3>1. CASE op[p] = "enabled"
      BY <1>0, <3>1 DEF KeyStillHolds
    <3>2. CASE op[p] # "enabled"
      BY <1>0, <1>2, <2>7, <3>2 DEF IOError, AfterError, KeepForRetry, Return, Believes, TypeOK
    <3> QED BY <3>1, <3>2
  <2>8. CASE Return(p, ses[p])
    BY <1>0, <1>2, <2>8 DEF Return, TypeOK
  <2>9. CASE ~(\/ OpenSession(p) \/ CloseSession(p) \/ DecryptMaps(p) \/ BeginEnable(p)
               \/ DiscardOrphanWraps(p) \/ Crash(p) \/ IOError(p) \/ Return(p, ses[p]))
    BY <1>2, <2>9 DEF Act, Step, Request, UnwrapKey, BeginDisable, BeginSetUpPlain, BeginFinish,
       BeginSettle, BeginSave, BeginFactor, SweepSidecars, DiscardStale, WriteWrap, Migrate,
       WriteEmpty, WriteFlag, WriteFactor, BeginUpdate, WriteUpdate, FinishUpdate, RenameMap,
       RenameWraps
  <2> QED BY <2>1, <2>2, <2>3, <2>4, <2>5, <2>6, <2>7, <2>8, <2>9
<1> QED BY <1>1, <1>2

(* Deleting the copy the recorded mode does not read leaves its key alone. *)
LEMMA DiscardKeyed ==
    ASSUME VaultInvariant, settings # "none", NEW a \in Artifact,
           files' = StaleDiscarded(a, settings), UNCHANGED <<settings, committed, wraps>>,
           \A q \in Proc : ses'[q].mode = "enc" => ses[q].mode = "enc" \/ settings = "enc"
    PROVE  KeyedDisk'
<1>1. TypeOK /\ KeyedDisk /\ committed = settings /\ settings \in Form
  BY DEF VaultInvariant, KeyInvariant, KeyedDisk, StoreInvariant, Structure, ModeMatches, TypeOK,
         Mode
<1>2. \A b \in Artifact :
        /\ files'[settings][b] = files[settings][b]
        /\ files'[Other(settings)][b] = IF b = a /\ files[settings][a].there
                                        THEN NoFile ELSE files[Other(settings)][b]
  BY <1>1, DiscardedForm
<1>3. CASE settings = "enc"
  <2>1. \A b \in Artifact : files'["enc"][b] = files["enc"][b]
    BY <1>2, <1>3
  <2> QED BY <1>1, <1>3, <2>1, JwksAssumption
          DEF KeyedDisk, Opens, VaultKey, OneKey, WrapsThere, WrapsUnder
<1>4. CASE settings = "plain"
  <2>1. /\ files'["plain"][Jwks] = files["plain"][Jwks]
        /\ ~files["plain"][Jwks].there => files'["enc"][Jwks] = files["enc"][Jwks]
    BY <1>2, <1>4, JwksAssumption DEF Other
  <2>2. LeftoverKeyed'
    BY <1>1, <1>4, <2>1 DEF KeyedDisk, LeftoverKeyed, VaultKey, WrapsUnder
  <2> QED BY <1>1, <1>4, <2>2 DEF KeyedDisk
<1> QED BY <1>1, <1>3, <1>4 DEF Form

(* Renaming a map into place: an encrypted vault gets a file under its own key, a
   first run its keys.enc under the key just wrapped. *)
LEMMA RenameMapKeyed ==
    ASSUME NEW p \in Proc, VaultInvariant, RenameMap(p)
    PROVE  KeyedDisk'
<1>1. /\ TypeOK /\ StageMatches(p) /\ SidecarMatches(p) /\ ChecksStillHold(p)
      /\ SidecarIsTruth(p) /\ ModeMatches /\ KeyedDisk /\ KeyStillHolds(p) /\ SidecarKeyed(p)
  BY DEF VaultInvariant, KeyInvariant, KeyedDisk, StoreInvariant, Structure
<1>2. /\ UNCHANGED <<settings, committed, wraps, ses, opKey>>
      /\ side[p].file \in Form /\ side[p].art \in Artifact
  BY <1>1, RenamedMap DEF RenameMap
<1>3. PICK a \in Artifact : a = side[p].art
  BY <1>2
<1>4. CASE side[p].file = "enc"
  <2>1. /\ files'["enc"][a] = [there |-> TRUE, map |-> side[p].map, key |-> opKey[p]]
        /\ \A b \in Artifact \ {a} : files'["enc"][b] = files["enc"][b]
        /\ \A b \in Artifact : files'["plain"][b] = files["plain"][b]
    BY <1>1, <1>3, <1>4, RenamedMap DEF Form
  <2>2. files'["enc"][a].there /\ files'["enc"][a].key = opKey[p]
    BY <2>1
  <2>3. CASE pc[p] = "update"
    <3>1. committed = "enc" /\ VaultKey = opKey[p]
      BY <1>1, <1>4, <2>3 DEF SidecarIsTruth, SidecarKeyed, ModeMatches, Form
    <3>2. Opens
      BY <1>1, <3>1 DEF KeyedDisk
    <3>3. VaultKey' = VaultKey /\ files'["enc"][Jwks].there
      BY <2>1, <2>2, <3>1, <3>2, JwksAssumption DEF VaultKey, Opens
    <3>4. OneKey(VaultKey)'
      BY <2>1, <2>2, <3>1, <3>2, <3>3 DEF OneKey, Opens
    <3>5. Opens'
      BY <1>2, <3>2, <3>3, <3>4 DEF Opens, WrapsThere, WrapsUnder
    <3> QED BY <1>2, <3>1, <3>5 DEF KeyedDisk
  <2>4. CASE pc[p] = "migrate"
    <3>1. op[p] = "enable" /\ opKey[p] # NoKey
      BY <1>1, <1>4, <2>4
         DEF StageMatches, ChecksStillHold, SidecarIsTruth, MigrateTarget, FormOf, Form
    <3>2. /\ WrapsThere' /\ WrapsUnder(opKey[p])'
          /\ \A b \in Artifact : files["enc"][b].there /\ files["enc"][b].key # opKey[p]
                => files["plain"][b].there
      BY <1>1, <1>2, <2>4, <3>1 DEF KeyStillHolds, WrapsThere, WrapsUnder
    <3>3. a # Jwks => files["plain"][a].there
      BY <1>1, <1>3, <1>4, <2>4 DEF SidecarKeyed
    <3>4. committed = "enc" \/ committed = "none" => \A b \in Artifact : ~files["plain"][b].there
      <4>1. committed # "plain" => settings = "none"
        BY <1>1, <3>1 DEF ChecksStillHold, ModeMatches, TypeOK, Mode, Form
      <4> QED BY <1>1, <3>1, <4>1 DEF ChecksStillHold, no_files_in_form
    <3>5. CASE committed = "enc"
      <4>1. a = Jwks /\ OneKey(opKey[p])'
        BY <1>2, <2>1, <2>2, <3>2, <3>3, <3>4, <3>5 DEF OneKey
      <4>2. VaultKey' = opKey[p]
        BY <2>2, <4>1 DEF VaultKey
      <4>3. Opens'
        BY <1>2, <2>2, <3>1, <3>2, <4>1, <4>2 DEF Opens, WrapsUnder, OneKey
      <4> QED BY <1>2, <3>5, <4>3 DEF KeyedDisk
    <3>6. CASE committed # "enc"
      <4>1. files'["enc"][Jwks].there /\ ~files'["plain"][Jwks].there => VaultKey' = opKey[p]
        BY <2>1, <2>2, <3>2, JwksAssumption DEF VaultKey
      <4>2. LeftoverKeyed'
        BY <1>1, <1>2, <2>1, <3>2, <3>6, <4>1, JwksAssumption
           DEF KeyedDisk, LeftoverKeyed, WrapsUnder
      <4>3. committed = "none" => FirstRunKeyed'
        BY <1>1, <2>1, <3>2, <3>3, <3>4 DEF KeyedDisk, FirstRunKeyed, no_files_in_form
      <4> QED BY <1>2, <3>6, <4>2, <4>3 DEF KeyedDisk
    <3> QED BY <3>5, <3>6
  <2> QED BY <1>1, <1>2, <1>4, <2>3, <2>4 DEF SidecarMatches, SidecarIsTruth
<1>5. CASE side[p].file = "plain"
  <2>1. /\ files'["plain"][a] = [there |-> TRUE, map |-> side[p].map, key |-> NoKey]
        /\ \A b \in Artifact \ {a} : files'["plain"][b] = files["plain"][b]
        /\ \A b \in Artifact : files'["enc"][b] = files["enc"][b]
    BY <1>1, <1>3, <1>5, RenamedMap DEF Form
  <2>2. files'["plain"][a].there
    BY <2>1
  <2>3. committed = "enc" => Opens'
    BY <1>1, <1>2, <2>1, JwksAssumption
       DEF KeyedDisk, Opens, VaultKey, OneKey, WrapsThere, WrapsUnder
  <2>4. committed # "enc" => LeftoverKeyed'
    BY <1>1, <1>2, <2>1, <2>2, JwksAssumption DEF KeyedDisk, LeftoverKeyed, VaultKey, WrapsUnder
  <2>5. committed = "none" => \A b \in Artifact : ~files["enc"][b].there
    <3>1. CASE pc[p] = "empty"
      BY <1>1, <3>1 DEF StageMatches, ChecksStillHold, no_files_in_form
    <3>2. CASE pc[p] = "update"
      BY <1>1, <1>5, <3>2 DEF SidecarIsTruth, ModeMatches, Form
    <3>3. CASE pc[p] = "migrate"
      BY <1>1, <1>5, <3>3
         DEF SidecarIsTruth, StageMatches, ChecksStillHold, ModeMatches, MigrateTarget, FormOf, Form
    <3> QED BY <1>1, <1>2, <3>1, <3>2, <3>3 DEF SidecarMatches
  <2>6. committed = "none" => FirstRunKeyed'
    BY <2>1, <2>5 DEF FirstRunKeyed
  <2> QED BY <1>2, <2>3, <2>4, <2>6 DEF KeyedDisk
<1> QED BY <1>2, <1>4, <1>5 DEF Form

(* Replacing wraps.toml: a factor is enrolled or removed under the vault's own key,
   and an enable that finds keys.enc alone goes on only under the key it opens with. *)
LEMMA RenameWrapsKeyed ==
    ASSUME NEW p \in Proc, VaultInvariant, RenameWraps(p)
    PROVE  KeyedDisk'
<1>1. /\ TypeOK /\ StageMatches(p) /\ SidecarMatches(p) /\ ChecksStillHold(p)
      /\ ModeMatches /\ KeyedDisk /\ KeyStillHolds(p) /\ SidecarKeyed(p)
  BY DEF VaultInvariant, KeyInvariant, KeyedDisk, StoreInvariant, Structure
<1>2. /\ UNCHANGED <<settings, committed, files>> /\ side[p].file = "wraps"
      /\ wraps' = side[p].wraps /\ WrapsThere'
  BY <1>1 DEF RenameWraps, history, SidecarKeyed, WrapsThere
<1>3. \A q \in Proc : ses'[q] = ses[q]
  BY <1>1 DEF RenameWraps, Return, TypeOK
<1>4. CASE pc[p] = "factor"
  <2>1. committed = "enc" /\ VaultKey = opKey[p] /\ Opens
    BY <1>1, <1>4 DEF StageMatches, KeyStillHolds, ModeMatches, KeyedDisk
  <2>2. \A f \in Factor : wraps'[f] \in {NoKey, VaultKey}
    BY <1>1, <1>2, <1>4, <2>1 DEF SidecarKeyed, Opens, WrapsUnder
  <2>3. Opens'
    BY <1>2, <2>1, <2>2 DEF Opens, VaultKey, OneKey, WrapsUnder
  <2> QED BY <1>2, <2>1, <2>3 DEF KeyedDisk
<1>5. CASE pc[p] = "wrap"
  <2>1. op[p] = "enable" /\ opKey[p] # NoKey
    BY <1>1, <1>5 DEF StageMatches, ChecksStillHold
  <2>2. \A f \in Factor : wraps'[f] \in {NoKey, opKey[p]}
    BY <1>1, <1>2, <1>5 DEF SidecarKeyed
  <2>3. files["enc"][Jwks].there /\ ~files["plain"][Jwks].there => VaultKey = opKey[p]
    BY <1>1, <1>5, <2>1, JwksAssumption
       DEF KeyStillHolds, migration_preflight, Readable, FormOf, VaultKey
  <2>4. CASE committed = "enc"
    <3>1. Opens /\ settings = "none"
      BY <1>1, <2>1, <2>4 DEF KeyedDisk, ChecksStillHold, ModeMatches
    <3>2. ~files["plain"][Jwks].there
      BY <1>1, <2>1, <3>1, JwksAssumption DEF ChecksStillHold, no_files_in_form
    <3>3. Opens'
      BY <1>2, <2>2, <2>3, <3>1, <3>2 DEF Opens, VaultKey, OneKey, WrapsUnder
    <3> QED BY <1>2, <2>4, <3>3 DEF KeyedDisk
  <2>5. CASE committed # "enc"
    <3>1. LeftoverKeyed'
      BY <1>1, <1>2, <1>3, <2>2, <2>3, <2>5 DEF KeyedDisk, LeftoverKeyed, VaultKey, WrapsUnder
    <3>2. committed = "none" => FirstRunKeyed'
      BY <1>1, <1>2 DEF KeyedDisk, FirstRunKeyed, no_files_in_form
    <3> QED BY <1>2, <2>5, <3>1, <3>2 DEF KeyedDisk
  <2> QED BY <2>4, <2>5
<1> QED BY <1>1, <1>2, <1>4, <1>5 DEF SidecarMatches

(* Recording a mode: encrypted, with everything under one wrapped key; plain, with
   a keys.plain or nothing encrypted. *)
LEMMA RenameSettingsKeyed ==
    ASSUME NEW p \in Proc, VaultInvariant, RenameSettings(p)
    PROVE  KeyedDisk'
<1>1. /\ TypeOK /\ StageMatches(p) /\ SidecarMatches(p) /\ ChecksStillHold(p)
      /\ SidecarIsTruth(p) /\ ModeMatches /\ KeyedDisk /\ KeyStillHolds(p)
  BY DEF VaultInvariant, KeyInvariant, KeyedDisk, StoreInvariant, Structure
<1>2. /\ UNCHANGED <<files, wraps>> /\ side[p].file = "settings" /\ committed' = NewMode(p)
      /\ ReadyToCommit(p) /\ op[p] \in {"enable", "disable", "finish", "setup", "save"}
  BY <1>1 DEF RenameSettings, SidecarIsTruth, SidecarMatches
<1>3. \A q \in Proc : ses'[q].mode = "enc" => ses[q].mode = "enc" \/ op[p] = "finish"
  BY <1>1 DEF RenameSettings, Return, Believes, TypeOK
<1>4. CASE op[p] = "enable"
  <2>1. /\ committed' = "enc" /\ pc[p] = "migrate" /\ todo[p] = {} /\ opKey[p] # NoKey
    BY <1>1, <1>2, <1>4 DEF NewMode, ReadyToCommit, StageMatches, ChecksStillHold
  <2>2. /\ files["enc"][Jwks].there /\ OneKey(opKey[p]) /\ WrapsThere /\ WrapsUnder(opKey[p])
    BY <1>1, <1>4, <2>1 DEF KeyStillHolds, OneKey
  <2>3. VaultKey = opKey[p]
    BY <2>2, JwksAssumption DEF OneKey, VaultKey
  <2>4. Opens'
    BY <1>2, <2>1, <2>2, <2>3 DEF Opens, VaultKey, OneKey, WrapsThere, WrapsUnder
  <2> QED BY <2>1, <2>4 DEF KeyedDisk
<1>5. CASE op[p] = "disable"
  <2>1. /\ committed' = "plain" /\ pc[p] = "migrate" /\ todo[p] = {} /\ committed = "enc"
    BY <1>1, <1>2, <1>5 DEF NewMode, ReadyToCommit, StageMatches, ChecksStillHold, ModeMatches
  <2>2. Migrated(p, Jwks) /\ files["enc"][Jwks].there
    BY <1>1, <2>1, JwksAssumption DEF ChecksStillHold, KeyedDisk, Opens
  <2>3. files["plain"][Jwks].there
    BY <1>5, <2>2 DEF Migrated, MigrateTarget, FormOf, Other
  <2>4. LeftoverKeyed'
    BY <1>2, <2>3 DEF LeftoverKeyed
  <2> QED BY <2>1, <2>4 DEF KeyedDisk
<1>6. CASE op[p] = "finish"
  <2>1. committed' = "enc" /\ pc[p] = "commit" /\ opKey[p] # NoKey
    BY <1>1, <1>2, <1>6 DEF NewMode, ReadyToCommit, StageMatches, KeyStillHolds
  <2>2. /\ files["enc"][Jwks].there /\ OneKey(opKey[p]) /\ WrapsThere
        /\ ~files["plain"][Jwks].there
    BY <1>1, <1>6, <2>1, JwksAssumption DEF KeyStillHolds, ChecksStillHold, no_files_in_form
  <2>3. VaultKey = opKey[p]
    BY <2>2, JwksAssumption DEF OneKey, VaultKey
  <2>4. WrapsUnder(VaultKey)
    BY <1>1, <2>2 DEF KeyedDisk, Opens, LeftoverKeyed
  <2>5. Opens'
    BY <1>2, <2>1, <2>2, <2>3, <2>4 DEF Opens, VaultKey, OneKey, WrapsThere, WrapsUnder
  <2> QED BY <2>1, <2>5 DEF KeyedDisk
<1>7. CASE op[p] = "setup"
  <2>1. /\ committed' = "plain" /\ ~files["enc"][Jwks].there
    BY <1>1, <1>2, <1>7, JwksAssumption DEF NewMode, ChecksStillHold, no_files_in_form
  <2>2. committed # "enc" /\ LeftoverKeyed
    BY <1>1, <2>1 DEF KeyedDisk, Opens
  <2>3. LeftoverKeyed'
    BY <1>2, <1>3, <1>7, <2>1, <2>2 DEF LeftoverKeyed
  <2> QED BY <2>1, <2>3 DEF KeyedDisk
<1>8. CASE op[p] = "save"
  <2>1. committed' = committed \/ (settings = "none" /\ committed' \in {"plain", "enc"})
    BY <1>1, <1>2, <1>8 DEF NewMode, ModeMatches
  <2>2. CASE committed' = committed
    <3>1. committed = "enc" => Opens'
      BY <1>1, <1>2 DEF KeyedDisk, Opens, VaultKey, OneKey, WrapsThere, WrapsUnder
    <3>2. committed # "enc" => LeftoverKeyed'
      BY <1>1, <1>2, <1>3, <1>8 DEF KeyedDisk, LeftoverKeyed, VaultKey, WrapsUnder
    <3>3. committed = "none" => FirstRunKeyed'
      BY <1>1, <1>2 DEF KeyedDisk, FirstRunKeyed, WrapsThere, no_files_in_form
    <3> QED BY <2>2, <3>1, <3>2, <3>3 DEF KeyedDisk
  <2>3. CASE settings = "none" /\ committed' = "enc" /\ committed # committed'
    <3>1. ses[p].mode = "enc" /\ ~files["plain"][Jwks].there
      BY <1>1, <1>2, <1>8, <2>3, JwksAssumption
         DEF NewMode, ChecksStillHold, no_files_in_form, Other
    <3> QED BY <1>1, <2>3, <3>1 DEF KeyedDisk, LeftoverKeyed
  <2>4. CASE settings = "none" /\ committed' = "plain"
    <3>1. ~files["enc"][Jwks].there
      BY <1>1, <1>2, <1>8, <2>4, JwksAssumption
         DEF NewMode, ChecksStillHold, no_files_in_form, Other
    <3>2. LeftoverKeyed
      BY <1>1, <3>1 DEF KeyedDisk, Opens
    <3>3. LeftoverKeyed'
      BY <1>2, <1>3, <1>8, <3>1, <3>2 DEF LeftoverKeyed
    <3> QED BY <2>4, <3>3 DEF KeyedDisk
  <2> QED BY <2>1, <2>2, <2>3, <2>4
<1> QED BY <1>2, <1>4, <1>5, <1>6, <1>7, <1>8

(* An orphan wraps.toml goes only from a plain vault with nothing encrypted. *)
LEMMA OrphanWrapsKeyed ==
    ASSUME NEW p \in Proc, VaultInvariant, DiscardOrphanWraps(p)
    PROVE  KeyedDisk'
<1>1. TypeOK /\ ModeMatches /\ KeyedDisk
  BY DEF VaultInvariant, KeyInvariant, KeyedDisk, StoreInvariant, Structure
<1>2. /\ UNCHANGED <<settings, committed, files>>
      /\ wraps' = wraps \/ (wraps' = NoWraps /\ committed = "plain")
  BY <1>1 DEF DiscardOrphanWraps, history, ModeMatches
<1>3. \A q \in Proc : ses'[q].mode = "enc" => ses[q].mode = "enc" \/ settings = "enc"
  <2>1. Act(p) /\ ~RenameSettings(p)
    BY DEF Act, Step, DiscardOrphanWraps, RenameSettings, VaultInvariant, StoreInvariant,
           Structure, SidecarMatches, ReadyToCommit
  <2> QED BY <2>1, SessionMoves
<1>4. committed = "enc" => Opens'
  BY <1>1, <1>2 DEF KeyedDisk, Opens, VaultKey, OneKey, WrapsThere, WrapsUnder
<1>5. committed # "enc" => LeftoverKeyed'
  <2> SUFFICES ASSUME committed # "enc" PROVE LeftoverKeyed'
    OBVIOUS
  <2>1. LeftoverKeyed /\ settings # "enc"
    BY <1>1 DEF KeyedDisk, ModeMatches
  <2>2. NoWraps = wraps' => WrapsUnder(VaultKey)'
    BY DEF WrapsUnder, NoWraps
  <2> QED BY <1>2, <1>3, <2>1, <2>2 DEF LeftoverKeyed, VaultKey, WrapsUnder
<1>6. committed = "none" => FirstRunKeyed'
  BY <1>1, <1>2 DEF KeyedDisk, FirstRunKeyed, WrapsThere, no_files_in_form
<1> QED BY <1>2, <1>4, <1>5, <1>6 DEF KeyedDisk

(* The disk keeps its keys whatever a process does. *)
LEMMA DiskKeyed ==
    ASSUME NEW p \in Proc, VaultInvariant, Act(p)
    PROVE  KeyedDisk'
<1>0. Structure /\ TypeOK /\ KeyedDisk /\ ModeMatches
  BY DEF VaultInvariant, KeyInvariant, KeyedDisk, StoreInvariant, Structure
<1>1. CASE RenameSettings(p)
  BY <1>1, RenameSettingsKeyed
<1>2. CASE ~RenameSettings(p)
  <2>0. \A q \in Proc : ses'[q].mode = "enc" => ses[q].mode = "enc" \/ settings = "enc"
    BY <1>2, SessionMoves
  <2>1. CASE RenameMap(p)
    BY <2>1, RenameMapKeyed
  <2>2. CASE RenameWraps(p)
    BY <2>2, RenameWrapsKeyed
  <2>3. CASE DiscardOrphanWraps(p)
    BY <2>3, OrphanWrapsKeyed
  <2>4. CASE DiscardStale(p)
    <3>1. PICK a \in todo[p] : files' = StaleDiscarded(a, settings)
      BY <2>4 DEF DiscardStale
    <3>2. a \in Artifact /\ settings # "none" /\ UNCHANGED <<settings, committed, wraps>>
      BY <1>0, <2>4, <3>1 DEF DiscardStale, Structure, StaleHasMode, TypeOK, history
    <3> QED BY <2>0, <3>1, <3>2, DiscardKeyed
  <2>5. CASE FinishUpdate(p)
    <3>1. PICK a \in Artifact : files' = StaleDiscarded(a, FormOf(opKey[p]))
      BY <2>5 DEF FinishUpdate
    <3>2. FormOf(opKey[p]) = settings /\ UNCHANGED <<settings, committed, wraps>>
      BY <2>5 DEF FinishUpdate, VaultInvariant, StoreInvariant, SidecarIsTruth, history
    <3>3. settings # "none"
      BY <3>2 DEF FormOf
    <3> QED BY <2>0, <3>1, <3>2, <3>3, DiscardKeyed
  <2>6. CASE ~TouchesKeys(p)
    <3>1. KeysUntouched
      BY <2>6, OnlyTouchesKeys
    <3>2. committed = "enc" => Opens'
      BY <1>0, <3>1
         DEF KeysUntouched, KeyedDisk, Opens, VaultKey, OneKey, WrapsThere, WrapsUnder
    <3>3. committed # "enc" => LeftoverKeyed'
      <4>1. committed # "enc" => settings # "enc"
        BY <1>0 DEF ModeMatches
      <4> QED BY <1>0, <2>0, <3>1, <4>1
              DEF KeysUntouched, KeyedDisk, LeftoverKeyed, VaultKey, WrapsUnder
    <3>4. committed = "none" => FirstRunKeyed'
      BY <1>0, <3>1 DEF KeysUntouched, KeyedDisk, FirstRunKeyed, WrapsThere, no_files_in_form
    <3> QED BY <3>1, <3>2, <3>3, <3>4 DEF KeysUntouched, KeyedDisk
  <2> QED BY <1>2, <2>1, <2>2, <2>3, <2>4, <2>5, <2>6 DEF TouchesKeys, Touches
<1> QED BY <1>1, <1>2

(* Every step keeps the invariant. *)
LEMMA VaultInvariantStep == VaultInvariant /\ [Next]_vars => VaultInvariant'
<1> SUFFICES ASSUME VaultInvariant, [Next]_vars PROVE VaultInvariant'
  OBVIOUS
<1>0. /\ StoreInvariant /\ Structure /\ KeyedDisk
      /\ \A q \in Proc : KeyStillHolds(q) /\ SidecarKeyed(q) /\ Cleaned(q)
  BY DEF VaultInvariant, KeyInvariant, KeyedDisk, StoreInvariant
<1>1. StoreInvariant'
  BY <1>0, InvariantStep
<1>2. ASSUME NEW p \in Proc, Act(p) PROVE VaultInvariant'
  <2>1. \A q \in Proc : Keyed(q)'
    BY <1>2, ActorKeyed, OthersKeyed
  <2>2. KeyedDisk'
    BY <1>2, DiskKeyed
  <2> QED BY <1>1, <2>1, <2>2 DEF VaultInvariant, KeyInvariant, Keyed, KeyedDisk
<1>3. CASE LoseSettings
  <2>1. UNCHANGED <<files, wraps, committed, ses, op, pc, side, opKey>> /\ excl = Nobody
    BY <1>3 DEF LoseSettings, LockFree, local
  <2>2. KeyedDisk'
    BY <1>0, <2>1 DEF KeyedDisk, Opens, LeftoverKeyed, FirstRunKeyed, VaultKey, OneKey,
                      WrapsThere, WrapsUnder, no_files_in_form
  <2>3. ASSUME NEW q \in Proc PROVE Keyed(q)'
    <3>1. /\ op[q] \notin {"enabled", "factor"}
          /\ pc[q] \notin {"commit", "wrap", "migrate", "stale"} /\ side[q].file # "wraps"
      BY <1>0, <2>1, SharedKeyed, NobodyAssumption
    <3> QED BY <1>0, <2>1, <3>1 DEF Keyed, KeyStillHolds, SidecarKeyed, Cleaned, VaultKey
  <2> QED BY <1>1, <2>2, <2>3 DEF VaultInvariant, KeyInvariant, Keyed, KeyedDisk
<1>4. CASE UNCHANGED vars
  <2>1. UNCHANGED <<files, wraps, junk, settings, committed, ses, op, pc, side, opKey, todo>>
    BY <1>4 DEF vars, disk, local, history
  <2>2. KeyedDisk'
    BY <1>0, <2>1 DEF KeyedDisk, Opens, LeftoverKeyed, FirstRunKeyed, VaultKey, OneKey,
                      WrapsThere, WrapsUnder, no_files_in_form
  <2>3. ASSUME NEW q \in Proc PROVE Keyed(q)'
    BY <1>0, <2>1 DEF Keyed, KeyStillHolds, SidecarKeyed, Cleaned, VaultKey, OneKey, WrapsThere,
                      WrapsUnder, migration_preflight, Readable
  <2> QED BY <1>1, <2>2, <2>3 DEF VaultInvariant, KeyInvariant, Keyed, KeyedDisk
<1> QED BY <1>2, <1>3, <1>4 DEF Next, Act

(* The inductive invariant of the credentials and of the keys holds in every
   reachable state of a new project (config/mod.rs, the vault's transitions). *)
THEOREM VaultInvariantHolds == Spec => []VaultInvariant
<1>1. Init => VaultInvariant
  <2> SUFFICES ASSUME Init PROVE VaultInvariant
    OBVIOUS
  <2>1. StoreInvariant
    BY InvariantInit
  <2>2. committed = "none" /\ \A a \in Artifact : files["enc"][a].there = FALSE
    BY DEF Init, NoFile, Form
  <2>3. LeftoverKeyed /\ FirstRunKeyed
    BY <2>2, JwksAssumption
       DEF Init, LeftoverKeyed, FirstRunKeyed, Closed, Believes
  <2>4. \A p \in Proc : KeyStillHolds(p) /\ SidecarKeyed(p) /\ Cleaned(p)
    BY DEF Init, KeyStillHolds, SidecarKeyed, Cleaned, NoSide, MapSidecar
  <2> QED BY <2>1, <2>2, <2>3, <2>4 DEF VaultInvariant, KeyInvariant
<1>2. VaultInvariant /\ [Next]_vars => VaultInvariant'
  BY VaultInvariantStep
<1> QED BY <1>1, <1>2, PTL DEF Spec

(* An encrypted vault can always be unlocked: keys.enc exists and every enrolled
   factor unwraps the one key that opens every encrypted map, whatever transition
   crashed, failed, was retried or raced another session. *)
THEOREM VaultAlwaysOpens == Spec => []EncryptedVaultOpens
<1>1. VaultInvariant => EncryptedVaultOpens
  <2> SUFFICES ASSUME VaultInvariant, settings = "enc"
               PROVE  \E k \in Key :
                        /\ files["enc"][Jwks].there
                        /\ \A a \in Artifact : files["enc"][a].there => files["enc"][a].key = k
                        /\ WrapsThere
                        /\ \A f \in Factor : wraps[f] \in {NoKey, k}
    BY DEF EncryptedVaultOpens
  <2>1. Opens
    BY DEF VaultInvariant, KeyInvariant, StoreInvariant, ModeMatches
  <2>2. VaultKey \in Key
    BY <2>1, JwksAssumption
       DEF Opens, VaultKey, VaultInvariant, StoreInvariant, Structure, TypeOK, File, KeyOpt, Form
  <2> QED BY <2>1, <2>2 DEF Opens, OneKey, WrapsUnder
<1> QED BY <1>1, VaultInvariantHolds, PTL

(* A first run that died or failed can be finished: the unlock screen is shown and
   any enrolled factor's key opens what is there. *)
THEOREM FirstRunAlwaysOpens == Spec => []InterruptedFirstRunOpens
<1>1. VaultInvariant => InterruptedFirstRunOpens
  <2> SUFFICES ASSUME VaultInvariant, settings = "none", committed = "none",
                      \E a \in Artifact : files["enc"][a].there
               PROVE  /\ interrupted_first_run
                      /\ \A f \in Factor : wraps[f] # NoKey
                            => \A a \in Artifact : Readable(a, wraps[f])
    BY DEF InterruptedFirstRunOpens
  <2>1. FirstRunKeyed /\ LeftoverKeyed
    BY DEF VaultInvariant, KeyInvariant
  <2>2. files["enc"][Jwks].there /\ WrapsThere /\ no_files_in_form("plain")
    BY <2>1 DEF FirstRunKeyed
  <2>3. WrapsUnder(VaultKey)
    BY <2>1, <2>2, JwksAssumption DEF LeftoverKeyed, no_files_in_form
  <2>4. ASSUME NEW f \in Factor, wraps[f] # NoKey, NEW a \in Artifact
        PROVE  Readable(a, wraps[f])
    <3>1. files["enc"][a].there => a = Jwks
      BY <2>1 DEF FirstRunKeyed
    <3> QED BY <2>3, <2>4, <3>1 DEF Readable, FormOf, WrapsUnder, VaultKey
  <2> QED BY <2>2, <2>4 DEF interrupted_first_run
<1> QED BY <1>1, VaultInvariantHolds, PTL

(* A settle that ran to its end leaves an encrypted vault no cleartext, neither a
   stale plain map nor the plain sidecar of a dead process. *)
THEOREM SettledIsClean == Spec => SettleLeavesNoCleartext
<1> DEFINE Clean == \A p \in Proc :
                      /\ op[p] \in {"enabled", "settle"} /\ op'[p] = "none" /\ faults' = faults
                      /\ settings' = "enc"
                      => /\ "plain" \notin junk'
                         /\ \A a \in Artifact : files'["enc"][a].there => ~files'["plain"][a].there
<1>1. VaultInvariant /\ [Next]_vars => [Clean]_vars
  <2> SUFFICES ASSUME VaultInvariant, Next, NEW p \in Proc,
                      op[p] \in {"enabled", "settle"}, op'[p] = "none", faults' = faults,
                      settings' = "enc"
               PROVE  /\ "plain" \notin junk'
                      /\ \A a \in Artifact : files'["enc"][a].there => ~files'["plain"][a].there
    OBVIOUS
  <2>0. TypeOK /\ StageMatches(p) /\ SidecarMatches(p) /\ Cleaned(p)
    BY DEF VaultInvariant, StoreInvariant, Structure
  <2>1. Act(p)
    <3>1. ~LoseSettings
      BY DEF LoseSettings, local
    <3>2. PICK q \in Proc : Act(q)
      BY <3>1 DEF Next, Act
    <3>3. q = p
      BY <2>0, <3>2, FrameStep DEF Frame
    <3> QED BY <3>2, <3>3
  <2>2. faults \in Nat
    BY <2>0, BoundAssumption DEF TypeOK
  <2>3. DiscardOrphanWraps(p)
    <3>1. ~Crash(p) /\ ~IOError(p)
      BY <2>2 DEF Crash, IOError
    <3> QED BY <2>0, <2>1, <3>1
            DEF Act, Step, Request, OpenSession, CloseSession, UnwrapKey, DecryptMaps,
                BeginEnable, BeginDisable, BeginSetUpPlain, BeginFinish, BeginSettle, BeginSave,
                BeginFactor, SweepSidecars, DiscardStale, WriteWrap, Migrate, WriteEmpty,
                WriteFlag, WriteFactor, BeginUpdate, WriteUpdate, FinishUpdate, RenameMap,
                RenameWraps, RenameSettings, StageMatches, SidecarMatches, ReadyToCommit, Enter,
                Form, TypeOK
  <2>4. pc[p] = "stale" /\ todo[p] = {} /\ UNCHANGED <<settings, files, junk>>
    BY <2>3 DEF DiscardOrphanWraps
  <2> QED BY <2>0, <2>4 DEF Cleaned
<1>2. [][Clean]_vars => SettleLeavesNoCleartext
  BY PTL DEF SettleLeavesNoCleartext
<1> QED BY <1>1, <1>2, VaultInvariantHolds, PTL DEF Spec
============================================================================
