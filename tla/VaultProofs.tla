---------------------------- MODULE VaultProofs ----------------------------
(* Theorems about Vault, for any number of processes, maps, keys, factors,
   credentials and faults: its structure, and that no credential is ever lost or
   resurrected, which is that it implements CredentialStore. *)
EXTENDS VaultInvariant, TLAPS

(* The values that stand for "nothing" have the types they stand in for. *)
LEMMA NothingTyped ==
    /\ NoFile \in File /\ NoWraps \in [Factor -> KeyOpt]
    /\ NoSide \in Sidecar /\ Closed \in Session
  BY JwksAssumption
     DEF NoFile, NoWraps, NoSide, Closed, File, Sidecar, Session, KeyOpt, Map, Mode, Form,
         SideKind, MapSidecar, Believes

(* Ending an operation keeps the types of what it changes. *)
LEMMA ReturnTyped ==
    ASSUME NEW p \in Proc, NEW s \in Session, TypeOK, Return(p, s)
    PROVE  /\ shared' \subseteq Proc /\ excl' \in Proc \cup {Nobody}
           /\ alock' \in [Artifact -> Proc \cup {Nobody}]
           /\ ses' \in [Proc -> Session]
           /\ op' \in [Proc -> Operation] /\ pc' \in [Proc -> Stage]
           /\ opKey' \in [Proc -> KeyOpt] /\ todo' \in [Proc -> SUBSET Artifact]
  BY DEF Return, TypeOK, Operation, Stage, KeyOpt

(* Discarding a stale form keeps the type of the files. *)
LEMMA DiscardTyped ==
    ASSUME NEW a \in Artifact, NEW form \in Form, TypeOK
    PROVE  StaleDiscarded(a, form) \in [Form -> [Artifact -> File]]
  BY NothingTyped DEF StaleDiscarded, TypeOK, Other, Form

LEMMA TypeInit == Init => TypeOK
  BY NothingTyped, BoundAssumption
     DEF Init, TypeOK, Mode, Form, SideKind, Operation, Stage, KeyOpt, Map

LEMMA TypeStep == Structure /\ [Next]_vars => TypeOK'
<1> SUFFICES ASSUME Structure, [Next]_vars PROVE TypeOK'
  OBVIOUS
<1> TypeOK
  BY DEF Structure
<1>1. ASSUME NEW p \in Proc, OpenSession(p) PROVE TypeOK'
  <2>1. Believes(settings, NoKey, NoKey) \in Session
    BY DEF Believes, Session, TypeOK, KeyOpt
  <2> QED BY <1>1, <2>1 DEF OpenSession, Goto, TypeOK, disk, locks, history, Stage
<1>2. ASSUME NEW p \in Proc, CloseSession(p) PROVE TypeOK'
  BY <1>2, NothingTyped DEF CloseSession, Goto, TypeOK, disk, locks, history, Stage
<1>3. ASSUME NEW p \in Proc, UnwrapKey(p) PROVE TypeOK'
  BY <1>3 DEF UnwrapKey, Goto, TypeOK, disk, locks, history, Stage, Operation
<1>4. ASSUME NEW p \in Proc, DecryptMaps(p) PROVE TypeOK'
  <2>1. CASE Return(p, ses[p])
    BY <1>4, <2>1, ReturnTyped DEF DecryptMaps, TypeOK, disk, history
  <2>2. CASE ~Return(p, ses[p])
    <3>1. /\ pc' = [pc EXCEPT ![p] = "lock"]
          /\ \/ op' = [op EXCEPT ![p] = "finish"] /\ ses' = ses
             \/ /\ op' = [op EXCEPT ![p] = "settle"]
                /\ ses' = [ses EXCEPT ![p] = Believes(@.mode, opKey[p], @.retry)]
          /\ UNCHANGED <<disk, locks, opKey, todo, side, minted, history>>
      BY <1>4, <2>2 DEF DecryptMaps, Goto
    <3>2. Believes(ses[p].mode, opKey[p], ses[p].retry) \in Session
      BY DEF TypeOK, Believes, Session
    <3>3. ses' \in [Proc -> Session]
      BY <3>1, <3>2 DEF TypeOK
    <3>4. op' \in [Proc -> Operation]
      BY <3>1 DEF TypeOK, Operation
    <3> QED BY <3>1, <3>3, <3>4 DEF TypeOK, disk, locks, history, Stage
  <2> QED BY <2>1, <2>2
<1>5. ASSUME NEW p \in Proc, BeginEnable(p) PROVE TypeOK'
  <2>1. PICK k \in session_or_retry_dek(p) :
          /\ minted' = minted \cup {k}
          /\ \/ Enter(p, "enable", "sweep", k) /\ UNCHANGED ses
             \/ /\ ses' = [ses EXCEPT ![p] = Believes(@.mode, @.key, k)]
                /\ UNCHANGED <<locks, op, pc, opKey>>
    BY <1>5 DEF BeginEnable
  <2>2. k \in Key
    BY DEF session_or_retry_dek, TypeOK, KeyOpt, Session
  <2>3. UNCHANGED <<disk, todo, side, history>> /\ minted' \subseteq Key
    BY <1>5, <2>1, <2>2 DEF BeginEnable, TypeOK
  <2>4. CASE Enter(p, "enable", "sweep", k) /\ UNCHANGED ses
    BY <2>2, <2>3, <2>4 DEF Enter, TypeOK, disk, history, Stage, Operation, KeyOpt
  <2>5. CASE ~(Enter(p, "enable", "sweep", k) /\ UNCHANGED ses)
    <3>1. Believes(ses[p].mode, ses[p].key, k) \in Session
      BY <2>2 DEF TypeOK, Believes, Session, KeyOpt
    <3>2. ses' \in [Proc -> Session]
      BY <2>1, <2>5, <3>1 DEF TypeOK
    <3>3. UNCHANGED <<locks, op, pc, opKey>>
      BY <2>1, <2>5
    <3> QED BY <2>3, <3>2, <3>3 DEF TypeOK, disk, locks, history
  <2> QED BY <2>4, <2>5
<1>6. ASSUME NEW p \in Proc, BeginDisable(p) PROVE TypeOK'
  BY <1>6 DEF BeginDisable, Enter, TypeOK, Session, disk, history, Stage, Operation
<1>7. ASSUME NEW p \in Proc, BeginSetUpPlain(p) PROVE TypeOK'
  BY <1>7 DEF BeginSetUpPlain, Enter, TypeOK, disk, history, Stage, Operation, KeyOpt
<1>8. ASSUME NEW p \in Proc, BeginFinish(p) PROVE TypeOK'
  <2>1. CASE Return(p, ses[p])
    BY <1>8, <2>1, ReturnTyped DEF BeginFinish, Enter, TypeOK, disk, history
  <2>2. CASE ~Return(p, ses[p])
    <3>1. /\ Enter(p, "finish", "commit", opKey[p])
          /\ UNCHANGED <<disk, ses, todo, side, minted, history>>
      BY <1>8, <2>2 DEF BeginFinish
    <3> QED BY <3>1 DEF Enter, TypeOK, disk, history, Stage, Operation
  <2> QED BY <2>1, <2>2
<1>9. ASSUME NEW p \in Proc, BeginSettle(p) PROVE TypeOK'
  BY <1>9 DEF BeginSettle, Enter, TypeOK, disk, history, Stage, Operation
<1>10. ASSUME NEW p \in Proc, BeginSave(p) PROVE TypeOK'
  BY <1>10 DEF BeginSave, Enter, TypeOK, disk, history, Stage, Operation, KeyOpt
<1>11. ASSUME NEW p \in Proc, BeginFactor(p) PROVE TypeOK'
  BY <1>11 DEF BeginFactor, Enter, TypeOK, Session, disk, history, Stage, Operation
<1>12. ASSUME NEW p \in Proc, SweepSidecars(p) PROVE TypeOK'
  <2>1. junk' \subseteq SideKind
    BY <1>12 DEF SweepSidecars, TypeOK, Sidecar
  <2>2. side' \in [Proc -> Sidecar]
    BY <1>12, NothingTyped DEF SweepSidecars, TypeOK
  <2>3. pc' \in [Proc -> Stage]
    BY <1>12 DEF SweepSidecars, Goto, TypeOK, Stage
  <2>4. todo' \in [Proc -> SUBSET Artifact]
    BY <1>12 DEF SweepSidecars, TypeOK
  <2> QED BY <1>12, <2>1, <2>2, <2>3, <2>4 DEF SweepSidecars, TypeOK, locks, history
<1>13. ASSUME NEW p \in Proc, DiscardStale(p) PROVE TypeOK'
  <2>1. PICK a \in todo[p] : /\ files' = StaleDiscarded(a, settings)
                             /\ todo' = [todo EXCEPT ![p] = @ \ {a}]
    BY <1>13 DEF DiscardStale
  <2>2. a \in Artifact /\ settings \in Form
    BY <1>13, <2>1 DEF DiscardStale, Structure, StaleHasMode, TypeOK, Mode
  <2>3. files' \in [Form -> [Artifact -> File]]
    BY <2>1, <2>2, DiscardTyped
  <2> QED BY <1>13, <2>1, <2>3 DEF DiscardStale, TypeOK, locks, history
<1>14. ASSUME NEW p \in Proc, DiscardOrphanWraps(p) PROVE TypeOK'
  <2>1. wraps' \in [Factor -> KeyOpt]
    BY <1>14, NothingTyped DEF DiscardOrphanWraps, TypeOK
  <2>2. CASE \E s \in Session : Return(p, s)
    BY <1>14, <2>1, <2>2, ReturnTyped DEF DiscardOrphanWraps, TypeOK, history
  <2>3. CASE ~\E s \in Session : Return(p, s)
    <3>1. /\ ses[p] \in Session /\ KeepForRetry(p) \in Session
          /\ Believes("enc", opKey[p], NoKey) \in Session
          /\ Believes("plain", NoKey, ses[p].retry) \in Session
      BY DEF TypeOK, KeepForRetry, Believes, Session, Mode, Form, KeyOpt
    <3>2. op[p] \in {"enable", "disable", "enabled", "disabled", "settle"}
      BY <1>14 DEF DiscardOrphanWraps, Structure, StageMatches
    <3>3. /\ \/ pc' = [pc EXCEPT ![p] = "wrap"] /\ todo' = todo
             \/ pc' = [pc EXCEPT ![p] = "migrate"] /\ todo' = [todo EXCEPT ![p] = Artifact]
          /\ UNCHANGED <<locks, ses, op, opKey>>
      BY <1>14, <2>3, <3>1, <3>2 DEF DiscardOrphanWraps, AfterSettle, Goto
    <3>4. pc' \in [Proc -> Stage]
      BY <3>3 DEF TypeOK, Stage
    <3>5. todo' \in [Proc -> SUBSET Artifact]
      BY <3>3 DEF TypeOK
    <3> QED BY <1>14, <2>1, <3>3, <3>4, <3>5 DEF DiscardOrphanWraps, TypeOK, locks, history
  <2> QED BY <2>2, <2>3
<1>15. ASSUME NEW p \in Proc, WriteWrap(p) PROVE TypeOK'
  <2>1. PICK f \in Factor : side' = [side EXCEPT ![p] = WrapsSidecar([NoWraps EXCEPT ![f] = opKey[p]])]
    BY <1>15 DEF WriteWrap, WriteSidecar
  <2>2. WrapsSidecar([NoWraps EXCEPT ![f] = opKey[p]]) \in Sidecar
    BY JwksAssumption, NothingTyped DEF TypeOK, Sidecar, WrapsSidecar, SideKind, Mode, Form, Map
  <2> QED BY <1>15, <2>1, <2>2 DEF WriteWrap, TypeOK, disk, locks, history
<1>16. ASSUME NEW p \in Proc, Migrate(p) PROVE TypeOK'
  <2>1. PICK a \in todo[p] :
          \/ /\ todo' = [todo EXCEPT ![p] = @ \ {a}] /\ UNCHANGED <<side, alock>>
          \/ /\ UNCHANGED todo /\ alock' = [alock EXCEPT ![a] = p]
             /\ side' = [side EXCEPT ![p] = MapSidecar(FormOf(MigrateTarget(p)), a,
                                                       Load(a, MigrateSource(p)), {}, {})]
    BY <1>16 DEF Migrate, WriteSidecar
  <2>2. a \in Artifact /\ files[FormOf(MigrateSource(p))][a] \in File
    BY DEF TypeOK, FormOf, Form
  <2>3. MapSidecar(FormOf(MigrateTarget(p)), a, Load(a, MigrateSource(p)), {}, {}) \in Sidecar
    BY <2>2, NothingTyped DEF Sidecar, MapSidecar, Load, File, FormOf, SideKind, Mode, Form, Map
  <2>4. side' \in [Proc -> Sidecar]
    BY <2>1, <2>3 DEF TypeOK
  <2>5. alock' \in [Artifact -> Proc \cup {Nobody}]
    BY <2>1, <2>2 DEF TypeOK
  <2>6. todo' \in [Proc -> SUBSET Artifact]
    BY <2>1 DEF TypeOK
  <2> QED BY <1>16, <2>4, <2>5, <2>6 DEF Migrate, TypeOK, disk, history
<1>17. ASSUME NEW p \in Proc, WriteEmpty(p) PROVE TypeOK'
  <2>1. MapSidecar("plain", Jwks, {}, {}, {}) \in Sidecar
    BY JwksAssumption, NothingTyped DEF Sidecar, MapSidecar, SideKind, Mode, Form, Map
  <2> QED BY <1>17, <2>1 DEF WriteEmpty, WriteSidecar, TypeOK, disk, locks, history
<1>18. ASSUME NEW p \in Proc, WriteFlag(p) PROVE TypeOK'
  <2>1. NewMode(p) \in Mode
    BY DEF NewMode, Mode, Form, TypeOK
  <2>2. FlagSidecar(NewMode(p)) \in Sidecar
    BY <2>1, JwksAssumption, NothingTyped DEF Sidecar, FlagSidecar, SideKind, Map
  <2> QED BY <1>18, <2>2 DEF WriteFlag, WriteSidecar, TypeOK, disk, locks, history
<1>19. ASSUME NEW p \in Proc, WriteFactor(p) PROVE TypeOK'
  <2>1. PICK f \in Factor, k \in {NoKey, opKey[p]} :
          side' = [side EXCEPT ![p] = WrapsSidecar([wraps EXCEPT ![f] = k])]
    BY <1>19 DEF WriteFactor, WriteSidecar
  <2>2. WrapsSidecar([wraps EXCEPT ![f] = k]) \in Sidecar
    BY JwksAssumption DEF TypeOK, Sidecar, WrapsSidecar, SideKind, Mode, Form, Map, KeyOpt
  <2> QED BY <1>19, <2>1, <2>2 DEF WriteFactor, TypeOK, disk, locks, history
<1>20. ASSUME NEW p \in Proc, BeginUpdate(p) PROVE TypeOK'
  BY <1>20 DEF BeginUpdate, UpdateKey, Session, Goto, TypeOK, disk, history, Stage, Operation
<1>21. ASSUME NEW p \in Proc, WriteUpdate(p) PROVE TypeOK'
  <2>1. CASE Return(p, ses[p]) /\ UNCHANGED side
    BY <1>21, <2>1, ReturnTyped DEF WriteUpdate, TypeOK, disk, history
  <2>2. CASE ~(Return(p, ses[p]) /\ UNCHANGED side)
    <3>0. PICK a \in Artifact :
            /\ alock' = [alock EXCEPT ![a] = p]
            /\ \E e \in Entry : \E gain \in {{}, {e}} :
                 WriteSidecar(p, MapSidecar(FormOf(opKey[p]), a,
                   (Load(a, opKey[p]) \cup gain) \ ({e} \ gain), gain, {e} \ gain))
            /\ pc' = [pc EXCEPT ![p] = "update"]
            /\ UNCHANGED <<shared, excl, ses, op, opKey, todo>>
      BY <1>21, <2>2 DEF WriteUpdate, Goto
    <3>1. PICK gain \in SUBSET Entry, loss \in SUBSET Entry :
            side' = [side EXCEPT ![p] = MapSidecar(FormOf(opKey[p]), a,
                          (Load(a, opKey[p]) \cup gain) \ loss, gain, loss)]
      BY <3>0 DEF WriteSidecar
    <3>2. files[FormOf(opKey[p])][a] \in File
      BY DEF TypeOK, FormOf, Form
    <3>3. MapSidecar(FormOf(opKey[p]), a, (Load(a, opKey[p]) \cup gain) \ loss, gain, loss)
            \in Sidecar
      BY <3>2, NothingTyped
         DEF MapSidecar, Sidecar, Load, File, FormOf, SideKind, Mode, Form, Map
    <3>4. side' \in [Proc -> Sidecar]
      BY <3>1, <3>3 DEF TypeOK
    <3> QED BY <1>21, <3>0, <3>4 DEF WriteUpdate, TypeOK, disk, history, Stage
  <2> QED BY <2>1, <2>2
<1>22. ASSUME NEW p \in Proc, FinishUpdate(p) PROVE TypeOK'
  <2>1. files' \in [Form -> [Artifact -> File]]
    BY <1>22, DiscardTyped DEF FinishUpdate, FormOf, Form
  <2> QED BY <1>22, <2>1, ReturnTyped DEF FinishUpdate, TypeOK, history
<1>23. ASSUME NEW p \in Proc, RenameMap(p) PROVE TypeOK'
  <2>1. side[p] \in Sidecar /\ side[p].file \in Form
    BY <1>23 DEF RenameMap, TypeOK
  <2>2. files' \in [Form -> [Artifact -> File]]
    BY <1>23, <2>1 DEF RenameMap, TypeOK, Sidecar, File, KeyOpt, Map
  <2>3. truth' \in [Artifact -> Map]
    <3>1. side[p].gain \in Map /\ side[p].loss \in Map /\ side[p].art \in Artifact
      BY <2>1 DEF Sidecar
    <3>2. (truth[side[p].art] \cup side[p].gain) \ side[p].loss \in Map
      BY <3>1 DEF TypeOK, Map
    <3>3. \/ truth' = truth
          \/ truth' = [truth EXCEPT ![side[p].art] =
                         (truth[side[p].art] \cup side[p].gain) \ side[p].loss]
      BY <1>23 DEF RenameMap
    <3> QED BY <3>1, <3>2, <3>3 DEF TypeOK
  <2>4. side' \in [Proc -> Sidecar]
    BY <1>23, NothingTyped DEF RenameMap, TypeOK
  <2>5. alock' \in [Artifact -> Proc \cup {Nobody}]
    BY <1>23 DEF RenameMap, TypeOK
  <2>6. pc' \in [Proc -> Stage]
    BY <1>23 DEF RenameMap, Goto, TypeOK, Stage
  <2>7. todo' \in [Proc -> SUBSET Artifact]
    BY <1>23 DEF RenameMap, TypeOK
  <2> QED BY <1>23, <2>2, <2>3, <2>4, <2>5, <2>6, <2>7 DEF RenameMap, TypeOK
<1>24. ASSUME NEW p \in Proc, RenameWraps(p) PROVE TypeOK'
  <2>1. wraps' \in [Factor -> KeyOpt] /\ side' \in [Proc -> Sidecar]
    BY <1>24, NothingTyped DEF RenameWraps, TypeOK, Sidecar
  <2>2. CASE Return(p, ses[p])
    BY <1>24, <2>1, <2>2, ReturnTyped DEF RenameWraps, TypeOK, history
  <2>3. CASE ~Return(p, ses[p])
    <3>1. /\ pc' = [pc EXCEPT ![p] = "migrate"] /\ todo' = [todo EXCEPT ![p] = Artifact]
          /\ UNCHANGED <<locks, ses, op, opKey, settings, files, junk, minted, history>>
      BY <1>24, <2>3 DEF RenameWraps, Goto
    <3> QED BY <2>1, <3>1 DEF TypeOK, locks, history, Stage
  <2> QED BY <2>2, <2>3
<1>25. ASSUME NEW p \in Proc, RenameSettings(p) PROVE TypeOK'
  <2>1. settings' \in Mode /\ committed' \in Mode /\ side' \in [Proc -> Sidecar]
    BY <1>25, NothingTyped DEF RenameSettings, TypeOK, Sidecar
  <2>2. CASE \E s \in Session : Return(p, s)
    BY <1>25, <2>1, <2>2, ReturnTyped DEF RenameSettings, TypeOK
  <2>3. CASE ~\E s \in Session : Return(p, s)
    <3>1. ses[p] \in Session /\ Believes("plain", ses[p].key, ses[p].retry) \in Session
          /\ Believes("enc", opKey[p], ses[p].retry) \in Session
      BY DEF TypeOK, Believes, Session, Mode, Form
    <3>2. op[p] \in {"enable", "disable", "setup", "finish", "save"}
      BY <1>25 DEF RenameSettings, Structure, StageMatches, SidecarMatches, ReadyToCommit
    <3>3. CASE op[p] \in {"enable", "disable"}
      BY <1>25, <2>1, <3>3 DEF RenameSettings, Goto, TypeOK, locks, Stage, Operation
    <3>4. CASE op[p] = "finish"
      <4>1. /\ pc' = [pc EXCEPT ![p] = "lock"] /\ op' = [op EXCEPT ![p] = "settle"]
            /\ ses' = [ses EXCEPT ![p] = Believes("enc", opKey[p], @.retry)]
            /\ excl' = Nobody
            /\ UNCHANGED <<shared, alock, opKey, todo, files, wraps, junk, minted, truth,
                           faults, lost>>
        BY <1>25, <3>4 DEF RenameSettings, Goto
      <4>2. ses' \in [Proc -> Session]
        BY <3>1, <4>1 DEF TypeOK
      <4> QED BY <2>1, <4>1, <4>2 DEF TypeOK, Stage, Operation
    <3> QED BY <1>25, <2>3, <3>1, <3>2, <3>3, <3>4 DEF RenameSettings
  <2> QED BY <2>2, <2>3
<1>26. ASSUME NEW p \in Proc, Crash(p) PROVE TypeOK'
  <2>1. side' \in [Proc -> Sidecar] /\ junk' \subseteq SideKind /\ faults' \in 0..MaxFaults
    BY <1>26, BoundAssumption, NothingTyped DEF Crash, TypeOK, Sidecar
  <2> QED BY <1>26, <2>1, NothingTyped DEF Crash, Goto, TypeOK, Stage, Operation, KeyOpt
<1>27. ASSUME NEW p \in Proc, IOError(p) PROVE TypeOK'
  <2>1. side' \in [Proc -> Sidecar] /\ junk' \subseteq SideKind /\ faults' \in 0..MaxFaults
    BY <1>27, BoundAssumption, NothingTyped DEF IOError, TypeOK, Sidecar
  <2>2. AfterError(p) \in Session
    BY DEF AfterError, KeepForRetry, Believes, Session, TypeOK, Mode, Form, KeyOpt
  <2> QED BY <1>27, <2>1, <2>2, ReturnTyped DEF IOError, TypeOK
<1>28. CASE LoseSettings
  BY <1>28, BoundAssumption DEF LoseSettings, TypeOK, locks, local, Mode
<1>29. CASE UNCHANGED vars
  BY <1>29 DEF vars, disk, locks, local, history, TypeOK
<1> QED BY <1>1, <1>2, <1>3, <1>4, <1>5, <1>6, <1>7, <1>8, <1>9, <1>10, <1>11, <1>12, <1>13,
           <1>14, <1>15, <1>16, <1>17, <1>18, <1>19, <1>20, <1>21, <1>22, <1>23, <1>24, <1>25,
           <1>26, <1>27, <1>28, <1>29
        DEF Next, Step, Request

-----------------------------------------------------------------------------
(* How a step of one process leaves the others alone. *)

(* A step of one process. *)
Act(p) == Step(p) \/ Request(p) \/ Crash(p) \/ IOError(p)

(* A process's step changes nothing another process keeps for itself: at most it
   sweeps a sidecar away. *)
Frame(p) ==
    \A q \in Proc \ {p} :
      /\ op'[q] = op[q] /\ pc'[q] = pc[q] /\ todo'[q] = todo[q] /\ opKey'[q] = opKey[q]
      /\ ses'[q] = ses[q] /\ side'[q] \in {side[q], NoSide}

(* What a step of p may do to the vault lock: nothing, take it, or give it up. *)
LockMove(p) ==
    \/ excl' = excl /\ shared' = shared
    \/ excl = Nobody /\ shared = {} /\ excl' = p /\ shared' = shared
    \/ excl = Nobody /\ excl' = excl /\ shared' = shared \cup {p}
    \/ shared' = shared \ {p} /\ excl' = excl /\ excl # p
    \/ shared' = shared \ {p} /\ excl' = Nobody /\ excl = p
    \/ shared' = shared /\ excl' = Nobody /\ excl = p

(* What the structure says of one process. *)
ProcOK(p) ==
    /\ StageMatches(p) /\ SidecarMatches(p)
    /\ excl = p <=> op[p] \in Exclusive /\ pc[p] # "lock"
    /\ p \in shared <=> op[p] = "update"
    /\ pc[p] = "stale" /\ todo[p] # {} => settings # "none"

(* Every step of a process is framed. *)
LEMMA FrameStep ==
    ASSUME NEW p \in Proc, TypeOK, Act(p)
    PROVE  Frame(p)
<1>1. CASE OpenSession(p)
  BY <1>1 DEF OpenSession, Goto, Frame, TypeOK, disk, locks, history
<1>2. CASE CloseSession(p)
  BY <1>2 DEF CloseSession, Goto, Frame, TypeOK, disk, locks, history
<1>3. CASE UnwrapKey(p)
  BY <1>3 DEF UnwrapKey, Goto, Frame, TypeOK, disk, locks, history
<1>4. CASE DecryptMaps(p)
  BY <1>4 DEF DecryptMaps, Goto, Return, Frame, TypeOK, disk, locks, history
<1>5. CASE BeginEnable(p)
  BY <1>5 DEF BeginEnable, session_or_retry_dek, Enter, LockFree, Frame, TypeOK, disk, locks,
     history
<1>6. CASE BeginDisable(p)
  BY <1>6 DEF BeginDisable, Enter, LockFree, Frame, TypeOK, disk, locks, history
<1>7. CASE BeginSetUpPlain(p)
  BY <1>7 DEF BeginSetUpPlain, Enter, LockFree, Frame, TypeOK, disk, locks, history
<1>8. CASE BeginFinish(p)
  BY <1>8 DEF BeginFinish, Enter, LockFree, Return, Frame, TypeOK, disk, locks, history
<1>9. CASE BeginSettle(p)
  BY <1>9 DEF BeginSettle, Enter, LockFree, Frame, TypeOK, disk, locks, history
<1>10. CASE BeginSave(p)
  BY <1>10 DEF BeginSave, Enter, LockFree, Frame, TypeOK, disk, locks, history
<1>11. CASE BeginFactor(p)
  BY <1>11 DEF BeginFactor, Enter, LockFree, Frame, TypeOK, disk, locks, history
<1>12. CASE SweepSidecars(p)
  BY <1>12 DEF SweepSidecars, Goto, Frame, TypeOK, disk, locks, history
<1>13. CASE DiscardStale(p)
  BY <1>13 DEF DiscardStale, Frame, TypeOK, disk, locks, history
<1>14. CASE DiscardOrphanWraps(p)
  BY <1>14 DEF DiscardOrphanWraps, AfterSettle, KeepForRetry, Goto, Return, Frame, TypeOK,
     disk, locks, history
<1>15. CASE WriteWrap(p)
  BY <1>15 DEF WriteWrap, WriteSidecar, Frame, TypeOK, disk, locks, history
<1>16. CASE Migrate(p)
  BY <1>16 DEF Migrate, WriteSidecar, MigrateSource, MigrateTarget, Load, Frame, TypeOK, disk,
     locks, history
<1>17. CASE WriteEmpty(p)
  BY <1>17 DEF WriteEmpty, WriteSidecar, Frame, TypeOK, disk, locks, history
<1>18. CASE WriteFlag(p)
  BY <1>18 DEF WriteFlag, WriteSidecar, NewMode, Frame, TypeOK, disk, locks, history
<1>19. CASE WriteFactor(p)
  BY <1>19 DEF WriteFactor, WriteSidecar, Frame, TypeOK, disk, locks, history
<1>20. CASE BeginUpdate(p)
  BY <1>20 DEF BeginUpdate, Goto, UpdateKey, Frame, TypeOK, disk, locks, history
<1>21. CASE WriteUpdate(p)
  BY <1>21 DEF WriteUpdate, WriteSidecar, Goto, Return, Load, Frame, TypeOK, disk, locks,
     history
<1>22. CASE FinishUpdate(p)
  BY <1>22 DEF FinishUpdate, Return, Frame, TypeOK, disk, locks, history
<1>23. CASE RenameMap(p)
  BY <1>23 DEF RenameMap, Goto, Frame, TypeOK, disk, locks, history
<1>24. CASE RenameWraps(p)
  BY <1>24 DEF RenameWraps, Goto, Return, Frame, TypeOK, disk, locks, history
<1>25. CASE RenameSettings(p)
  BY <1>25 DEF RenameSettings, Goto, Return, Frame, TypeOK, disk, locks, history
<1>26. CASE Crash(p)
  BY <1>26 DEF Crash, Goto, Frame, TypeOK, disk, locks, history
<1>27. CASE IOError(p)
  BY <1>27 DEF IOError, Return, AfterError, KeepForRetry, Frame, TypeOK, disk, locks, history
<1> QED BY <1>1, <1>2, <1>3, <1>4, <1>5, <1>6, <1>7, <1>8, <1>9, <1>10, <1>11, <1>12, <1>13,
   <1>14, <1>15, <1>16, <1>17, <1>18, <1>19, <1>20, <1>21, <1>22, <1>23, <1>24, <1>25, <1>26,
   <1>27 DEF Act, Step, Request

(* Every step of a process moves the vault lock in one of the ways listed. *)
LEMMA LockMoves ==
    ASSUME NEW p \in Proc, Structure, Act(p)
    PROVE  LockMove(p)
<1>1. CASE OpenSession(p)
  BY <1>1 DEF OpenSession, Goto, LockMove, locks
<1>2. CASE CloseSession(p)
  BY <1>2 DEF CloseSession, Goto, LockMove, locks
<1>3. CASE UnwrapKey(p)
  BY <1>3 DEF UnwrapKey, Goto, LockMove, locks
<1>4. CASE DecryptMaps(p)
  BY <1>4 DEF DecryptMaps, Goto, Return, LockMove, locks
<1>5. CASE BeginEnable(p)
  BY <1>5 DEF BeginEnable, session_or_retry_dek, Enter, LockFree, LockMove, locks
<1>6. CASE BeginDisable(p)
  BY <1>6 DEF BeginDisable, Enter, LockFree, LockMove, locks
<1>7. CASE BeginSetUpPlain(p)
  BY <1>7 DEF BeginSetUpPlain, Enter, LockFree, LockMove, locks
<1>8. CASE BeginFinish(p)
  BY <1>8 DEF BeginFinish, Enter, LockFree, Return, LockMove, locks
<1>9. CASE BeginSettle(p)
  BY <1>9 DEF BeginSettle, Enter, LockFree, LockMove, locks
<1>10. CASE BeginSave(p)
  BY <1>10 DEF BeginSave, Enter, LockFree, LockMove, locks
<1>11. CASE BeginFactor(p)
  BY <1>11 DEF BeginFactor, Enter, LockFree, LockMove, locks
<1>12. CASE SweepSidecars(p)
  BY <1>12 DEF SweepSidecars, Goto, LockMove, locks
<1>13. CASE DiscardStale(p)
  BY <1>13 DEF DiscardStale, LockMove, locks
<1>14. CASE DiscardOrphanWraps(p)
  BY <1>14 DEF DiscardOrphanWraps, AfterSettle, KeepForRetry, Goto, Return, LockMove, locks
<1>15. CASE WriteWrap(p)
  BY <1>15 DEF WriteWrap, WriteSidecar, LockMove, locks
<1>16. CASE Migrate(p)
  BY <1>16 DEF Migrate, WriteSidecar, MigrateSource, MigrateTarget, Load, LockMove, locks
<1>17. CASE WriteEmpty(p)
  BY <1>17 DEF WriteEmpty, WriteSidecar, LockMove, locks
<1>18. CASE WriteFlag(p)
  BY <1>18 DEF WriteFlag, WriteSidecar, NewMode, LockMove, locks
<1>19. CASE WriteFactor(p)
  BY <1>19 DEF WriteFactor, WriteSidecar, LockMove, locks
<1>20. CASE BeginUpdate(p)
  BY <1>20 DEF BeginUpdate, Goto, UpdateKey, LockMove, locks
<1>21. CASE WriteUpdate(p)
  BY <1>21 DEF WriteUpdate, WriteSidecar, Goto, Return, Load, LockMove, locks
<1>22. CASE FinishUpdate(p)
  BY <1>22 DEF FinishUpdate, Return, LockMove, locks
<1>23. CASE RenameMap(p)
  BY <1>23 DEF RenameMap, Goto, LockMove, locks
<1>24. CASE RenameWraps(p)
  BY <1>24 DEF RenameWraps, Goto, Return, LockMove, locks
<1>25. CASE RenameSettings(p)
  <2>1. CASE op[p] = "finish" /\ excl' = Nobody /\ shared' = shared
    <3>1. pc[p] # "lock"
      BY <1>25, <2>1 DEF RenameSettings, Structure, SidecarMatches, ReadyToCommit
    <3>2. excl = p
      BY <2>1, <3>1 DEF Structure, LocksMatch, Exclusive
    <3> QED BY <2>1, <3>2 DEF LockMove
  <2>2. CASE ~(op[p] = "finish" /\ excl' = Nobody /\ shared' = shared)
    BY <1>25, <2>2 DEF RenameSettings, Return, LockMove, locks
  <2> QED BY <2>1, <2>2
<1>26. CASE Crash(p)
  BY <1>26 DEF Crash, Goto, LockMove, locks
<1>27. CASE IOError(p)
  BY <1>27 DEF IOError, Return, AfterError, KeepForRetry, LockMove, locks
<1> QED BY <1>1, <1>2, <1>3, <1>4, <1>5, <1>6, <1>7, <1>8, <1>9, <1>10, <1>11, <1>12, <1>13,
   <1>14, <1>15, <1>16, <1>17, <1>18, <1>19, <1>20, <1>21, <1>22, <1>23, <1>24, <1>25, <1>26,
   <1>27 DEF Act, Step, Request

(* A step keeps the structure of the process that takes it. *)
LEMMA ActorOK ==
    ASSUME NEW p \in Proc, TypeOK, ProcOK(p), Act(p)
    PROVE  ProcOK(p)'
<1>1. CASE OpenSession(p)
  BY <1>1, NobodyAssumption DEF OpenSession, Goto, ProcOK, StageMatches, SidecarMatches,
     ReadyToCommit, Exclusive, TypeOK, locks, disk, history, NoSide, MapSidecar, FlagSidecar,
     WrapsSidecar, Form
<1>2. CASE CloseSession(p)
  BY <1>2, NobodyAssumption DEF CloseSession, Goto, ProcOK, StageMatches, SidecarMatches,
     ReadyToCommit, Exclusive, TypeOK, locks, disk, history, NoSide, MapSidecar, FlagSidecar,
     WrapsSidecar, Form
<1>3. CASE UnwrapKey(p)
  BY <1>3, NobodyAssumption DEF UnwrapKey, Goto, ProcOK, StageMatches, SidecarMatches,
     ReadyToCommit, Exclusive, TypeOK, locks, disk, history, NoSide, MapSidecar, FlagSidecar,
     WrapsSidecar, Form
<1>4. CASE DecryptMaps(p)
  BY <1>4, NobodyAssumption DEF DecryptMaps, Goto, Return, ProcOK, StageMatches,
     SidecarMatches, ReadyToCommit, Exclusive, TypeOK, locks, disk, history, NoSide,
     MapSidecar, FlagSidecar, WrapsSidecar, Form
<1>5. CASE BeginEnable(p)
  BY <1>5, NobodyAssumption DEF BeginEnable, session_or_retry_dek, Enter, LockFree, ProcOK,
     StageMatches, SidecarMatches, ReadyToCommit, Exclusive, TypeOK, locks, disk, history,
     NoSide, MapSidecar, FlagSidecar, WrapsSidecar, Form
<1>6. CASE BeginDisable(p)
  BY <1>6, NobodyAssumption DEF BeginDisable, Enter, LockFree, ProcOK, StageMatches,
     SidecarMatches, ReadyToCommit, Exclusive, TypeOK, locks, disk, history, NoSide,
     MapSidecar, FlagSidecar, WrapsSidecar, Form
<1>7. CASE BeginSetUpPlain(p)
  BY <1>7, NobodyAssumption DEF BeginSetUpPlain, Enter, LockFree, ProcOK, StageMatches,
     SidecarMatches, ReadyToCommit, Exclusive, TypeOK, locks, disk, history, NoSide,
     MapSidecar, FlagSidecar, WrapsSidecar, Form
<1>8. CASE BeginFinish(p)
  BY <1>8, NobodyAssumption DEF BeginFinish, Enter, LockFree, Return, ProcOK, StageMatches,
     SidecarMatches, ReadyToCommit, Exclusive, TypeOK, locks, disk, history, NoSide,
     MapSidecar, FlagSidecar, WrapsSidecar, Form
<1>9. CASE BeginSettle(p)
  BY <1>9, NobodyAssumption DEF BeginSettle, Enter, LockFree, ProcOK, StageMatches,
     SidecarMatches, ReadyToCommit, Exclusive, TypeOK, locks, disk, history, NoSide,
     MapSidecar, FlagSidecar, WrapsSidecar, Form
<1>10. CASE BeginSave(p)
  BY <1>10, NobodyAssumption DEF BeginSave, Enter, LockFree, ProcOK, StageMatches,
     SidecarMatches, ReadyToCommit, Exclusive, TypeOK, locks, disk, history, NoSide,
     MapSidecar, FlagSidecar, WrapsSidecar, Form
<1>11. CASE BeginFactor(p)
  BY <1>11, NobodyAssumption DEF BeginFactor, Enter, LockFree, ProcOK, StageMatches,
     SidecarMatches, ReadyToCommit, Exclusive, TypeOK, locks, disk, history, NoSide,
     MapSidecar, FlagSidecar, WrapsSidecar, Form
<1>12. CASE SweepSidecars(p)
  <2>1. /\ side'[p] \in {side[p], NoSide} /\ UNCHANGED <<excl, shared, op, settings>>
        /\ \/ pc' = pc /\ todo' = todo
           \/ /\ pc' = [pc EXCEPT ![p] = "stale"]
              /\ todo' = [todo EXCEPT ![p] = IF settings = "none" THEN {} ELSE Artifact]
    BY <1>12 DEF SweepSidecars, Goto, TypeOK, locks
  <2>2. pc[p] = "sweep" /\ pc'[p] \in {"sweep", "stale"} /\ side[p].file \notin {"wraps", "settings"} \cup Form
    BY <1>12, <2>1 DEF SweepSidecars, TypeOK, ProcOK, SidecarMatches, ReadyToCommit, Form
  <2>3. side'[p].file \notin {"wraps", "settings"} \cup Form
    BY <2>1, <2>2 DEF NoSide, MapSidecar, Form
  <2>4. pc'[p] = "stale" /\ todo'[p] # {} => settings' # "none"
    BY <2>1, <2>2 DEF TypeOK
  <2> QED BY <2>1, <2>2, <2>3, <2>4
          DEF ProcOK, StageMatches, SidecarMatches, Exclusive
<1>13. CASE DiscardStale(p)
  BY <1>13, NobodyAssumption DEF DiscardStale, ProcOK, StageMatches, SidecarMatches,
     ReadyToCommit, Exclusive, TypeOK, locks, disk, history, NoSide, MapSidecar, FlagSidecar,
     WrapsSidecar, Form
<1>14. CASE DiscardOrphanWraps(p)
  BY <1>14, NobodyAssumption DEF DiscardOrphanWraps, AfterSettle, KeepForRetry, Goto, Return,
     ProcOK, StageMatches, SidecarMatches, ReadyToCommit, Exclusive, TypeOK, locks, disk,
     history, NoSide, MapSidecar, FlagSidecar, WrapsSidecar, Form
<1>15. CASE WriteWrap(p)
  BY <1>15, NobodyAssumption DEF WriteWrap, WriteSidecar, ProcOK, StageMatches,
     SidecarMatches, ReadyToCommit, Exclusive, TypeOK, locks, disk, history, NoSide,
     MapSidecar, FlagSidecar, WrapsSidecar, Form
<1>16. CASE Migrate(p)
  <2>1. PICK a \in todo[p] :
          \/ todo' = [todo EXCEPT ![p] = @ \ {a}] /\ UNCHANGED side
          \/ side' = [side EXCEPT ![p] = MapSidecar(FormOf(MigrateTarget(p)), a,
                                                    Load(a, MigrateSource(p)), {}, {})]
    BY <1>16 DEF Migrate, WriteSidecar
  <2>2. pc[p] = "migrate" /\ side[p].file = "none" /\ UNCHANGED <<pc, op, excl, shared>>
    BY <1>16 DEF Migrate
  <2>3. side'[p].file \in Form \cup {"none"}
    BY <2>1, <2>2 DEF TypeOK, MapSidecar, FormOf, Form
  <2> QED BY <2>2, <2>3
          DEF ProcOK, StageMatches, SidecarMatches, Exclusive, Form
<1>17. CASE WriteEmpty(p)
  BY <1>17, NobodyAssumption DEF WriteEmpty, WriteSidecar, ProcOK, StageMatches,
     SidecarMatches, ReadyToCommit, Exclusive, TypeOK, locks, disk, history, NoSide,
     MapSidecar, FlagSidecar, WrapsSidecar, Form
<1>18. CASE WriteFlag(p)
  BY <1>18, NobodyAssumption DEF WriteFlag, WriteSidecar, NewMode, ProcOK, StageMatches,
     SidecarMatches, ReadyToCommit, Exclusive, TypeOK, locks, disk, history, NoSide,
     MapSidecar, FlagSidecar, WrapsSidecar, Form
<1>19. CASE WriteFactor(p)
  BY <1>19, NobodyAssumption DEF WriteFactor, WriteSidecar, ProcOK, StageMatches,
     SidecarMatches, ReadyToCommit, Exclusive, TypeOK, locks, disk, history, NoSide,
     MapSidecar, FlagSidecar, WrapsSidecar, Form
<1>20. CASE BeginUpdate(p)
  BY <1>20, NobodyAssumption DEF BeginUpdate, Goto, UpdateKey, ProcOK, StageMatches,
     SidecarMatches, ReadyToCommit, Exclusive, TypeOK, locks, disk, history, NoSide,
     MapSidecar, FlagSidecar, WrapsSidecar, Form
<1>21. CASE WriteUpdate(p)
  <2>1. CASE Return(p, ses[p]) /\ UNCHANGED side
    BY <1>21, <2>1, NobodyAssumption
       DEF WriteUpdate, Return, ProcOK, StageMatches, SidecarMatches, ReadyToCommit, Exclusive,
           TypeOK, Form
  <2>2. CASE ~(Return(p, ses[p]) /\ UNCHANGED side)
    <3>0. PICK a \in Artifact :
            /\ \E e \in Entry : \E gain \in {{}, {e}} :
                 WriteSidecar(p, MapSidecar(FormOf(opKey[p]), a,
                   (Load(a, opKey[p]) \cup gain) \ ({e} \ gain), gain, {e} \ gain))
            /\ pc' = [pc EXCEPT ![p] = "update"]
            /\ UNCHANGED <<shared, excl, op>>
      BY <1>21, <2>2 DEF WriteUpdate, Goto
    <3>1. PICK map \in SUBSET Entry, gain \in SUBSET Entry, loss \in SUBSET Entry :
            side' = [side EXCEPT ![p] = MapSidecar(FormOf(opKey[p]), a, map, gain, loss)]
      <4>1. Load(a, opKey[p]) \in SUBSET Entry
        BY DEF Load, TypeOK, FormOf, Form, File, Map
      <4> QED BY <3>0, <4>1 DEF WriteSidecar
    <3>2. op[p] = "update" /\ pc'[p] = "update" /\ side'[p].file \in Form
      BY <1>21, <3>0, <3>1 DEF WriteUpdate, TypeOK, MapSidecar, FormOf, Form
    <3> QED BY <3>0, <3>2
            DEF ProcOK, StageMatches, SidecarMatches, Exclusive, Form
  <2> QED BY <2>1, <2>2
<1>22. CASE FinishUpdate(p)
  BY <1>22, NobodyAssumption DEF FinishUpdate, Return, ProcOK, StageMatches, SidecarMatches,
     ReadyToCommit, Exclusive, TypeOK, locks, disk, history, NoSide, MapSidecar, FlagSidecar,
     WrapsSidecar, Form
<1>23. CASE RenameMap(p)
  BY <1>23, NobodyAssumption DEF RenameMap, Goto, ProcOK, StageMatches, SidecarMatches,
     ReadyToCommit, Exclusive, TypeOK, locks, disk, history, NoSide, MapSidecar, FlagSidecar,
     WrapsSidecar, Form
<1>24. CASE RenameWraps(p)
  BY <1>24, NobodyAssumption DEF RenameWraps, Goto, Return, ProcOK, StageMatches,
     SidecarMatches, ReadyToCommit, Exclusive, TypeOK, locks, disk, history, NoSide,
     MapSidecar, FlagSidecar, WrapsSidecar, Form
<1>25. CASE RenameSettings(p)
  BY <1>25, NobodyAssumption DEF RenameSettings, Goto, Return, ProcOK, StageMatches,
     SidecarMatches, ReadyToCommit, Exclusive, TypeOK, locks, disk, history, NoSide,
     MapSidecar, FlagSidecar, WrapsSidecar, Form
<1>26. CASE Crash(p)
  BY <1>26, NobodyAssumption DEF Crash, Goto, ProcOK, StageMatches, SidecarMatches,
     ReadyToCommit, Exclusive, TypeOK, locks, disk, history, NoSide, MapSidecar, FlagSidecar,
     WrapsSidecar, Form
<1>27. CASE IOError(p)
  BY <1>27, NobodyAssumption DEF IOError, Return, AfterError, KeepForRetry, ProcOK,
     StageMatches, SidecarMatches, ReadyToCommit, Exclusive, TypeOK, locks, disk, history,
     NoSide, MapSidecar, FlagSidecar, WrapsSidecar, Form
<1> QED BY <1>1, <1>2, <1>3, <1>4, <1>5, <1>6, <1>7, <1>8, <1>9, <1>10, <1>11, <1>12, <1>13,
   <1>14, <1>15, <1>16, <1>17, <1>18, <1>19, <1>20, <1>21, <1>22, <1>23, <1>24, <1>25, <1>26,
   <1>27 DEF Act, Step, Request

(* Only the holder of the exclusive lock writes settings.toml. *)
LEMMA SettingsMoves ==
    ASSUME NEW p \in Proc, Structure, Act(p)
    PROVE  /\ settings' = settings \/ (excl = p /\ side[p].file = "settings")
           /\ committed' = committed \/ (excl = p /\ side[p].file = "settings")
<1>1. CASE side[p].file = "settings"
  <2>1. pc[p] \in {"commit", "migrate"} /\ op[p] \in Exclusive
    BY <1>1 DEF Structure, SidecarMatches, StageMatches, ReadyToCommit, Exclusive
  <2> QED BY <1>1, <2>1 DEF Structure, LocksMatch
<1>2. CASE side[p].file # "settings"
  BY <1>2 DEF Act, Step, Request, OpenSession, CloseSession, UnwrapKey, DecryptMaps,
       BeginEnable, BeginDisable, BeginSetUpPlain, BeginFinish, BeginSettle, BeginSave,
       BeginFactor, SweepSidecars, DiscardStale, DiscardOrphanWraps, WriteWrap, Migrate,
       WriteEmpty, WriteFlag, WriteFactor, BeginUpdate, WriteUpdate, FinishUpdate, RenameMap,
       RenameWraps, RenameSettings, Crash, IOError, disk, history
<1> QED BY <1>1, <1>2

LEMMA StructureInit == Init => Structure
<1> SUFFICES ASSUME Init PROVE Structure
  OBVIOUS
<1>1. TypeOK
  BY TypeInit
<1>2. \A p \in Proc : StageMatches(p) /\ SidecarMatches(p)
  BY DEF Init, StageMatches, SidecarMatches, NoSide, MapSidecar, Form
<1> QED BY <1>1, <1>2, NobodyAssumption DEF Init, Structure, LocksMatch, StaleHasMode, Exclusive

(* The structure, process by process. *)
LEMMA StructureByProc ==
    Structure <=> /\ TypeOK /\ \A p \in Proc : ProcOK(p)
                  /\ excl # Nobody => shared = {}
  BY DEF Structure, ProcOK, LocksMatch, StaleHasMode

(* A step keeps the structure of every other process. *)
LEMMA OthersOK ==
    ASSUME NEW p \in Proc, NEW q \in Proc \ {p}, Structure, Act(p)
    PROVE  ProcOK(q)'
<1>1. TypeOK /\ ProcOK(q)
  BY StructureByProc
<1>2. /\ op'[q] = op[q] /\ pc'[q] = pc[q] /\ todo'[q] = todo[q]
      /\ side'[q] \in {side[q], NoSide}
  BY <1>1, FrameStep DEF Frame
<1>3. (excl' = q <=> excl = q) /\ (q \in shared' <=> q \in shared)
  BY LockMoves, NobodyAssumption DEF LockMove
<1>4. StageMatches(q)'
  BY <1>1, <1>2 DEF ProcOK, StageMatches
<1>5. SidecarMatches(q)'
  <2>1. side'[q].file \in {side[q].file, "none"}
    BY <1>2 DEF NoSide, MapSidecar
  <2> QED BY <1>1, <1>2, <2>1 DEF ProcOK, SidecarMatches, ReadyToCommit, Form
<1>6. pc'[q] = "stale" /\ todo'[q] # {} => settings' # "none"
  <2> SUFFICES ASSUME pc'[q] = "stale", todo'[q] # {} PROVE settings' # "none"
    OBVIOUS
  <2>1. excl = q
    BY <1>1, <1>2 DEF ProcOK, StageMatches, Exclusive
  <2> QED BY <1>1, <1>2, <2>1, SettingsMoves DEF ProcOK
<1> QED BY <1>1, <1>2, <1>3, <1>4, <1>5, <1>6 DEF ProcOK

LEMMA StructureStep == Structure /\ [Next]_vars => Structure'
<1> SUFFICES ASSUME Structure, [Next]_vars PROVE Structure'
  OBVIOUS
<1>1. TypeOK'
  BY TypeStep
<1>2. ASSUME NEW p \in Proc, Act(p) PROVE Structure'
  <2>1. TypeOK /\ ProcOK(p)
    BY StructureByProc
  <2>2. ProcOK(p)'
    BY <1>2, <2>1, ActorOK
  <2>3. \A q \in Proc : ProcOK(q)'
    BY <1>2, <2>2, OthersOK
  <2>4. (excl # Nobody => shared = {})'
    BY <1>2, LockMoves, StructureByProc DEF LockMove
  <2> QED BY <1>1, <2>3, <2>4 DEF Structure, ProcOK, LocksMatch, StaleHasMode
<1>3. CASE LoseSettings
  <2>1. UNCHANGED <<shared, excl, op, pc, todo, side>> /\ excl = Nobody
    BY <1>3 DEF LoseSettings, LockFree, locks, local
  <2>2. \A p \in Proc : (StageMatches(p) /\ SidecarMatches(p))'
    BY <2>1 DEF Structure, StageMatches, SidecarMatches, ReadyToCommit
  <2>3. LocksMatch'
    BY <2>1 DEF Structure, LocksMatch
  <2>4. \A p \in Proc : pc[p] # "stale"
    BY <2>1, NobodyAssumption DEF Structure, StageMatches, LocksMatch, Exclusive
  <2> QED BY <1>1, <2>1, <2>2, <2>3, <2>4 DEF Structure, StaleHasMode
<1>4. CASE UNCHANGED vars
  <2>1. UNCHANGED <<settings, shared, excl, op, pc, todo, side>>
    BY <1>4 DEF vars, disk, locks, local
  <2>2. \A p \in Proc : (StageMatches(p) /\ SidecarMatches(p))'
    BY <2>1 DEF Structure, StageMatches, SidecarMatches, ReadyToCommit
  <2> QED BY <1>1, <2>1, <2>2 DEF Structure, LocksMatch, StaleHasMode
<1> QED BY <1>2, <1>3, <1>4 DEF Next, Act

(* The locks, the point each process has reached and the types of all variables go
   together in every reachable state, for any number of processes and faults. *)
THEOREM StructureHolds == Spec => []Structure
<1>1. Init => Structure
  BY StructureInit
<1>2. Structure /\ [Next]_vars => Structure'
  BY StructureStep
<1> QED BY <1>1, <1>2, PTL DEF Spec

(* Every variable keeps its type. *)
THEOREM TypeCorrect == Spec => []TypeOK
<1>1. Structure => TypeOK
  BY DEF Structure
<1> QED BY <1>1, StructureHolds, PTL

(* While a process holds the vault lock exclusively no other has a sidecar in
   flight, so discard_abandoned_sidecars never deletes a file about to be renamed. *)
THEOREM SweepIsSafe == Spec => []NoLiveSidecarUnderExclusive
<1>1. Structure => NoLiveSidecarUnderExclusive
  <2> SUFFICES ASSUME Structure, NEW p \in Proc, NEW q \in Proc, excl = p, q # p
               PROVE  side[q].file = "none"
    BY DEF NoLiveSidecarUnderExclusive
  <2>1. side[q].file \in SideKind \cup {"none"}
    BY DEF Structure, TypeOK, Sidecar
  <2>2. op[q] # "update" /\ ~(op[q] \in Exclusive /\ pc[q] # "lock")
    BY NobodyAssumption DEF Structure, LocksMatch
  <2>3. StageMatches(q) /\ SidecarMatches(q)
    BY DEF Structure
  <2> QED BY <2>1, <2>2, <2>3
          DEF StageMatches, SidecarMatches, ReadyToCommit, SideKind, Form, Exclusive
<1> QED BY <1>1, StructureHolds, PTL

-----------------------------------------------------------------------------
(* The credentials. *)

(* What the invariant says of one process. *)
Kept(p) == ChecksStillHold(p) /\ SidecarIsTruth(p)

(* The maps and what they should hold are as they were. *)
DiskUntouched == UNCHANGED <<files, truth, settings, committed>>

(* The steps that rename a file into place or delete one. *)
Touches(p) == DiscardStale(p) \/ FinishUpdate(p) \/ RenameMap(p) \/ RenameSettings(p)

LEMMA OnlyTouchesTouch ==
    ASSUME NEW p \in Proc, Act(p), ~Touches(p)
    PROVE  DiskUntouched
  BY DEF Touches, DiskUntouched, Act, Step, Request, OpenSession, CloseSession, UnwrapKey,
       DecryptMaps, BeginEnable, BeginDisable, BeginSetUpPlain, BeginFinish, BeginSettle,
       BeginSave, BeginFactor, SweepSidecars, DiscardOrphanWraps, WriteWrap, Migrate,
       WriteEmpty, WriteFlag, WriteFactor, BeginUpdate, WriteUpdate, RenameWraps, Crash,
       IOError, disk, history

(* Whoever renames or deletes a map holds the vault lock. *)
LEMMA TouchersHoldLock ==
    ASSUME NEW p \in Proc, Structure, Touches(p)
    PROVE  excl = p \/ (p \in shared /\ op[p] = "update")
<1>1. StageMatches(p) /\ SidecarMatches(p) /\ LocksMatch
  BY DEF Structure
<1>2. CASE DiscardStale(p)
  BY <1>1, <1>2 DEF DiscardStale, StageMatches, LocksMatch, Exclusive
<1>3. CASE FinishUpdate(p)
  BY <1>1, <1>3 DEF FinishUpdate, LocksMatch
<1>4. CASE RenameMap(p)
  BY <1>1, <1>4 DEF RenameMap, SidecarMatches, StageMatches, LocksMatch, Exclusive
<1>5. CASE RenameSettings(p)
  BY <1>1, <1>5 DEF RenameSettings, SidecarMatches, StageMatches, ReadyToCommit, LocksMatch, Exclusive
<1> QED BY <1>2, <1>3, <1>4, <1>5 DEF Touches

(* The exclusive holder's checks concern no one else. *)
LEMMA CheckedIsExclusive ==
    ASSUME NEW q \in Proc, Structure, excl # q
    PROVE  /\ op[q] \notin {"enable", "disable", "setup", "save"}
           /\ pc[q] \notin {"empty", "commit", "migrate"}
           /\ side[q].file # "settings"
<1>1. StageMatches(q) /\ SidecarMatches(q) /\ LocksMatch
  BY DEF Structure
<1>2. op[q] \in Exclusive => pc[q] = "lock"
  BY <1>1 DEF LocksMatch
<1> QED BY <1>1, <1>2 DEF StageMatches, SidecarMatches, ReadyToCommit, Exclusive

(* A process with no hold has nothing to rename and relies on nothing. *)
LEMMA OutsideIdle ==
    ASSUME NEW q \in Proc, Structure, excl # q, q \notin shared
    PROVE  /\ op[q] \notin {"enable", "disable", "setup", "save", "update"}
           /\ pc[q] \notin {"empty", "commit", "migrate", "update", "tidy"}
           /\ side[q].file \notin Form \cup {"settings"}
<1>1. StageMatches(q) /\ SidecarMatches(q) /\ LocksMatch
  BY DEF Structure
<1>2. op[q] # "update" /\ pc[q] \notin {"update", "tidy"}
  BY <1>1 DEF LocksMatch, StageMatches
<1>3. side[q].file \notin Form
  BY <1>1, <1>2, CheckedIsExclusive DEF SidecarMatches
<1> QED BY <1>2, <1>3, CheckedIsExclusive

(* No one releases another updater's map. *)
LEMMA MapLockFrame ==
    ASSUME NEW p \in Proc, NEW q \in Proc \ {p}, NEW a \in Artifact,
           Structure, excl = Nobody, alock[a] = q, Act(p)
    PROVE  alock'[a] = q
<1>0. TypeOK
  BY DEF Structure
<1>1. CASE \E s : Return(p, s)
  BY <1>0, <1>1 DEF Return, TypeOK
<1>2. CASE Migrate(p)
  BY <1>0, <1>2, NobodyAssumption DEF Migrate, TypeOK
<1>3. CASE WriteUpdate(p)
  BY <1>0, <1>1, <1>3, NobodyAssumption DEF WriteUpdate, TypeOK
<1>4. CASE RenameMap(p)
  <2>1. op[p] = "update"
    BY <1>4, CheckedIsExclusive, NobodyAssumption
       DEF RenameMap, Structure, StageMatches, SidecarMatches
  <2> QED BY <1>4, <2>1 DEF RenameMap
<1>5. CASE Crash(p)
  BY <1>0, <1>5 DEF Crash, TypeOK
<1>6. CASE ~(Migrate(p) \/ WriteUpdate(p) \/ RenameMap(p) \/ Crash(p) \/ \E s : Return(p, s))
  BY <1>6 DEF Act, Step, Request, OpenSession, CloseSession, UnwrapKey,
       DecryptMaps, BeginEnable, BeginDisable, BeginSetUpPlain, BeginFinish, BeginSettle,
       BeginSave, BeginFactor, SweepSidecars, DiscardStale, DiscardOrphanWraps, AfterSettle,
       WriteWrap, WriteEmpty, WriteFlag, WriteFactor, BeginUpdate, FinishUpdate, RenameWraps,
       RenameSettings, IOError, Enter, locks
<1> QED BY <1>1, <1>2, <1>3, <1>4, <1>5, <1>6

(* A step of one process leaves alone what the others rely on. *)
LEMMA OthersKept ==
    ASSUME NEW p \in Proc, NEW q \in Proc \ {p}, StoreInvariant, Act(p)
    PROVE  Kept(q)'
<1>0. Structure /\ TypeOK /\ ChecksStillHold(q) /\ SidecarIsTruth(q) /\ LocksMatch
  BY DEF StoreInvariant, Structure
<1>1. /\ op'[q] = op[q] /\ pc'[q] = pc[q] /\ todo'[q] = todo[q] /\ opKey'[q] = opKey[q]
      /\ ses'[q] = ses[q] /\ side'[q] \in {side[q], NoSide}
  BY <1>0, FrameStep DEF Frame
<1>2. NoSide.file = "none"
  BY DEF NoSide, MapSidecar
<1>3. CASE excl = q
  <2>1. shared = {} /\ excl # p
    BY <1>0, <1>3, NobodyAssumption DEF LocksMatch
  <2>2. DiskUntouched
    BY <1>0, <2>1, TouchersHoldLock, OnlyTouchesTouch
  <2>3. op[q] # "update" /\ pc[q] \notin {"update", "tidy"}
    BY <1>0, <2>1 DEF LocksMatch, Structure, StageMatches
  <2>4. ChecksStillHold(q)'
    BY <1>0, <1>1, <2>2
       DEF DiskUntouched, ChecksStillHold, no_files_in_form, NewMode, Migrated, MigrateTarget
  <2>5. SidecarIsTruth(q)'
    BY <1>0, <1>1, <1>2, <2>2, <2>3
       DEF DiskUntouched, SidecarIsTruth, NewMode, MigrateTarget, Form
  <2> QED BY <2>4, <2>5 DEF Kept
<1>4. CASE q \in shared
  <2>1. excl = Nobody /\ op[q] = "update" /\ excl # p /\ excl # q
    BY <1>0, <1>4, NobodyAssumption DEF LocksMatch
  <2>2. settings' = settings
    BY <1>0, <2>1, SettingsMoves
  <2>3. pc[q] \notin {"empty", "commit", "migrate"} /\ side[q].file # "settings"
    BY <1>0, <2>1, CheckedIsExclusive
  <2>4. ChecksStillHold(q)'
    BY <1>1, <2>1, <2>3 DEF ChecksStillHold
  <2>5. ASSUME pc[q] = "update", side'[q].file \in Form
        PROVE  LET a == side'[q].art
               IN /\ side'[q] = side[q] /\ side[q].file \in Form
                  /\ alock'[a] = q /\ truth'[a] = truth[a]
    <3>1. side'[q] = side[q] /\ side[q].file \in Form
      BY <1>1, <1>2, <2>5 DEF Form
    <3> DEFINE a == side[q].art
    <3>2. a \in Artifact /\ alock[a] = q
      BY <1>0, <2>5, <3>1 DEF SidecarIsTruth, TypeOK, Sidecar
    <3>3. alock'[a] = q
      BY <1>0, <2>1, <3>2, MapLockFrame
    <3>4. truth'[a] = truth[a]
      <4>1. CASE ~RenameMap(p)
        <5>1. truth' = truth
          BY <4>1 DEF Act, Step, Request, OpenSession, CloseSession, UnwrapKey,
             DecryptMaps, BeginEnable, BeginDisable, BeginSetUpPlain, BeginFinish, BeginSettle,
             BeginSave, BeginFactor, SweepSidecars, DiscardStale, DiscardOrphanWraps, WriteWrap,
             Migrate, WriteEmpty, WriteFlag, WriteFactor, BeginUpdate, WriteUpdate, FinishUpdate,
             RenameWraps, RenameSettings, Crash, IOError, disk, history
        <5> QED BY <5>1
      <4>2. CASE RenameMap(p)
        <5>1. pc[p] = "update" /\ side[p].file \in Form
          BY <1>0, <4>2, <2>1, CheckedIsExclusive DEF RenameMap, Structure, SidecarMatches
        <5>2. alock[side[p].art] = p
          BY <5>1 DEF StoreInvariant, SidecarIsTruth
        <5>3. a # side[p].art
          BY <3>2, <5>2
        <5> QED BY <1>0, <3>2, <4>2, <5>3 DEF RenameMap, TypeOK
      <4> QED BY <4>1, <4>2
    <3> QED BY <3>1, <3>3, <3>4
  <2>6. SidecarIsTruth(q)'
    BY <1>0, <1>1, <1>2, <2>2, <2>3, <2>5 DEF SidecarIsTruth, Form
  <2> QED BY <2>4, <2>6 DEF Kept
<1>5. CASE excl # q /\ q \notin shared
  <2>1. /\ op[q] \notin {"enable", "disable", "setup", "save", "update"}
        /\ pc[q] \notin {"empty", "commit", "migrate", "update", "tidy"}
        /\ side[q].file \notin Form \cup {"settings"}
    BY <1>0, <1>5, OutsideIdle
  <2>2. side'[q].file \notin Form \cup {"settings"}
    BY <1>1, <1>2, <2>1 DEF Form
  <2> QED BY <1>1, <2>1, <2>2 DEF Kept, ChecksStillHold, SidecarIsTruth
<1> QED BY <1>3, <1>4, <1>5

(* What the exclusive holder may rely on when its step writes no map. *)
LEMMA QuietKept ==
    ASSUME NEW p \in Proc, side'[p].file \notin Form \cup {"settings"},
           op'[p] \notin {"enable", "disable", "setup", "save"},
           pc'[p] \notin {"empty", "commit", "migrate", "tidy"}
    PROVE  Kept(p)'
  BY DEF Kept, ChecksStillHold, SidecarIsTruth

(* With no copy in the form of mode m's opposite, m reads what was read before. *)
LEMMA OneFormReads ==
    ASSUME FilesWellFormed, ModeMatches, CredentialsKept, committed \in Mode,
           NEW m \in Form, no_files_in_form(Other(m)), NEW a \in Artifact
    PROVE  files[m][a].map = truth[a]
<1>1. Other(m) \in Form /\ ~files[Other(m)][a].there /\ files[Other(m)][a].map = {}
  BY DEF Other, Form, no_files_in_form, FilesWellFormed
<1>2. Reads(a) = truth[a]
  BY DEF CredentialsKept
<1>3. ~files[m][a].there => files[m][a].map = {}
  BY DEF FilesWellFormed
<1>4. CASE committed = "none"
  <2>1. truth[a] = {} /\ files["plain"][a].map = {} /\ files["enc"][a].map = {}
    BY <1>2, <1>4 DEF Reads, ModeMatches
  <2> QED BY <2>1 DEF Form
<1>5. CASE committed \in Form
  <2>1. committed = m \/ (committed = Other(m) /\ Other(committed) = m)
    BY <1>5 DEF Other, Form
  <2>2. committed # "none"
    BY <1>5 DEF Form
  <2> QED BY <1>1, <1>2, <1>3, <2>1, <2>2 DEF Reads
<1> QED BY <1>4, <1>5 DEF Mode

(* The form a transition copies from is the one the recorded mode reads; with no
   copy there the other form, if any, is. *)
LEMMA SourceIsTruth ==
    ASSUME NEW p \in Proc, StoreInvariant, pc[p] = "migrate", NEW a \in Artifact
    PROVE  LET from == FormOf(MigrateSource(p))
               to == FormOf(MigrateTarget(p))
           IN /\ from \in Form /\ to = Other(from) /\ from = Other(to)
              /\ files[from][a].there => files[from][a].map = truth[a]
              /\ ~files[from][a].there => files[from][a].map = {} /\ files[to][a].map = truth[a]
<1> DEFINE from == FormOf(MigrateSource(p))
           to == FormOf(MigrateTarget(p))
<1>1. TypeOK /\ ChecksStillHold(p) /\ FilesWellFormed /\ ModeMatches /\ Reads(a) = truth[a]
  BY DEF StoreInvariant, Structure, CredentialsKept
<1>2. op[p] \in {"enable", "disable"}
  BY DEF StoreInvariant, Structure, StageMatches
<1>3. opKey[p] # NoKey
  BY <1>1, <1>2 DEF ChecksStillHold
<1>4. from \in Form /\ to \in Form /\ to = Other(from) /\ from = Other(to)
  BY <1>2, <1>3 DEF MigrateSource, MigrateTarget, FormOf, Other, Form
<1>5. ~files[from][a].there => files[from][a].map = {}
  BY <1>1, <1>4 DEF FilesWellFormed
<1>6. CASE settings = from
  <2>1. committed = from
    BY <1>1, <1>4, <1>6 DEF ModeMatches, Form
  <2> QED BY <1>1, <1>4, <1>5, <2>1 DEF Reads, Form
<1>7. CASE settings # from
  <2>1. op[p] = "enable" /\ settings = "none" /\ no_files_in_form("plain") /\ from = "plain"
        /\ to = "enc"
    BY <1>1, <1>2, <1>3, <1>7
       DEF ChecksStillHold, MigrateSource, MigrateTarget, FormOf, TypeOK, Mode, Form
  <2>2. ~files[from][a].there
    BY <2>1 DEF no_files_in_form
  <2>3. files["enc"][a].map = truth[a]
    <3>1. no_files_in_form(Other("enc")) /\ "enc" \in Form /\ committed \in Mode
      BY <1>1, <2>1 DEF Other, Form, TypeOK
    <3>2. CredentialsKept
      BY DEF StoreInvariant
    <3> QED BY <1>1, <3>1, <3>2, OneFormReads
  <2> QED BY <1>4, <1>5, <2>1, <2>2, <2>3
<1> QED BY <1>4, <1>6, <1>7

(* A step keeps what the process that takes it relies on. *)
LEMMA ActorKept ==
    ASSUME NEW p \in Proc, StoreInvariant, Act(p)
    PROVE  Kept(p)'
<1>0. /\ TypeOK /\ StageMatches(p) /\ SidecarMatches(p) /\ ChecksStillHold(p)
      /\ SidecarIsTruth(p) /\ Structure
  BY DEF StoreInvariant, Structure
<1>1. CASE OpenSession(p)
  BY <1>0, <1>1 DEF OpenSession, Goto, TypeOK, StageMatches, SidecarMatches, ReadyToCommit,
     Kept, ChecksStillHold, SidecarIsTruth, disk, locks, history, Form, NoSide, MapSidecar,
     FlagSidecar, WrapsSidecar, no_files_in_form
<1>2. CASE CloseSession(p)
  BY <1>0, <1>2 DEF CloseSession, Goto, TypeOK, StageMatches, SidecarMatches, ReadyToCommit,
     Kept, ChecksStillHold, SidecarIsTruth, disk, locks, history, Form, NoSide, MapSidecar,
     FlagSidecar, WrapsSidecar, no_files_in_form
<1>3. CASE UnwrapKey(p)
  BY <1>0, <1>3 DEF UnwrapKey, Goto, TypeOK, StageMatches, SidecarMatches, ReadyToCommit,
     Kept, ChecksStillHold, SidecarIsTruth, disk, locks, history, Form, NoSide, MapSidecar,
     FlagSidecar, WrapsSidecar, no_files_in_form
<1>4. CASE DecryptMaps(p)
  BY <1>0, <1>4 DEF DecryptMaps, Goto, Return, TypeOK, StageMatches, SidecarMatches,
     ReadyToCommit, Kept, ChecksStillHold, SidecarIsTruth, disk, locks, history, Form, NoSide,
     MapSidecar, FlagSidecar, WrapsSidecar, no_files_in_form
<1>5. CASE BeginEnable(p)
  <2>1. PICK k \in session_or_retry_dek(p) :
          \/ /\ settings = ses[p].mode /\ (ses[p].mode = "none" => no_files_in_form("plain"))
             /\ Enter(p, "enable", "sweep", k)
          \/ UNCHANGED <<op, pc>>
    BY <1>5 DEF BeginEnable
  <2>2. k # NoKey
    BY NoKeyAssumption DEF session_or_retry_dek
  <2>3. /\ pc[p] = "idle" /\ op[p] = "none" /\ ses[p].mode # "enc" /\ UNCHANGED <<disk, side>>
        /\ side[p].file \notin Form \cup {"settings"}
    BY <1>0, <1>5 DEF BeginEnable, StageMatches, SidecarMatches, ReadyToCommit
  <2>4. CASE UNCHANGED <<op, pc>>
    BY <2>3, <2>4, QuietKept
  <2>5. CASE ~UNCHANGED <<op, pc>>
    <3>1. op'[p] = "enable" /\ pc'[p] = "sweep" /\ opKey'[p] = k
      BY <1>0, <2>1, <2>5 DEF Enter, TypeOK
    <3>2. settings' # "enc" /\ (settings' = "none" => no_files_in_form("plain")')
      BY <2>1, <2>3, <2>5 DEF disk, no_files_in_form
    <3> QED BY <2>2, <2>3, <3>1, <3>2 DEF Kept, ChecksStillHold, SidecarIsTruth, Form
  <2> QED BY <2>4, <2>5
<1>6. CASE BeginDisable(p)
  BY <1>0, <1>6 DEF BeginDisable, Enter, LockFree, TypeOK, StageMatches, SidecarMatches,
     ReadyToCommit, Kept, ChecksStillHold, SidecarIsTruth, disk, locks, history, Form, NoSide,
     MapSidecar, FlagSidecar, WrapsSidecar, no_files_in_form
<1>7. CASE BeginSetUpPlain(p)
  BY <1>0, <1>7 DEF BeginSetUpPlain, Enter, LockFree, TypeOK, StageMatches, SidecarMatches,
     ReadyToCommit, Kept, ChecksStillHold, SidecarIsTruth, disk, locks, history, Form, NoSide,
     MapSidecar, FlagSidecar, WrapsSidecar, no_files_in_form
<1>8. CASE BeginFinish(p)
  <2>1. CASE Return(p, ses[p])
    BY <1>0, <1>8, <2>1, QuietKept
       DEF BeginFinish, Return, TypeOK, SidecarMatches, ReadyToCommit
  <2>2. CASE ~Return(p, ses[p])
    <3>1. interrupted_first_run /\ Enter(p, "finish", "commit", opKey[p])
          /\ UNCHANGED <<disk, side>> /\ pc[p] = "lock"
      BY <1>8, <2>2 DEF BeginFinish
    <3>2. op'[p] = "finish" /\ pc'[p] = "commit" /\ side'[p].file \notin Form \cup {"settings"}
      BY <1>0, <3>1 DEF Enter, TypeOK, SidecarMatches, ReadyToCommit
    <3>3. settings' = "none" /\ no_files_in_form("plain")'
      BY <3>1 DEF interrupted_first_run, disk, no_files_in_form
    <3> QED BY <3>2, <3>3 DEF Kept, ChecksStillHold, SidecarIsTruth, Form
  <2> QED BY <2>1, <2>2
<1>9. CASE BeginSettle(p)
  BY <1>0, <1>9 DEF BeginSettle, Enter, LockFree, TypeOK, StageMatches, SidecarMatches,
     ReadyToCommit, Kept, ChecksStillHold, SidecarIsTruth, disk, locks, history, Form, NoSide,
     MapSidecar, FlagSidecar, WrapsSidecar, no_files_in_form
<1>10. CASE BeginSave(p)
  <2>1. /\ UNCHANGED <<disk, side, ses>> /\ op'[p] = "save" /\ pc'[p] = "commit"
        /\ settings = "none" =>
             no_files_in_form(IF ses[p].mode = "enc" THEN "plain" ELSE "enc")
    BY <1>0, <1>10 DEF BeginSave, Enter, TypeOK
  <2>2. side'[p].file \notin Form \cup {"settings"}
    BY <1>0, <1>10, <2>1 DEF BeginSave, SidecarMatches, ReadyToCommit
  <2>3. settings' = "none" => no_files_in_form(Other(NewMode(p)))'
    BY <2>1 DEF disk, NewMode, Other, no_files_in_form
  <2> QED BY <2>1, <2>2, <2>3 DEF Kept, ChecksStillHold, SidecarIsTruth, Form
<1>11. CASE BeginFactor(p)
  BY <1>0, <1>11 DEF BeginFactor, Enter, LockFree, TypeOK, StageMatches, SidecarMatches,
     ReadyToCommit, Kept, ChecksStillHold, SidecarIsTruth, disk, locks, history, Form, NoSide,
     MapSidecar, FlagSidecar, WrapsSidecar, no_files_in_form
<1>12. CASE SweepSidecars(p)
  <2>1. /\ side'[p] \in {side[p], NoSide} /\ UNCHANGED <<op, opKey, settings, files>>
        /\ pc[p] = "sweep" /\ pc'[p] \in {"sweep", "stale"}
    BY <1>0, <1>12 DEF SweepSidecars, Goto, TypeOK
  <2>2. op[p] \notin {"setup", "save"} /\ side'[p].file \notin Form \cup {"settings"}
    BY <1>0, <2>1 DEF StageMatches, SidecarMatches, ReadyToCommit, NoSide, MapSidecar, Form
  <2> QED BY <1>0, <2>1, <2>2
          DEF Kept, ChecksStillHold, SidecarIsTruth, no_files_in_form, Form
<1>13. CASE DiscardStale(p)
  <2>1. /\ UNCHANGED <<op, pc, opKey, settings, side>> /\ pc[p] = "stale" /\ todo[p] # {}
    BY <1>13 DEF DiscardStale
  <2>2. op[p] \notin {"setup", "save"} /\ side'[p].file \notin Form \cup {"settings"}
    BY <1>0, <2>1 DEF StageMatches, SidecarMatches, ReadyToCommit
  <2>3. settings # "none"
    BY <1>0, <2>1 DEF Structure, StaleHasMode
  <2> QED BY <1>0, <2>1, <2>2, <2>3 DEF Kept, ChecksStillHold, SidecarIsTruth, Form
<1>14. CASE DiscardOrphanWraps(p)
  <2>1. CASE \E s : Return(p, s)
    <3>1. op'[p] = "none" /\ pc'[p] = "idle" /\ UNCHANGED side /\ pc[p] = "stale"
      BY <1>0, <1>14, <2>1 DEF DiscardOrphanWraps, Return, TypeOK
    <3>2. side'[p].file \notin Form \cup {"settings"}
      BY <1>0, <3>1 DEF SidecarMatches, ReadyToCommit
    <3> QED BY <3>1, <3>2, QuietKept
  <2>2. CASE ~\E s : Return(p, s)
    <3>1. /\ op[p] \in {"enable", "disable"} /\ pc[p] = "stale"
          /\ UNCHANGED <<op, opKey, settings, files, side>>
          /\ \/ pc' = [pc EXCEPT ![p] = "wrap"]
             \/ pc' = [pc EXCEPT ![p] = "migrate"] /\ todo' = [todo EXCEPT ![p] = Artifact]
      BY <1>14, <2>2 DEF DiscardOrphanWraps, AfterSettle, Goto
    <3>2. pc'[p] = "wrap" \/ (pc'[p] = "migrate" /\ todo'[p] = Artifact)
      BY <1>0, <3>1 DEF TypeOK
    <3>3. side'[p].file \notin Form \cup {"settings"}
      BY <1>0, <3>1 DEF SidecarMatches, ReadyToCommit
    <3> QED BY <1>0, <3>1, <3>2, <3>3
            DEF Kept, ChecksStillHold, SidecarIsTruth, no_files_in_form, Form
  <2> QED BY <2>1, <2>2
<1>15. CASE WriteWrap(p)
  BY <1>0, <1>15 DEF WriteWrap, WriteSidecar, TypeOK, StageMatches, SidecarMatches,
     ReadyToCommit, Kept, ChecksStillHold, SidecarIsTruth, disk, locks, history, Form, NoSide,
     MapSidecar, FlagSidecar, WrapsSidecar, no_files_in_form
<1>16. CASE Migrate(p)
  <2> DEFINE from == FormOf(MigrateSource(p))
             to == FormOf(MigrateTarget(p))
  <2>1. PICK a \in todo[p] :
          IF files[from][a].there \/ (a = Jwks /\ ~files[to][a].there)
          THEN /\ side' = [side EXCEPT ![p] = MapSidecar(to, a, Load(a, MigrateSource(p)), {}, {})]
               /\ UNCHANGED todo
          ELSE todo' = [todo EXCEPT ![p] = @ \ {a}] /\ UNCHANGED side
    BY <1>16 DEF Migrate, WriteSidecar
  <2>2. /\ pc[p] = "migrate" /\ side[p].file = "none"
        /\ UNCHANGED <<files, settings, pc, op, opKey, truth>> /\ op[p] \in {"enable", "disable"}
    BY <1>0, <1>16 DEF Migrate, disk, history, StageMatches
  <2>3. a \in Artifact
    BY <1>0, <2>1 DEF TypeOK
  <2>4. /\ from \in Form /\ to = Other(from) /\ from = Other(to)
        /\ files[from][a].there => files[from][a].map = truth[a]
        /\ ~files[from][a].there => files[from][a].map = {} /\ files[to][a].map = truth[a]
    BY <2>2, <2>3, SourceIsTruth
  <2>5. \A b \in Artifact : Migrated(p, b)' <=> Migrated(p, b)
    BY <2>2 DEF Migrated, MigrateTarget
  <2>6. CASE files[from][a].there \/ (a = Jwks /\ ~files[to][a].there)
    <3>1. UNCHANGED todo
          /\ side'[p] = MapSidecar(to, a, Load(a, MigrateSource(p)), {}, {})
      BY <1>0, <2>1, <2>6 DEF TypeOK
    <3>2. Load(a, MigrateSource(p)) = truth[a]
      <4>1. to \in Form
        BY <2>4 DEF Other, Form
      <4>2. ~files[to][a].there => files[to][a].map = {}
        BY <2>3, <4>1 DEF StoreInvariant, FilesWellFormed
      <4> QED BY <2>4, <2>6, <4>2 DEF Load
    <3>3. /\ side'[p].file = to /\ side'[p].art = a /\ side'[p].map = truth[a]
      BY <3>1, <3>2 DEF MapSidecar
    <3>4. ChecksStillHold(p)'
      BY <1>0, <2>2, <2>5, <3>1 DEF ChecksStillHold, no_files_in_form
    <3>5. SidecarIsTruth(p)'
      BY <2>2, <2>4, <3>3 DEF SidecarIsTruth, MigrateTarget, Other, Form
    <3> QED BY <3>4, <3>5 DEF Kept
  <2>7. CASE ~(files[from][a].there \/ (a = Jwks /\ ~files[to][a].there))
    <3>1. todo'[p] = todo[p] \ {a} /\ UNCHANGED side
      BY <1>0, <2>1, <2>7 DEF TypeOK
    <3>2. Migrated(p, a)
      BY <2>4, <2>7 DEF Migrated
    <3>3. ChecksStillHold(p)'
      BY <1>0, <2>2, <2>3, <2>5, <3>1, <3>2 DEF ChecksStillHold, no_files_in_form
    <3>4. SidecarIsTruth(p)'
      BY <2>2, <3>1 DEF SidecarIsTruth, Form
    <3> QED BY <3>3, <3>4 DEF Kept
  <2> QED BY <2>6, <2>7
<1>17. CASE WriteEmpty(p)
  BY <1>0, <1>17 DEF WriteEmpty, WriteSidecar, TypeOK, StageMatches, SidecarMatches,
     ReadyToCommit, Kept, ChecksStillHold, SidecarIsTruth, disk, locks, history, Form, NoSide,
     MapSidecar, FlagSidecar, WrapsSidecar, no_files_in_form
<1>18. CASE WriteFlag(p)
  <2>1. /\ UNCHANGED <<files, settings, truth, ses, op, pc, opKey, todo>> /\ ReadyToCommit(p)
        /\ side'[p] = FlagSidecar(NewMode(p))
    BY <1>0, <1>18 DEF WriteFlag, WriteSidecar, TypeOK, disk, history
  <2>2. side'[p].file = "settings" /\ side'[p].mode = NewMode(p) /\ NewMode(p)' = NewMode(p)
    BY <2>1 DEF FlagSidecar, NewMode
  <2>3. ChecksStillHold(p)'
    BY <1>0, <2>1, <2>2 DEF ChecksStillHold, no_files_in_form, Migrated, MigrateTarget
  <2>4. pc[p] # "tidy"
    BY <2>1 DEF ReadyToCommit
  <2> QED BY <2>1, <2>2, <2>3, <2>4 DEF Kept, SidecarIsTruth, Form
<1>19. CASE WriteFactor(p)
  BY <1>0, <1>19 DEF WriteFactor, WriteSidecar, TypeOK, StageMatches, SidecarMatches,
     ReadyToCommit, Kept, ChecksStillHold, SidecarIsTruth, disk, locks, history, Form, NoSide,
     MapSidecar, FlagSidecar, WrapsSidecar, no_files_in_form
<1>20. CASE BeginUpdate(p)
  BY <1>0, <1>20 DEF BeginUpdate, Goto, UpdateKey, TypeOK, StageMatches, SidecarMatches,
     ReadyToCommit, Kept, ChecksStillHold, SidecarIsTruth, disk, locks, history, Form, NoSide,
     MapSidecar, FlagSidecar, WrapsSidecar, no_files_in_form
<1>21. CASE WriteUpdate(p)
  <2>1. CASE Return(p, ses[p]) /\ UNCHANGED side
    BY <1>0, <1>21, <2>1, QuietKept
       DEF WriteUpdate, Return, TypeOK, SidecarMatches, ReadyToCommit
  <2>2. CASE ~(Return(p, ses[p]) /\ UNCHANGED side)
    <3>1. PICK a \in Artifact :
            /\ vault_mode_is(opKey[p]) /\ not_only_in_other_form(a, opKey[p])
            /\ alock' = [alock EXCEPT ![a] = p]
            /\ \E e \in Entry : \E gain \in {{}, {e}} :
                 WriteSidecar(p, MapSidecar(FormOf(opKey[p]), a,
                   (Load(a, opKey[p]) \cup gain) \ ({e} \ gain), gain, {e} \ gain))
            /\ pc' = [pc EXCEPT ![p] = "update"]
            /\ UNCHANGED <<op, opKey>>
      BY <1>21, <2>2 DEF WriteUpdate, Goto
    <3>2. PICK gain \in SUBSET Entry, loss \in SUBSET Entry :
            /\ side' = [side EXCEPT ![p] = MapSidecar(FormOf(opKey[p]), a,
                             (Load(a, opKey[p]) \cup gain) \ loss, gain, loss)]
            /\ \E e \in Entry : (gain = {e} /\ loss = {}) \/ (gain = {} /\ loss = {e})
      <4>1. PICK e \in Entry : \E gain \in {{}, {e}} :
              side' = [side EXCEPT ![p] = MapSidecar(FormOf(opKey[p]), a,
                         (Load(a, opKey[p]) \cup gain) \ ({e} \ gain), gain, {e} \ gain)]
        BY <3>1 DEF WriteSidecar
      <4>2. {e} \ {} = {e} /\ {e} \ {e} = {}
        OBVIOUS
      <4> QED BY <4>1, <4>2
    <3>3. /\ op'[p] = "update" /\ pc'[p] = "update" /\ opKey'[p] = opKey[p] /\ alock'[a] = p
          /\ UNCHANGED <<settings, truth>>
      BY <1>0, <1>21, <3>1 DEF WriteUpdate, TypeOK, disk, history
    <3>4. Load(a, opKey[p]) = truth[a] /\ settings = FormOf(opKey[p])
      <4>1. settings = FormOf(opKey[p]) /\ settings \in Form /\ committed = settings
        BY <3>1 DEF vault_mode_is, FormOf, Form, StoreInvariant, ModeMatches
      <4>2. Reads(a) = truth[a]
        BY DEF StoreInvariant, CredentialsKept
      <4>3. /\ ~files[settings][a].there => files[settings][a].map = {}
            /\ ~files[Other(settings)][a].there => files[Other(settings)][a].map = {}
        BY <4>1 DEF StoreInvariant, FilesWellFormed, Other, Form
      <4> QED BY <3>1, <4>1, <4>2, <4>3 DEF Load, Reads, not_only_in_other_form, Form
    <3>5. /\ side'[p].file = settings /\ side'[p].art = a /\ side'[p].gain = gain
          /\ side'[p].loss = loss /\ side'[p].map = (truth[a] \cup gain) \ loss
      BY <1>0, <3>2, <3>4 DEF TypeOK, MapSidecar
    <3>6. ChecksStillHold(p)'
      BY <3>3 DEF ChecksStillHold
    <3>7. settings \in Form
      BY <3>4 DEF FormOf, Form
    <3>8. \E e \in Entry : \/ side'[p].gain = {e} /\ side'[p].loss = {}
                           \/ side'[p].gain = {} /\ side'[p].loss = {e}
      BY <3>2, <3>5
    <3>9. SidecarIsTruth(p)'
      <4>1. /\ side'[p].file = settings' /\ FormOf(opKey'[p]) = settings'
            /\ alock'[side'[p].art] = p
            /\ side'[p].map = (truth'[side'[p].art] \cup side'[p].gain) \ side'[p].loss
        BY <3>3, <3>4, <3>5
      <4>2. pc'[p] = "update" /\ side'[p].file # "settings"
        BY <3>3, <3>5, <3>7 DEF Form
      <4> QED BY <3>8, <4>1, <4>2 DEF SidecarIsTruth
    <3> QED BY <3>6, <3>9 DEF Kept
  <2> QED BY <2>1, <2>2
<1>22. CASE FinishUpdate(p)
  BY <1>0, <1>22 DEF FinishUpdate, Return, TypeOK, StageMatches, SidecarMatches,
     ReadyToCommit, Kept, ChecksStillHold, SidecarIsTruth, disk, locks, history, Form, NoSide,
     MapSidecar, FlagSidecar, WrapsSidecar, no_files_in_form
<1>23. CASE RenameMap(p)
  <2>1. /\ side'[p].file = "none" /\ UNCHANGED <<op, opKey, settings>>
        /\ side[p].file \in Form /\ side[p].art \in Artifact
    BY <1>0, <1>23 DEF RenameMap, TypeOK, NoSide, MapSidecar, Sidecar
  <2>a. PICK a \in Artifact : a = side[p].art
    BY <2>1
  <2>2. \A form \in Form, b \in Artifact :
          files'[form][b] = IF form = side[p].file /\ b = a
                            THEN [there |-> TRUE, map |-> side[p].map,
                                  key |-> IF side[p].file = "enc" THEN opKey[p] ELSE NoKey]
                            ELSE files[form][b]
    BY <1>0, <1>23, <2>1, <2>a DEF RenameMap, TypeOK
  <2>3. CASE op[p] = "update"
    <3>1. pc[p] = "update" /\ pc'[p] = "tidy"
      BY <1>0, <1>23, <2>3 DEF RenameMap, Goto, TypeOK, SidecarMatches, StageMatches, Form
    <3>2. FormOf(opKey[p]) = settings
      BY <1>0, <2>1, <3>1 DEF SidecarIsTruth
    <3> QED BY <2>1, <2>3, <3>1, <3>2 DEF Kept, ChecksStillHold, SidecarIsTruth, Form
  <2>4. CASE pc[p] = "migrate"
    <3> DEFINE to == FormOf(MigrateTarget(p))
    <3>1. op[p] \in {"enable", "disable"} /\ opKey[p] # NoKey
      BY <1>0, <2>4 DEF StageMatches, ChecksStillHold
    <3>2. /\ pc'[p] = "migrate" /\ todo'[p] = todo[p] \ {a} /\ UNCHANGED truth
      BY <1>0, <1>23, <2>a, <2>4, <3>1 DEF RenameMap, TypeOK
    <3>3. side[p].file = to /\ side[p].map = truth[a]
      BY <1>0, <2>1, <2>a, <2>4 DEF SidecarIsTruth
    <3>4. MigrateTarget(p)' = MigrateTarget(p) /\ to \in Form /\ Other(to) \in Form
          /\ Other(to) # to
      BY <2>1 DEF MigrateTarget, FormOf, Form, Other
    <3>5. Migrated(p, a)'
      BY <2>1, <2>2, <3>2, <3>3, <3>4 DEF Migrated
    <3>6. \A b \in Artifact \ {a} : Migrated(p, b) => Migrated(p, b)'
      BY <2>2, <3>2, <3>4 DEF Migrated
    <3>7. settings = "none" /\ no_files_in_form("plain") /\ op[p] = "enable"
            => no_files_in_form("plain")'
      BY <2>2, <3>1, <3>3 DEF no_files_in_form, MigrateTarget, FormOf, Form
    <3> QED BY <1>0, <2>1, <2>4, <3>1, <3>2, <3>5, <3>6, <3>7
            DEF Kept, ChecksStillHold, SidecarIsTruth, Form
  <2>5. CASE pc[p] = "empty"
    <3>1. op[p] = "setup" /\ side[p].file = "plain" /\ settings = "none" /\ no_files_in_form("enc")
      BY <1>0, <2>1, <2>5 DEF StageMatches, SidecarIsTruth, ChecksStillHold
    <3>2. pc'[p] = "commit"
      BY <1>0, <1>23, <3>1 DEF RenameMap, TypeOK
    <3>3. no_files_in_form("enc")'
      BY <2>2, <3>1 DEF no_files_in_form, Form
    <3> QED BY <2>1, <3>1, <3>2, <3>3 DEF Kept, ChecksStillHold, SidecarIsTruth, Form
  <2> QED BY <1>0, <2>1, <2>3, <2>4, <2>5 DEF SidecarMatches, StageMatches
<1>24. CASE RenameWraps(p)
  <2>1. CASE Return(p, ses[p])
    <3>1. op'[p] = "none" /\ pc'[p] = "idle" /\ side'[p].file = "none"
      BY <1>0, <1>24, <2>1 DEF RenameWraps, Return, TypeOK, NoSide, MapSidecar
    <3> QED BY <3>1, QuietKept DEF Form
  <2>2. CASE ~Return(p, ses[p])
    <3>1. /\ op[p] = "enable" /\ op'[p] = "enable" /\ pc'[p] = "migrate" /\ todo'[p] = Artifact
          /\ UNCHANGED <<files, settings, opKey>> /\ side'[p].file = "none"
      BY <1>0, <1>24, <2>2 DEF RenameWraps, Goto, TypeOK, NoSide, MapSidecar
    <3> QED BY <1>0, <3>1 DEF Kept, ChecksStillHold, SidecarIsTruth, no_files_in_form, Form
  <2> QED BY <2>1, <2>2
<1>25. CASE RenameSettings(p)
  BY <1>0, <1>25 DEF RenameSettings, Goto, Return, TypeOK, StageMatches, SidecarMatches,
     ReadyToCommit, Kept, ChecksStillHold, SidecarIsTruth, disk, locks, history, Form, NoSide,
     MapSidecar, FlagSidecar, WrapsSidecar, no_files_in_form
<1>26. CASE Crash(p)
  BY <1>0, <1>26 DEF Crash, Goto, TypeOK, StageMatches, SidecarMatches, ReadyToCommit, Kept,
     ChecksStillHold, SidecarIsTruth, disk, locks, history, Form, NoSide, MapSidecar,
     FlagSidecar, WrapsSidecar, no_files_in_form
<1>27. CASE IOError(p)
  BY <1>0, <1>27 DEF IOError, Return, AfterError, KeepForRetry, TypeOK, StageMatches,
     SidecarMatches, ReadyToCommit, Kept, ChecksStillHold, SidecarIsTruth, disk, locks,
     history, Form, NoSide, MapSidecar, FlagSidecar, WrapsSidecar, no_files_in_form
<1> QED BY <1>1, <1>2, <1>3, <1>4, <1>5, <1>6, <1>7, <1>8, <1>9, <1>10, <1>11, <1>12, <1>13,
   <1>14, <1>15, <1>16, <1>17, <1>18, <1>19, <1>20, <1>21, <1>22, <1>23, <1>24, <1>25, <1>26,
   <1>27 DEF Act, Step, Request

(* What the disk as a whole keeps. *)
DiskKept == FilesWellFormed /\ ModeMatches /\ CredentialsKept

(* Deleting the copy the recorded mode does not read, where the one it reads
   exists, changes nothing that is read. *)
LEMMA DiscardKeeps ==
    ASSUME StoreInvariant, settings # "none", NEW a \in Artifact,
           files' = StaleDiscarded(a, settings), UNCHANGED <<settings, committed, truth>>
    PROVE  DiskKept'
<1>1. TypeOK /\ FilesWellFormed /\ CredentialsKept
  BY DEF StoreInvariant, Structure
<1>2. committed = settings /\ settings \in Form /\ Other(settings) \in Form
      /\ Other(settings) # settings
  BY <1>1 DEF StoreInvariant, ModeMatches, TypeOK, Mode, Other, Form
<1>3. CASE ~files[settings][a].there
  <2>1. files' = files
    BY <1>3 DEF StaleDiscarded
  <2> QED BY <1>1, <1>2, <2>1
          DEF DiskKept, StoreInvariant, FilesWellFormed, ModeMatches, CredentialsKept, Reads
<1>4. CASE files[settings][a].there
  <2>1. \A form \in Form, b \in Artifact :
          files'[form][b] = IF form = Other(settings) /\ b = a THEN NoFile ELSE files[form][b]
    BY <1>1, <1>2, <1>4 DEF StaleDiscarded, TypeOK
  <2>2. NoFile.map = {}
    BY DEF NoFile
  <2>3. FilesWellFormed'
    BY <1>1, <2>1, <2>2 DEF FilesWellFormed
  <2>4. ModeMatches'
    BY <1>2 DEF ModeMatches, Form
  <2>5. ASSUME NEW b \in Artifact PROVE Reads(b)' = truth'[b]
    <3>1. Reads(b) = truth[b] /\ files'[settings][b] = files[settings][b]
      BY <1>1, <1>2, <2>1 DEF CredentialsKept
    <3>2. b # a => files'[Other(settings)][b] = files[Other(settings)][b]
      BY <1>2, <2>1
    <3> QED BY <1>2, <1>4, <3>1, <3>2 DEF Reads
  <2> QED BY <2>3, <2>4, <2>5 DEF DiskKept, CredentialsKept
<1> QED BY <1>3, <1>4

(* Renaming a map's sidecar into place changes what is read only by the entry its
   update changed. *)
LEMMA RenameMapKeeps ==
    ASSUME NEW p \in Proc, StoreInvariant, RenameMap(p)
    PROVE  DiskKept'
<1>1. /\ TypeOK /\ FilesWellFormed /\ CredentialsKept /\ ModeMatches
      /\ StageMatches(p) /\ SidecarMatches(p) /\ ChecksStillHold(p) /\ SidecarIsTruth(p)
  BY DEF StoreInvariant, Structure
<1>2. UNCHANGED <<settings, committed>> /\ side[p].file \in Form /\ side[p].art \in Artifact
  BY <1>1 DEF RenameMap, TypeOK, Sidecar
<1>3. PICK a \in Artifact : a = side[p].art
  BY <1>2
<1>4. \A form \in Form, b \in Artifact :
        files'[form][b] = IF form = side[p].file /\ b = a
                          THEN [there |-> TRUE, map |-> side[p].map,
                                key |-> IF side[p].file = "enc" THEN opKey[p] ELSE NoKey]
                          ELSE files[form][b]
  BY <1>1, <1>2, <1>3 DEF RenameMap, TypeOK
<1>5. /\ files'[side[p].file][a].there /\ files'[side[p].file][a].map = side[p].map
  BY <1>2, <1>4
<1>6. FilesWellFormed'
  <2> SUFFICES ASSUME NEW b \in Artifact, NEW form \in Form, ~files'[form][b].there
               PROVE  files'[form][b].map = {}
    BY DEF FilesWellFormed
  <2>1. files'[form][b] = files[form][b]
    BY <1>4, <1>5
  <2> QED BY <1>1, <2>1 DEF FilesWellFormed
<1>7. \A b \in Artifact \ {a} : truth'[b] = truth[b]
  BY <1>1, <1>3 DEF RenameMap, TypeOK
<1>8. \A b \in Artifact \ {a} : Reads(b)' = truth'[b]
  <2> SUFFICES ASSUME NEW b \in Artifact \ {a} PROVE Reads(b)' = truth'[b]
    OBVIOUS
  <2>1. \A form \in Form : files'[form][b] = files[form][b]
    BY <1>4
  <2>2. committed # "none" => committed \in Form /\ Other(committed) \in Form
    BY <1>1 DEF TypeOK, Mode, Other, Form
  <2>3. Reads(b)' = Reads(b)
    BY <1>2, <2>1, <2>2 DEF Reads, Form
  <2> QED BY <1>1, <1>7, <2>3 DEF CredentialsKept
<1>9. CASE pc[p] = "update"
  <2>1. /\ op[p] = "update" /\ side[p].file = settings
        /\ side[p].map = (truth[a] \cup side[p].gain) \ side[p].loss
    BY <1>1, <1>2, <1>3, <1>9 DEF StageMatches, SidecarIsTruth
  <2>2. truth'[a] = side[p].map
    BY <1>1, <1>3, <2>1 DEF RenameMap, TypeOK
  <2>3. committed = side[p].file /\ committed # "none"
    BY <1>1, <1>2, <2>1 DEF ModeMatches, Form
  <2>4. Reads(a)' = truth'[a]
    BY <1>2, <1>5, <2>2, <2>3 DEF Reads
  <2>5. ModeMatches'
    BY <1>1, <1>2, <2>3 DEF ModeMatches
  <2> QED BY <1>6, <1>8, <2>4, <2>5 DEF DiskKept, CredentialsKept
<1>10. CASE pc[p] = "migrate"
  <2>1. /\ op[p] \in {"enable", "disable"} /\ side[p].map = truth[a]
        /\ side[p].file = FormOf(MigrateTarget(p)) /\ opKey[p] # NoKey
    BY <1>1, <1>2, <1>3, <1>10 DEF StageMatches, SidecarIsTruth, ChecksStillHold
  <2>2. truth' = truth
    BY <2>1 DEF RenameMap
  <2>3. committed = "none" => side[p].file = "enc"
    BY <1>1, <2>1 DEF ChecksStillHold, ModeMatches, MigrateTarget, FormOf
  <2>4. ModeMatches'
    <3>1. committed = "none" => \A b \in Artifact : files'["plain"][b] = files["plain"][b]
      BY <1>4, <2>3 DEF Form
    <3> QED BY <1>1, <1>2, <2>2, <3>1 DEF ModeMatches
  <2>5. Reads(a)' = truth'[a]
    <3>1. Reads(a) = truth[a]
      BY <1>1 DEF CredentialsKept
    <3>2. CASE committed = "none" \/ committed = side[p].file
      BY <1>2, <1>5, <2>1, <2>2, <2>3, <3>2 DEF Reads
    <3>3. CASE committed # "none" /\ committed # side[p].file
      <4>1. committed \in Form /\ Other(committed) = side[p].file
        BY <1>1, <1>2, <3>3 DEF TypeOK, Mode, Other, Form
      <4>2. files'[committed][a] = files[committed][a]
        BY <1>4, <3>3, <4>1
      <4> QED BY <1>2, <1>5, <2>1, <2>2, <3>1, <3>3, <4>1, <4>2 DEF Reads
    <3> QED BY <3>2, <3>3
  <2> QED BY <1>6, <1>8, <2>4, <2>5 DEF DiskKept, CredentialsKept
<1>11. CASE pc[p] = "empty"
  <2>1. /\ op[p] = "setup" /\ settings = "none" /\ no_files_in_form("enc")
        /\ ~files["plain"][Jwks].there
        /\ side[p].file = "plain" /\ side[p].map = {} /\ a = Jwks
    BY <1>1, <1>2, <1>3, <1>11 DEF StageMatches, SidecarIsTruth, ChecksStillHold
  <2>2. truth' = truth
    BY <2>1 DEF RenameMap
  <2>3. \A form \in Form, b \in Artifact : files'[form][b].map = files[form][b].map
    <3>1. files["plain"][a].map = {}
      BY <1>1, <2>1, JwksAssumption DEF FilesWellFormed, Form
    <3> QED BY <1>4, <1>5, <2>1, <3>1
  <2>4. ModeMatches'
    BY <1>1, <1>2, <2>2, <2>3 DEF ModeMatches, Form
  <2>5. Reads(a)' = truth'[a]
    <3>1. files["plain"][a].map = truth[a]
      <4>1. no_files_in_form(Other("plain")) /\ "plain" \in Form /\ committed \in Mode
        BY <1>1, <2>1 DEF Other, Form, TypeOK
      <4> QED BY <1>1, <4>1, OneFormReads
    <3>2. files["enc"][a].map = {} /\ files["plain"][a].map = {}
      BY <1>1, <2>1, JwksAssumption DEF FilesWellFormed, no_files_in_form, Form
    <3>3. files'["enc"][a].map = {} /\ files'["plain"][a].map = {}
      BY <2>3, <3>2 DEF Form
    <3>4. committed' \in {"none", "plain", "enc"}
      BY <1>1, <1>2 DEF TypeOK, Mode, Form
    <3> QED BY <2>2, <3>1, <3>2, <3>3, <3>4 DEF Reads, Other
  <2> QED BY <1>6, <1>8, <2>4, <2>5 DEF DiskKept, CredentialsKept
<1> QED BY <1>1, <1>2, <1>9, <1>10, <1>11 DEF SidecarMatches

(* Recording a mode changes nothing that is read: either every map has been copied
   to its form, or no copy exists in the other. *)
LEMMA RenameSettingsKeeps ==
    ASSUME NEW p \in Proc, StoreInvariant, RenameSettings(p)
    PROVE  DiskKept'
<1>1. /\ TypeOK /\ FilesWellFormed /\ CredentialsKept /\ ModeMatches
      /\ StageMatches(p) /\ SidecarMatches(p) /\ ChecksStillHold(p) /\ SidecarIsTruth(p)
  BY DEF StoreInvariant, Structure
<1>2. /\ UNCHANGED <<files, truth>> /\ side[p].file = "settings"
      /\ settings' = side[p].mode /\ committed' = side[p].mode
  BY DEF RenameSettings
<1>3. PICK m \in Mode : m = NewMode(p) /\ m \in Form
  BY <1>1 DEF NewMode, TypeOK, Mode, Form
<1>4. settings' = m /\ committed' = m /\ m # "none" /\ Other(m) \in Form /\ committed \in Mode
  BY <1>1, <1>2, <1>3 DEF SidecarIsTruth, Other, Form, TypeOK
<1>5. ReadyToCommit(p) /\ op[p] \in {"enable", "disable", "setup", "finish", "save"}
  BY <1>1, <1>2 DEF SidecarMatches, StageMatches, ReadyToCommit
<1>6. ASSUME NEW a \in Artifact
      PROVE  /\ files[m][a].there => files[m][a].map = truth[a]
             /\ ~files[m][a].there => files[Other(m)][a].map = truth[a]
  <2>0. /\ ~files[m][a].there => files[m][a].map = {}
        /\ ~files[Other(m)][a].there => files[Other(m)][a].map = {}
    BY <1>1, <1>3, <1>4 DEF FilesWellFormed
  <2>1. CASE pc[p] = "migrate"
    <3>1. todo[p] = {} /\ op[p] \in {"enable", "disable"}
      BY <1>1, <1>5, <2>1 DEF ReadyToCommit, StageMatches
    <3>2. opKey[p] # NoKey /\ Migrated(p, a)
      BY <1>1, <2>1, <3>1 DEF ChecksStillHold
    <3>3. m = FormOf(MigrateTarget(p))
      BY <1>3, <3>1, <3>2 DEF NewMode, MigrateTarget, FormOf
    <3>4. /\ files[m][a].there => files[m][a].map = truth[a]
          /\ files[Other(m)][a].there => files[m][a].there
      BY <3>2, <3>3 DEF Migrated
    <3>5. ~files[m][a].there => truth[a] = {}
      <4>1. Reads(a) = truth[a]
        BY <1>1 DEF CredentialsKept
      <4>2. committed = "none" => truth[a] = {}
        BY <1>1 DEF ModeMatches
      <4>3. committed # "none" => {committed, Other(committed)} = {m, Other(m)}
        BY <1>1, <1>3 DEF TypeOK, Mode, Form, Other
      <4> QED BY <2>0, <3>4, <4>1, <4>2, <4>3 DEF Reads
    <3> QED BY <2>0, <3>4, <3>5
  <2>2. CASE pc[p] # "migrate" /\ ~(op[p] = "save" /\ settings # "none")
    <3>1. no_files_in_form(Other(m))
      BY <1>1, <1>3, <1>5, <2>2
         DEF ReadyToCommit, StageMatches, ChecksStillHold, NewMode, Other
    <3>2. files[m][a].map = truth[a]
      BY <1>1, <1>3, <1>4, <3>1, OneFormReads
    <3>3. files[Other(m)][a].map = {}
      BY <2>0, <3>1 DEF no_files_in_form
    <3> QED BY <2>0, <3>2, <3>3
  <2>3. CASE op[p] = "save" /\ settings # "none"
    <3>1. committed = m
      BY <1>1, <1>3, <2>3 DEF NewMode, ModeMatches
    <3> QED BY <1>1, <1>4, <3>1 DEF CredentialsKept, Reads
  <2> QED BY <2>1, <2>2, <2>3
<1>7. CredentialsKept'
  BY <1>2, <1>4, <1>6 DEF CredentialsKept, Reads
<1>8. FilesWellFormed'
  BY <1>1, <1>2 DEF FilesWellFormed
<1>9. ModeMatches'
  BY <1>4 DEF ModeMatches
<1> QED BY <1>7, <1>8, <1>9 DEF DiskKept

LEMMA InvariantStep == StoreInvariant /\ [Next]_vars => StoreInvariant'
<1> SUFFICES ASSUME StoreInvariant, [Next]_vars PROVE StoreInvariant'
  OBVIOUS
<1>0. Structure /\ TypeOK /\ DiskKept
  BY DEF StoreInvariant, Structure, DiskKept
<1>1. Structure'
  BY <1>0, StructureStep
<1>2. ASSUME NEW p \in Proc, Act(p) PROVE StoreInvariant'
  <2>1. \A q \in Proc : Kept(q)'
    BY <1>2, ActorKept, OthersKept
  <2>2. DiskKept'
    <3>1. CASE ~Touches(p)
      <4>1. DiskUntouched
        BY <1>2, <3>1, OnlyTouchesTouch
      <4> QED BY <1>0, <4>1
              DEF DiskUntouched, DiskKept, FilesWellFormed, ModeMatches, CredentialsKept, Reads
    <3>2. CASE DiscardStale(p)
      <4>1. PICK a \in todo[p] : files' = StaleDiscarded(a, settings)
        BY <3>2 DEF DiscardStale
      <4>2. a \in Artifact /\ settings # "none" /\ UNCHANGED <<settings, committed, truth>>
        BY <1>0, <3>2, <4>1 DEF DiscardStale, Structure, StaleHasMode, TypeOK, history
      <4> QED BY <4>1, <4>2, DiscardKeeps
    <3>3. CASE FinishUpdate(p)
      <4>1. PICK a \in Artifact : files' = StaleDiscarded(a, FormOf(opKey[p]))
        BY <3>3 DEF FinishUpdate
      <4>2. FormOf(opKey[p]) = settings /\ UNCHANGED <<settings, committed, truth>>
        BY <3>3 DEF FinishUpdate, StoreInvariant, SidecarIsTruth, history
      <4>3. settings # "none"
        BY <4>2 DEF FormOf
      <4> QED BY <4>1, <4>2, <4>3, DiscardKeeps
    <3>4. CASE RenameMap(p)
      BY <3>4, RenameMapKeeps
    <3>5. CASE RenameSettings(p)
      BY <3>5, RenameSettingsKeeps
    <3> QED BY <3>1, <3>2, <3>3, <3>4, <3>5 DEF Touches
  <2> QED BY <1>1, <2>1, <2>2 DEF StoreInvariant, DiskKept, Kept
<1>3. CASE LoseSettings
  <2>1. /\ UNCHANGED <<files, committed, truth, op, pc, side>> /\ settings' = "none"
        /\ excl = Nobody /\ shared = {}
    BY <1>3 DEF LoseSettings, LockFree, local
  <2>2. DiskKept'
    BY <1>0, <2>1 DEF DiskKept, FilesWellFormed, ModeMatches, CredentialsKept, Reads
  <2>3. ASSUME NEW q \in Proc PROVE Kept(q)'
    <3>1. /\ op[q] \notin {"enable", "disable", "setup", "save", "update"}
          /\ pc[q] \notin {"empty", "commit", "migrate", "update", "tidy"}
          /\ side[q].file \notin Form \cup {"settings"}
      BY <1>0, <2>1, OutsideIdle, NobodyAssumption
    <3> QED BY <2>1, <3>1, QuietKept
  <2> QED BY <1>1, <2>2, <2>3 DEF StoreInvariant, DiskKept, Kept
<1>4. CASE UNCHANGED vars
  <2>1. UNCHANGED <<files, settings, committed, truth, op, pc, opKey, todo, ses, side, alock>>
    BY <1>4 DEF vars, disk, locks, local, history
  <2>2. DiskKept'
    BY <1>0, <2>1 DEF DiskKept, FilesWellFormed, ModeMatches, CredentialsKept, Reads
  <2>3. ASSUME NEW q \in Proc PROVE ChecksStillHold(q)' /\ SidecarIsTruth(q)'
    BY <2>1 DEF StoreInvariant, ChecksStillHold, SidecarIsTruth, no_files_in_form, NewMode,
                Migrated, MigrateTarget
  <2> QED BY <1>1, <2>2, <2>3 DEF StoreInvariant, DiskKept
<1> QED BY <1>2, <1>3, <1>4 DEF Next, Act

LEMMA InvariantInit == Init => StoreInvariant
<1> SUFFICES ASSUME Init PROVE StoreInvariant
  OBVIOUS
<1>1. Structure
  BY StructureInit
<1>2. FilesWellFormed /\ ModeMatches /\ CredentialsKept
  BY DEF Init, FilesWellFormed, ModeMatches, CredentialsKept, Reads, NoFile, Form
<1>3. \A p \in Proc : ChecksStillHold(p) /\ SidecarIsTruth(p)
  BY DEF Init, ChecksStillHold, SidecarIsTruth, NoSide, MapSidecar, Form
<1> QED BY <1>1, <1>2, <1>3 DEF StoreInvariant

LEMMA LegacyInvariantInit == LegacyInit => StoreInvariant
<1> SUFFICES ASSUME LegacyInit PROVE StoreInvariant
  OBVIOUS
<1>1. PICK k \in Key, f \in Factor : \E form \in [Artifact -> Form] :
        /\ files = [m \in Form |-> [a \in Artifact |->
                      IF form[a] # m THEN NoFile
                      ELSE [there |-> TRUE, map |-> truth[a],
                            key |-> IF m = "enc" THEN k ELSE NoKey]]]
        /\ wraps = [NoWraps EXCEPT ![f] = k]
        /\ minted = {k}
  BY DEF LegacyInit
<1>2. PICK form \in [Artifact -> Form] :
        files = [m \in Form |-> [a \in Artifact |->
                   IF form[a] # m THEN NoFile
                   ELSE [there |-> TRUE, map |-> truth[a],
                         key |-> IF m = "enc" THEN k ELSE NoKey]]]
  BY <1>1
<1>3. files \in [Form -> [Artifact -> File]]
  BY <1>2, NothingTyped DEF LegacyInit, File, KeyOpt, Map
<1>4. wraps \in [Factor -> KeyOpt] /\ minted \subseteq Key
  BY <1>1, NothingTyped DEF KeyOpt
<1>5. TypeOK
  BY <1>3, <1>4, NothingTyped, BoundAssumption
     DEF LegacyInit, TypeOK, Mode, Form, SideKind, Operation, Stage, KeyOpt, Map
<1>6. \A p \in Proc : StageMatches(p) /\ SidecarMatches(p)
  BY DEF LegacyInit, StageMatches, SidecarMatches, NoSide, MapSidecar, Form
<1>7. Structure
  BY <1>5, <1>6, NobodyAssumption DEF LegacyInit, Structure, LocksMatch, StaleHasMode, Exclusive
<1>8. FilesWellFormed
  BY <1>2 DEF FilesWellFormed, NoFile
<1>9. CredentialsKept
  <2> SUFFICES ASSUME NEW a \in Artifact PROVE Reads(a) = truth[a]
    BY DEF CredentialsKept
  <2>1. committed \in Form /\ committed # "none" /\ Other(committed) \in Form
        /\ form[a] \in {committed, Other(committed)} /\ Other(committed) # committed
    BY <1>2 DEF LegacyInit, Form, Other
  <2>2. /\ files[form[a]][a].there /\ files[form[a]][a].map = truth[a]
        /\ form[a] # committed => ~files[committed][a].there
    BY <1>2, <2>1 DEF NoFile
  <2> QED BY <2>1, <2>2 DEF Reads
<1>10. ModeMatches
  BY DEF LegacyInit, ModeMatches, Form
<1>11. \A p \in Proc : ChecksStillHold(p) /\ SidecarIsTruth(p)
  BY DEF LegacyInit, ChecksStillHold, SidecarIsTruth, NoSide, MapSidecar, Form
<1> QED BY <1>7, <1>8, <1>9, <1>10, <1>11 DEF StoreInvariant

(* The inductive invariant holds in every reachable state of a new project. *)
THEOREM InvariantHolds == Spec => []StoreInvariant
<1>1. Init => StoreInvariant
  BY InvariantInit
<1>2. StoreInvariant /\ [Next]_vars => StoreInvariant'
  BY InvariantStep
<1> QED BY <1>1, <1>2, PTL DEF Spec

(* No crash, I/O error, lost settings.toml or race loses or resurrects a credential,
   for any number of processes, maps, keys, credentials, factors and faults. *)
THEOREM CredentialsSafe == Spec => []CredentialsKept
<1>1. StoreInvariant => CredentialsKept
  BY DEF StoreInvariant
<1> QED BY <1>1, InvariantHolds, PTL

(* The same of a vault an older version left with some maps moved and some not. *)
THEOREM LegacyCredentialsSafe == LegacySpec => []CredentialsKept
<1>1. LegacyInit => StoreInvariant
  BY LegacyInvariantInit
<1>2. StoreInvariant /\ [Next]_vars => StoreInvariant'
  BY InvariantStep
<1>3. StoreInvariant => CredentialsKept
  BY DEF StoreInvariant
<1> QED BY <1>1, <1>2, <1>3, PTL DEF LegacySpec

-----------------------------------------------------------------------------
(* The three files per map, the flag, the locks and the recovery paths together
   implement one atomic store of credentials. *)

(* Who records a mode, and who changes a credential. *)
LEMMA VisibleSteps ==
    ASSUME NEW p \in Proc, Act(p), ~RenameMap(p), ~RenameSettings(p)
    PROVE  UNCHANGED <<committed, truth>>
  BY DEF Act, Step, Request, OpenSession, CloseSession, UnwrapKey,
       DecryptMaps, BeginEnable, BeginDisable, BeginSetUpPlain, BeginFinish, BeginSettle,
       BeginSave, BeginFactor, SweepSidecars, DiscardStale, DiscardOrphanWraps, WriteWrap,
       Migrate, WriteEmpty, WriteFlag, WriteFactor, BeginUpdate, WriteUpdate, FinishUpdate,
       RenameWraps, Crash, IOError, disk, history

(* A step of the vault changes one credential of one map, changes the mode, or is
   invisible. *)
LEMMA VisibleChange ==
    ASSUME StoreInvariant, [Next]_vars
    PROVE  \/ UNCHANGED <<committed, truth>>
           \/ committed' \in {"plain", "enc"} \ {committed} /\ UNCHANGED truth
           \/ \E a \in Artifact, e \in Entry :
                /\ committed # "none" /\ UNCHANGED committed
                /\ \E map \in {truth[a] \cup {e}, truth[a] \ {e}} :
                     truth' = [truth EXCEPT ![a] = map]
<1>0. TypeOK /\ ModeMatches
  BY DEF StoreInvariant, Structure
<1>1. CASE LoseSettings \/ UNCHANGED vars
  BY <1>1 DEF LoseSettings, vars, history
<1>2. ASSUME NEW p \in Proc, Act(p), ~RenameMap(p), ~RenameSettings(p)
      PROVE  UNCHANGED <<committed, truth>>
  BY <1>2, VisibleSteps
<1>3. ASSUME NEW p \in Proc, RenameSettings(p)
      PROVE  committed' \in {"plain", "enc"} /\ UNCHANGED truth
  <2>1. committed' = NewMode(p) /\ UNCHANGED truth
    BY <1>3 DEF RenameSettings, StoreInvariant, SidecarIsTruth
  <2> QED BY <1>0, <2>1 DEF NewMode, TypeOK, Mode, Form
<1>4. ASSUME NEW p \in Proc, RenameMap(p), op[p] # "update"
      PROVE  UNCHANGED <<committed, truth>>
  BY <1>4 DEF RenameMap
<1>5. ASSUME NEW p \in Proc, RenameMap(p), op[p] = "update"
      PROVE  \E a \in Artifact, e \in Entry :
                /\ committed # "none" /\ UNCHANGED committed
                /\ \E map \in {truth[a] \cup {e}, truth[a] \ {e}} :
                     truth' = [truth EXCEPT ![a] = map]
  <2>1. StageMatches(p) /\ SidecarMatches(p) /\ SidecarIsTruth(p) /\ side[p].file \in Form
    BY <1>5 DEF StoreInvariant, Structure, RenameMap
  <2>2. pc[p] = "update"
    BY <1>5, <2>1 DEF StageMatches, SidecarMatches
  <2>3. PICK a \in Artifact : a = side[p].art
    BY <1>0, <2>1 DEF TypeOK, Sidecar
  <2>4. PICK e \in Entry : \/ side[p].gain = {e} /\ side[p].loss = {}
                           \/ side[p].gain = {} /\ side[p].loss = {e}
    BY <2>1, <2>2 DEF SidecarIsTruth
  <2>5. committed # "none" /\ UNCHANGED committed
    BY <1>0, <1>5, <2>1, <2>2 DEF SidecarIsTruth, ModeMatches, Form, RenameMap
  <2>6. truth' = [truth EXCEPT ![a] = (truth[a] \cup side[p].gain) \ side[p].loss]
    BY <1>5, <2>3 DEF RenameMap
  <2>7. (truth[a] \cup side[p].gain) \ side[p].loss \in {truth[a] \cup {e}, truth[a] \ {e}}
    <3>1. (truth[a] \cup {e}) \ {} = truth[a] \cup {e} /\ (truth[a] \cup {}) \ {e} = truth[a] \ {e}
      OBVIOUS
    <3> QED BY <2>4, <3>1
  <2> QED BY <2>5, <2>6, <2>7
<1> QED BY <1>1, <1>2, <1>3, <1>4, <1>5 DEF Next, Act

(* Under the invariant the store is the credentials. *)
LEMMA StoreIsTruth ==
    ASSUME StoreInvariant
    PROVE  [a \in Artifact |-> Reads(a)] = truth
<1>1. \A a \in Artifact : Reads(a) = truth[a]
  BY DEF StoreInvariant, CredentialsKept
<1>2. truth = [a \in Artifact |-> truth[a]]
  BY DEF StoreInvariant, Structure, TypeOK
<1> QED BY <1>1, <1>2

LEMMA StoreStep ==
    StoreInvariant /\ StoreInvariant' /\ [Next]_vars
      => [Store!Next]_<<committed, [a \in Artifact |-> Reads(a)]>>
<1> SUFFICES ASSUME StoreInvariant, StoreInvariant', [Next]_vars
             PROVE  [Store!Next]_<<committed, [a \in Artifact |-> Reads(a)]>>
  OBVIOUS
<1>1. [a \in Artifact |-> Reads(a)] = truth
  BY StoreIsTruth
<1>2. [a \in Artifact |-> Reads(a)]' = truth'
  <2>1. \A a \in Artifact : Reads(a)' = truth'[a]
    BY DEF StoreInvariant, CredentialsKept
  <2>2. truth' = [a \in Artifact |-> truth'[a]]
    BY DEF StoreInvariant, Structure, TypeOK
  <2> QED BY <2>1, <2>2
<1>3. CASE UNCHANGED <<committed, truth>>
  BY <1>1, <1>2, <1>3
<1>4. CASE committed' \in {"plain", "enc"} \ {committed} /\ UNCHANGED truth
  <2>1. Store!SetMode
    BY <1>1, <1>2, <1>4 DEF Store!SetMode
  <2> QED BY <2>1 DEF Store!Next
<1>5. ASSUME NEW a \in Artifact, NEW e \in Entry, committed # "none", UNCHANGED committed,
             NEW map \in {truth[a] \cup {e}, truth[a] \ {e}}, truth' = [truth EXCEPT ![a] = map]
      PROVE  [Store!Next]_<<committed, [b \in Artifact |-> Reads(b)]>>
  <2>1. Store!Change(a, e)
    BY <1>1, <1>2, <1>5 DEF Store!Change
  <2> QED BY <2>1 DEF Store!Next
<1> QED BY <1>3, <1>4, <1>5, VisibleChange

(* Every step of every process, fault included, is one change of one credential, a
   change of mode that leaves every credential alone, or invisible to a reader. *)
THEOREM VaultImplementsStore == Spec => RefinesCredentialStore
<1>1. StoreInvariant /\ Init => Store!Init
  <2> SUFFICES ASSUME StoreInvariant, Init PROVE Store!Init
    OBVIOUS
  <2>1. [a \in Artifact |-> Reads(a)] = truth
    BY StoreIsTruth
  <2> QED BY <2>1 DEF Init, Store!Init
<1>2. StoreInvariant /\ StoreInvariant' /\ [Next]_vars
        => [Store!Next]_<<committed, [a \in Artifact |-> Reads(a)]>>
  BY StoreStep
<1>3. Init => StoreInvariant
  BY InvariantInit
<1> QED BY <1>1, <1>2, <1>3, InvariantHolds, PTL DEF Spec, RefinesCredentialStore, Store!Spec
=============================================================================
