---------------------------- MODULE AgentProofs ----------------------------
(***************************************************************************)
(* What holds of the agent daemon for any number of connections, requests  *)
(* and changes on disk: the cached client is never older than what the     *)
(* daemon holds, no replaced key hides behind an unchanged mtime, and no   *)
(* request is answered with what was replaced before it began.  For the    *)
(* last every step is summed up by how it moves the files and the daemon's *)
(* map (WorldMove), and the cached client (ClientMove); a task that does   *)
(* not step keeps its part of the invariant under any such move.           *)
(***************************************************************************)
EXTENDS Agent, TLAPS

USE DEF NoStamp, NoJwk, Epoch, NoConfig

(* The values a task's fields start from, and return to, are well-typed. *)
LEMMA IdleTyped == Idle \in TaskState
  BY DEF Idle, TaskState, Point, JWK_REFRESH_ATTEMPTS, Form, KeyOpt, Client, Request, NoClient,
         Never

(* What a request notes when it begins is well-typed. *)
LEMMA NowTyped == TypeOK => Now \in Request
  BY DEF TypeOK, Now, Request, OldestFresh, KeyFile

(* A task that moves on with one captured value is well-typed. *)
LEMMA CaptureTyped ==
  ASSUME NEW r \in TaskState, NEW p \in Point
  PROVE  /\ \A c \in Int : [r EXCEPT !.pc = p, !.bytes = c] \in TaskState
         /\ \A m \in Nat \cup {-1} : [r EXCEPT !.pc = p, !.stamp = m] \in TaskState
         /\ \A j \in Nat : [r EXCEPT !.pc = p, !.jwk = j] \in TaskState
         /\ \A n \in {1, 2} : [r EXCEPT !.pc = p, !.round = n] \in TaskState
<1>1. ASSUME NEW c \in Int PROVE [r EXCEPT !.pc = p, !.bytes = c] \in TaskState
  BY DEF TaskState
<1>2. ASSUME NEW m \in Nat \cup {-1} PROVE [r EXCEPT !.pc = p, !.stamp = m] \in TaskState
  BY DEF TaskState
<1>3. ASSUME NEW j \in Nat PROVE [r EXCEPT !.pc = p, !.jwk = j] \in TaskState
  BY DEF TaskState
<1>4. ASSUME NEW n \in {1, 2} PROVE [r EXCEPT !.pc = p, !.round = n] \in TaskState
  BY DEF TaskState
<1> QED
  BY <1>1, <1>2, <1>3, <1>4

(* A task that starts another attempt is well-typed. *)
LEMMA RetryTyped ==
  ASSUME NEW p \in Point, NEW i \in 0 .. 2, NEW n \in {1, 2}, NEW b \in Request
  PROVE  [Idle EXCEPT !.pc = p, !.tries = i, !.round = n, !.begun = b] \in TaskState
<1>1. 0 .. JWK_REFRESH_ATTEMPTS - 1 = 0 .. 2
  BY DEF JWK_REFRESH_ATTEMPTS
<1> QED
  BY <1>1, IdleTyped DEF TaskState

(* The fields of a well-typed task. *)
LEMMA TaskTyped ==
  ASSUME TypeOK, NEW t \in Task
  PROVE  /\ task[t] \in TaskState
         /\ task[t].pc \in Point /\ task[t].round \in {1, 2} /\ task[t].tries \in 0 .. 2
         /\ task[t].form \in Form /\ task[t].gen \in Nat /\ task[t].jwk \in Nat
         /\ task[t].stamp \in Nat \cup {-1} /\ task[t].known \in Nat \cup {-1}
         /\ task[t].bytes \in Int /\ task[t].begun \in Request /\ task[t].key \in KeyOpt
  BY DEF TypeOK, TaskState, JWK_REFRESH_ATTEMPTS

(* Every step keeps the types. *)
LEMMA TypeStep == TypeOK /\ [Next]_vars => TypeOK'
<1> SUFFICES ASSUME TypeOK, [Next]_vars PROVE TypeOK'
  OBVIOUS
<1>1. ASSUME NEW t \in Task, StartToken(t) PROVE TypeOK'
  <2>1. FirstStep \in Point /\ Now \in Request
    BY NowTyped DEF FirstStep, Point
  <2>2. [Idle EXCEPT !.pc = FirstStep, !.begun = Now] \in TaskState
    BY <2>1, IdleTyped DEF TaskState
  <2>3. task' \in [Task -> TaskState]
    BY <1>1, <2>2, IdleTyped DEF TypeOK, StartToken, Answer
  <2> QED
    BY <1>1, <2>3 DEF TypeOK, StartToken, Accept, files, daemon
<1>2. ASSUME NEW t \in Task, ReadConfig(t) PROVE TypeOK'
  <2>1. "stamp" \in Point /\ config \in Int
    BY DEF Point, TypeOK
  <2>2. [task[t] EXCEPT !.pc = "stamp", !.bytes = config] \in TaskState
    BY <2>1, TaskTyped, CaptureTyped
  <2>3. task' \in [Task -> TaskState]
    BY <1>2, <2>2 DEF TypeOK, ReadConfig
  <2> QED
    BY <1>2, <2>3 DEF TypeOK, ReadConfig, files, daemon
<1>3. ASSUME NEW t \in Task, refresh_config_stamp(t) PROVE TypeOK'
  <2>0. "peek" \in Point /\ 0 \in Int
    BY DEF Point
  <2>1. [task[t] EXCEPT !.pc = "peek", !.bytes = 0] \in TaskState
    BY <2>0, TaskTyped, CaptureTyped
  <2>2. task' \in [Task -> TaskState]
    BY <1>3, <2>1 DEF TypeOK, refresh_config_stamp
  <2>3. client' \in Client /\ config_stamp' \in Int /\ generation' \in Nat
    BY <1>3, TaskTyped DEF TypeOK, refresh_config_stamp, invalidate_clients, NoClient, Client
  <2> QED
    BY <1>3, <2>2, <2>3 DEF TypeOK, refresh_config_stamp, files
<1>4. ASSUME NEW t \in Task, PeekVault(t) PROVE TypeOK'
  BY <1>4, IdleTyped DEF TypeOK, PeekVault, AfterPeek, Answer, files, daemon, TaskState, Point
<1>5. ASSUME NEW t \in Task, StatKeys(t) PROVE TypeOK'
  <2> DEFINE to == IF task[t].round = 1 THEN "lookup" ELSE "build"
             file == keys[task[t].form]
             modified == IF file.there THEN file.mtime ELSE 0
  <2>1. to \in Point /\ "read" \in Point
    BY DEF Point
  <2>2. modified \in Nat
    BY TaskTyped DEF TypeOK, KeyFile
  <2>3. [task[t] EXCEPT !.pc = "read", !.stamp = modified] \in TaskState
    BY <2>1, <2>2, TaskTyped, CaptureTyped
  <2>4. [Idle EXCEPT !.pc = to, !.round = task[t].round, !.begun = task[t].begun] \in TaskState
    BY <2>1, TaskTyped, IdleTyped DEF TaskState
  <2> HIDE DEF to
  <2>5. task' \in [Task -> TaskState]
    <3>1. Refreshed(t) \/ AfterStat(t, modified)
      BY <1>5 DEF StatKeys
    <3>2. CASE Refreshed(t)
      BY <3>2, <2>4 DEF TypeOK, Refreshed, to
    <3>3. CASE AfterStat(t, modified)
      BY <3>3, <2>3 DEF TypeOK, AfterStat
    <3> QED
      BY <3>1, <3>2, <3>3
  <2> QED
    BY <1>5, <2>5 DEF TypeOK, StatKeys, files, daemon
<1>6. ASSUME NEW t \in Task, ReadKeys(t) PROVE TypeOK'
  <2>1. keys[task[t].form].jwk \in Nat
    BY TaskTyped DEF TypeOK, KeyFile
  <2>2. [task[t] EXCEPT !.pc = "install", !.jwk = keys[task[t].form].jwk] \in TaskState
    <3>1. "install" \in Point
      BY DEF Point
    <3> QED
      BY <2>1, <3>1, TaskTyped DEF TaskState
  <2>3. task' \in [Task -> TaskState]
    BY <1>6, <2>2, IdleTyped DEF TypeOK, ReadKeys, Answer
  <2> QED
    BY <1>6, <2>3 DEF TypeOK, ReadKeys, files, daemon
<1>7. ASSUME NEW t \in Task, install_jwks(t) PROVE TypeOK'
  <2> DEFINE to == IF task[t].round = 1 THEN "lookup" ELSE "build"
  <2>1. to \in Point /\ "peek" \in Point
    BY DEF Point
  <2>2. [Idle EXCEPT !.pc = to, !.round = task[t].round, !.begun = task[t].begun] \in TaskState
    BY <2>1, TaskTyped, IdleTyped DEF TaskState
  <2>3. ASSUME Discarded(t) PROVE task' \in [Task -> TaskState]
    <3>1. CASE task[t].tries + 1 = 3
      BY <2>3, <3>1, IdleTyped DEF TypeOK, Discarded, Answer, JWK_REFRESH_ATTEMPTS
    <3>2. CASE task[t].tries + 1 # 3
      <4>1. task[t].tries + 1 \in 0 .. 2
        BY <3>2, TaskTyped
      <4>2. [Idle EXCEPT !.pc = "peek", !.tries = task[t].tries + 1, !.round = task[t].round,
                         !.begun = task[t].begun] \in TaskState
        BY <2>1, <4>1, TaskTyped, RetryTyped
      <4> QED
        BY <2>3, <3>2, <4>2 DEF TypeOK, Discarded, JWK_REFRESH_ATTEMPTS
    <3> QED
      BY <3>1, <3>2
  <2>4. task' \in [Task -> TaskState]
    BY <1>7, <2>2, <2>3 DEF TypeOK, install_jwks, Refreshed
  <2>5. /\ cache' \in [jwk : Nat, stamp : Nat \cup {NoStamp}]
        /\ client' \in Client /\ generation' \in Nat
    BY <1>7, TaskTyped DEF TypeOK, install_jwks, invalidate_clients, NoClient, Client
  <2> QED
    BY <1>7, <2>4, <2>5 DEF TypeOK, install_jwks, files
<1>8. ASSUME NEW t \in Task, Lookup(t) PROVE TypeOK'
  <2>1. "answered" \in Point /\ "config" \in Point
    BY DEF Point
  <2>2. [task[t] EXCEPT !.pc = "config", !.round = 2] \in TaskState
    BY <2>1, TaskTyped, CaptureTyped
  <2>3. [Idle EXCEPT !.pc = "answered", !.served = client, !.round = task[t].round,
                     !.begun = task[t].begun] \in TaskState
    BY <2>1, TaskTyped, IdleTyped DEF TypeOK, TaskState
  <2>4. task' \in [Task -> TaskState]
    BY <1>8, <2>2, <2>3, IdleTyped DEF TypeOK, Lookup, Answer, AnswerWith
  <2> QED
    BY <1>8, <2>4 DEF TypeOK, Lookup, files, daemon
<1>9. ASSUME NEW t \in Task, Build(t) PROVE TypeOK'
  BY <1>9, IdleTyped DEF TypeOK, Build, Answer, files, daemon, TaskState, Point
<1>10. ASSUME NEW t \in Task, ReadTenant(t) PROVE TypeOK'
  BY <1>10, IdleTyped DEF TypeOK, ReadTenant, Answer, files, daemon, TaskState, Point
<1>11. ASSUME NEW t \in Task, publish(t) PROVE TypeOK'
  BY <1>11, IdleTyped DEF TypeOK, publish, AnswerWith, files, daemon, TaskState, Point, Idle, Client
<1>12. ASSUME NEW t \in Task, PutDek(t) PROVE TypeOK'
  BY <1>12, IdleTyped DEF TypeOK, PutDek, Accept, set_vault, invalidate_clients, Answer, files,
     daemon, KeyOpt, Form, NoCache, NoClient, Client
<1>13. ASSUME NEW t \in Task, SendUnlockPlain(t) PROVE TypeOK'
  BY <1>13, IdleTyped DEF TypeOK, SendUnlockPlain, Accept, files, daemon, TaskState, Point, Idle
<1>14. ASSUME NEW t \in Task, StatPlain(t) PROVE TypeOK'
  <2> DEFINE modified == IF keys["plain"].there THEN keys["plain"].mtime ELSE -1
  <2>1. "unlock_read" \in Point /\ modified \in Nat \cup {-1}
    BY DEF Point, TypeOK, KeyFile, Form
  <2>2. [task[t] EXCEPT !.pc = "unlock_read", !.stamp = modified] \in TaskState
    BY <2>1, TaskTyped, CaptureTyped
  <2>3. task' \in [Task -> TaskState]
    BY <1>14, <2>2 DEF TypeOK, StatPlain
  <2> QED
    BY <1>14, <2>3 DEF TypeOK, StatPlain, files, daemon
<1>15. ASSUME NEW t \in Task, ReadPlain(t) PROVE TypeOK'
  BY <1>15, IdleTyped DEF TypeOK, ReadPlain, Answer, files, daemon, TaskState, Point, KeyFile, Form
<1>16. ASSUME NEW t \in Task, UnlockPlain(t) PROVE TypeOK'
  BY <1>16, IdleTyped DEF TypeOK, UnlockPlain, set_vault, invalidate_clients, Answer, files,
     TaskState, KeyOpt, Form, NoCache, NoClient, Client
<1>17. ASSUME NEW t \in Task, Lock(t) PROVE TypeOK'
  BY <1>17, IdleTyped DEF TypeOK, Lock, lock, Accept, set_vault, invalidate_clients, Answer, files,
     KeyOpt, NoCache, NoClient, Client
<1>18. ASSUME NEW t \in Task, Status(t) PROVE TypeOK'
  BY <1>18, IdleTyped DEF TypeOK, Status, lock, Accept, set_vault, invalidate_clients, Answer, files,
     daemon, KeyOpt, NoCache, NoClient, Client
<1>19. CASE RewriteKeys
  <2>1. PICK j \in {writes + 1, 0} :
          keys' = [keys EXCEPT ![mode].there = TRUE, ![mode].jwk = j, ![mode].mtime = writes + 1]
    BY <1>19 DEF RewriteKeys
  <2>2. j \in Nat /\ writes + 1 \in Nat /\ mode \in Form /\ keys[mode] \in KeyFile
    BY DEF TypeOK
  <2>3. [keys[mode] EXCEPT !.there = TRUE, !.jwk = j, !.mtime = writes + 1] \in KeyFile
    BY <2>2 DEF KeyFile
  <2>4. keys' \in [Form -> KeyFile]
    BY <2>1, <2>2, <2>3 DEF TypeOK
  <2> QED
    BY <1>19, <2>4 DEF TypeOK, RewriteKeys, Elsewhere, daemon
<1>20. CASE EditConfig
  BY <1>20 DEF TypeOK, EditConfig, Elsewhere, daemon
<1>21. CASE CopyKeys
  BY <1>21 DEF TypeOK, CopyKeys, Elsewhere, daemon, KeyFile, Other, KeyOpt, Form
<1>22. CASE FlipMode
  BY <1>22 DEF TypeOK, FlipMode, Elsewhere, daemon, Other, Form
<1>23. CASE DiscardStale
  BY <1>23 DEF TypeOK, DiscardStale, Elsewhere, daemon, KeyFile, Other, Form, KeyOpt, NoFile
<1>24. CASE AbandonChange
  BY <1>24 DEF TypeOK, AbandonChange, Elsewhere, daemon
<1>25. CASE IdleLock
  BY <1>25 DEF TypeOK, IdleLock, lock, set_vault, invalidate_clients, files, KeyOpt, NoCache,
     NoClient, Client
<1>26. CASE Restart
  BY <1>26, IdleTyped DEF TypeOK, Restart, files, KeyOpt, NoCache, NoClient, Client
<1>27. CASE UNCHANGED vars
  BY <1>27 DEF TypeOK, vars, files, daemon
<1> QED
  BY <1>1, <1>2, <1>3, <1>4, <1>5, <1>6, <1>7, <1>8, <1>9, <1>10, <1>11, <1>12, <1>13, <1>14,
     <1>15, <1>16, <1>17, <1>18, <1>19, <1>20, <1>21, <1>22, <1>23, <1>24, <1>25, <1>26, <1>27
     DEF Next, TokenStep, VaultRequest, OtherProcess

(* Type correctness of the agent, and with it the bound on refresh attempts. *)
THEOREM AgentTypeCorrect == Spec => []TypeOK
<1>1. Init => TypeOK
  BY IdleTyped DEF Init, TypeOK, Form, KeyFile, KeyOpt, NoFile, NoCache, NoClient, Client
<1> QED
  BY <1>1, TypeStep, PTL DEF Spec

-----------------------------------------------------------------------------
(* A step either leaves what builds and refreshes depend on alone or moves the
   generation; a file it replaces has an mtime no stamp can have. *)
Fenced == \/ generation' = generation /\ vault' = vault /\ cache' = cache
          \/ generation' = generation + 1
FilesMove ==
    /\ writes' >= writes
    /\ \A f \in Form : \/ keys'[f] = keys[f]
                       \/ keys'[f].there = FALSE /\ keys'[f].mtime = 0
                       \/ keys'[f].mtime = writes + 1 /\ writes' = writes + 1

(* A step of another task or process leaves what a task captured in order. *)
LEMMA OthersInOrder ==
  ASSUME TypeOK, TypeOK', CaptureInvariant, Fenced, FilesMove,
         NEW t \in Task, task'[t] = task[t]
  PROVE  CapturesOK(t)'
<1> DEFINE r == task[t]
<1>1. /\ r.stamp \in Int /\ r.gen \in Nat /\ r.form \in Form
      /\ writes \in Nat /\ writes' \in Nat /\ generation \in Nat
  BY TaskTyped DEF TypeOK
<1>2. CapturesOK(t) /\ \A f \in Form : keys[f].mtime <= writes
  BY DEF CaptureInvariant
<1>3. task'[t] = r
  OBVIOUS
<1> HIDE DEF r
<1>4. r.stamp <= writes' /\ r.gen <= generation'
  BY <1>1, <1>2 DEF CapturesOK, Fenced, FilesMove, r
<1>5. r.gen = generation' => generation' = generation /\ vault' = vault /\ cache' = cache
  BY <1>1, <1>2 DEF CapturesOK, Fenced, r
<1>6. /\ r.pc \in {"unlock_stat", "unlock_read", "unlock_set"} => r.form = "plain"
      /\ r.pc \in {"stat", "read", "install"} /\ r.gen = generation' => vault' = r.form
      /\ r.pc \in {"build_config", "publish"} /\ r.gen = generation'
             => vault' # "locked" /\ r.jwk = cache'.jwk
  BY <1>2, <1>5 DEF CapturesOK, r
<1>7. \/ keys'[r.form] = keys[r.form]
      \/ ~keys'[r.form].there
      \/ keys'[r.form].mtime = writes + 1
  BY <1>1 DEF FilesMove
<1>8. r.pc \in {"unlock_set", "install"} /\ keys'[r.form].there /\ r.stamp = keys'[r.form].mtime
           => r.jwk = keys'[r.form].jwk
  BY <1>1, <1>2, <1>7 DEF CapturesOK, r
<1> QED
  BY <1>3, <1>4, <1>6, <1>8 DEF CapturesOK

(* A task between two captures has nothing that can be out of order. *)
LEMMA EmptyInOrder ==
  ASSUME TypeOK', NEW t \in Task,
         task'[t].pc \notin {"stat", "read", "install", "build_config", "publish", "unlock_set"},
         task'[t].form = "plain", task'[t].stamp = -1, task'[t].gen = 0
  PROVE  CapturesOK(t)'
  BY DEF TypeOK, CapturesOK

(* What idling, answering, retrying and finishing a refresh leave of a task. *)
LEMMA EmptyTasks ==
  ASSUME NEW t \in Task, TypeOK,
         \/ Answer(t) \/ Refreshed(t) \/ Discarded(t) \/ \E c : AnswerWith(t, c)
  PROVE  /\ task'[t].pc \in {"idle", "answered", "lookup", "build", "peek"}
         /\ task'[t].form = "plain" /\ task'[t].stamp = -1 /\ task'[t].gen = 0
         /\ \A u \in Task \ {t} : task'[u] = task[u]
<1>1. CASE Answer(t)
  BY <1>1 DEF Answer, Idle, TypeOK
<1>2. CASE Refreshed(t)
  BY <1>2 DEF Refreshed, Idle, TypeOK
<1>3. CASE Discarded(t)
  <2>1. CASE task[t].tries + 1 = JWK_REFRESH_ATTEMPTS
    <3>1. Answer(t)
      BY <1>3, <2>1 DEF Discarded
    <3> QED
      BY <1>1, <3>1
  <2>2. CASE task[t].tries + 1 # JWK_REFRESH_ATTEMPTS
    <3>1. task' = [task EXCEPT ![t] =
                     [Idle EXCEPT !.pc = "peek", !.tries = task[t].tries + 1,
                                  !.round = task[t].round, !.begun = task[t].begun]]
      BY <1>3, <2>2 DEF Discarded
    <3> QED
      BY <3>1 DEF Idle, TypeOK
  <2> QED
    BY <2>1, <2>2
<1>4. ASSUME NEW c, AnswerWith(t, c)
      PROVE  /\ task'[t].pc \in {"idle", "answered", "lookup", "build", "peek"}
             /\ task'[t].form = "plain" /\ task'[t].stamp = -1 /\ task'[t].gen = 0
             /\ \A u \in Task \ {t} : task'[u] = task[u]
  BY <1>4 DEF AnswerWith, Idle, TypeOK
<1> QED
  BY <1>1, <1>2, <1>3, <1>4

(* Such a step keeps every task in order. *)
LEMMA EmptyStep ==
  ASSUME TypeOK, TypeOK', CaptureInvariant, Fenced, FilesMove, NEW t \in Task,
         \/ Answer(t) \/ Refreshed(t) \/ Discarded(t) \/ \E c : AnswerWith(t, c)
  PROVE  \A u \in Task : CapturesOK(u)'
<1>1. CapturesOK(t)'
  BY EmptyTasks, EmptyInOrder
<1> QED
  BY <1>1, EmptyTasks, OthersInOrder

(* The files' part of the invariant and the cached stamp's. *)
LEMMA StampStep ==
  ASSUME TypeOK, TypeOK', CaptureInvariant, FilesMove, cache' = cache, vault' = vault
  PROVE  /\ StampDescribesRead' /\ cache'.stamp <= writes'
         /\ \A f \in Form : keys'[f].mtime <= writes'
  BY DEF TypeOK, CaptureInvariant, FilesMove, StampDescribesRead, KeyFile

(* Leaving the files alone is a move of the files. *)
LEMMA FilesStill == ASSUME TypeOK, UNCHANGED files PROVE FilesMove
  BY DEF TypeOK, files, FilesMove

(* A step of a task that leaves the files and the daemon alone keeps the invariant
   if it leaves the task's own captures in order. *)
LEMMA QuietStep ==
  ASSUME TypeOK, TypeOK', CaptureInvariant, UNCHANGED <<files, daemon>>, NEW t \in Task,
         CapturesOK(t)', \A u \in Task \ {t} : task'[u] = task[u]
  PROVE  CaptureInvariant'
<1>1. FilesMove /\ Fenced
  BY FilesStill DEF daemon, Fenced
<1>2. \A u \in Task : CapturesOK(u)'
  BY <1>1, OthersInOrder
<1>3. CachedClientIsCurrent'
  BY DEF CaptureInvariant, CachedClientIsCurrent, daemon
<1> QED
  BY <1>1, <1>2, <1>3, StampStep DEF CaptureInvariant, daemon

(* A step that replaces the vault, and with it the cache and the clients. *)
LEMMA VaultStep ==
  ASSUME TypeOK, TypeOK', CaptureInvariant, UNCHANGED files,
         NEW v, NEW k, NEW c, set_vault(v, k, c),
         c.stamp <= writes,
         v # "locked" /\ keys[v].there /\ c.stamp = keys[v].mtime => c.jwk = keys[v].jwk,
         \A u \in Task : task'[u] = task[u] \/ task'[u] = Idle
  PROVE  CaptureInvariant'
<1>1. FilesMove /\ Fenced
  BY FilesStill DEF set_vault, invalidate_clients, Fenced
<1>2. ASSUME NEW u \in Task PROVE CapturesOK(u)'
  <2>1. CASE task'[u] = task[u]
    BY <1>1, <2>1, OthersInOrder
  <2>2. CASE task'[u] = Idle
    BY <2>2, EmptyInOrder DEF Idle
  <2> QED
    BY <2>1, <2>2
<1>3. CachedClientIsCurrent' /\ StampDescribesRead' /\ cache'.stamp <= writes'
  BY DEF set_vault, invalidate_clients, CachedClientIsCurrent, StampDescribesRead, files
<1>4. \A f \in Form : keys'[f].mtime <= writes'
  BY DEF CaptureInvariant, files
<1> QED
  BY <1>2, <1>3, <1>4 DEF CaptureInvariant

(* A step of another process: only files change. *)
LEMMA FilesStep ==
  ASSUME TypeOK, TypeOK', CaptureInvariant, FilesMove, UNCHANGED <<daemon, task>>
  PROVE  CaptureInvariant'
<1>1. Fenced
  BY DEF Fenced, daemon
<1>2. \A u \in Task : CapturesOK(u)'
  BY <1>1, OthersInOrder
<1>3. CachedClientIsCurrent'
  BY DEF CaptureInvariant, CachedClientIsCurrent, daemon
<1> QED
  BY <1>2, <1>3, StampStep DEF CaptureInvariant, daemon

(* Every step keeps the invariant. *)
LEMMA CaptureInvariantStep ==
  ASSUME TypeOK, TypeOK', CaptureInvariant, [Next]_vars PROVE CaptureInvariant'
<1>1. ASSUME NEW t \in Task, StartToken(t) PROVE CaptureInvariant'
  <2>1. UNCHANGED <<files, daemon>>
    BY <1>1 DEF StartToken
  <2>2. CASE Answer(t)
    BY <2>1, <2>2, EmptyTasks, EmptyInOrder, QuietStep
  <2>3. CASE ~Answer(t)
    <3>1. /\ task'[t] = [Idle EXCEPT !.pc = "config", !.begun = Now]
          /\ \A u \in Task \ {t} : task'[u] = task[u]
      BY <1>1, <2>3 DEF StartToken, FirstStep, TypeOK
    <3>2. /\ task'[t].pc = "config" /\ task'[t].form = "plain"
          /\ task'[t].stamp = -1 /\ task'[t].gen = 0
      BY <3>1 DEF Idle
    <3> QED
      BY <2>1, <3>1, <3>2, EmptyInOrder, QuietStep
  <2> QED
    BY <2>2, <2>3
<1>2. ASSUME NEW t \in Task, ReadConfig(t) PROVE CaptureInvariant'
  <2>1. /\ UNCHANGED <<files, daemon>> /\ \A u \in Task \ {t} : task'[u] = task[u]
        /\ task'[t] = [task[t] EXCEPT !.pc = "stamp", !.bytes = config]
    BY <1>2 DEF TypeOK, ReadConfig
  <2>2. CapturesOK(t)'
    BY <2>1, TaskTyped DEF CaptureInvariant, CapturesOK, TaskState, files, daemon
  <2> QED
    BY <2>1, <2>2, QuietStep
<1>3. ASSUME NEW t \in Task, refresh_config_stamp(t) PROVE CaptureInvariant'
  <2>1. /\ UNCHANGED files /\ vault' = vault /\ cache' = cache
        /\ task'[t] = [task[t] EXCEPT !.pc = "peek", !.bytes = 0]
        /\ \A u \in Task \ {t} : task'[u] = task[u]
    BY <1>3 DEF TypeOK, refresh_config_stamp
  <2>2. FilesMove /\ Fenced
    BY <1>3, <2>1, FilesStill DEF refresh_config_stamp, invalidate_clients, Fenced
  <2>3. generation' >= generation
    BY <2>2 DEF Fenced, TypeOK
  <2>4. CapturesOK(t)'
    BY <2>1, <2>3, TaskTyped DEF TypeOK, CaptureInvariant, CapturesOK, TaskState, files
  <2>5. CachedClientIsCurrent'
    BY <1>3 DEF refresh_config_stamp, invalidate_clients, CaptureInvariant, CachedClientIsCurrent
  <2> QED
    BY <2>1, <2>2, <2>4, <2>5, OthersInOrder, StampStep DEF CaptureInvariant
<1>4. ASSUME NEW t \in Task, PeekVault(t) PROVE CaptureInvariant'
  <2>1. UNCHANGED <<files, daemon>>
    BY <1>4 DEF PeekVault
  <2>2. CASE Answer(t)
    BY <2>1, <2>2, EmptyTasks, EmptyInOrder, QuietStep
  <2>3. CASE AfterPeek(t) /\ vault # "locked"
    <3>1. /\ task'[t].pc = "stat" /\ task'[t].form = vault /\ task'[t].gen = generation
          /\ task'[t].stamp = task[t].stamp
          /\ \A u \in Task \ {t} : task'[u] = task[u]
      BY <2>3, TaskTyped DEF AfterPeek, TypeOK, TaskState
    <3>2. CapturesOK(t)'
      BY <2>1, <3>1 DEF CaptureInvariant, CapturesOK, TypeOK, files, daemon
    <3> QED
      BY <2>1, <3>1, <3>2, QuietStep
  <2> QED
    BY <1>4, <2>2, <2>3 DEF PeekVault
<1>5. ASSUME NEW t \in Task, StatKeys(t) PROVE CaptureInvariant'
  <2>1. UNCHANGED <<files, daemon>>
    BY <1>5 DEF StatKeys
  <2>2. CASE Refreshed(t)
    BY <2>1, <2>2, EmptyTasks, EmptyInOrder, QuietStep
  <2>3. ASSUME NEW m \in {0, keys[task[t].form].mtime}, AfterStat(t, m) PROVE CaptureInvariant'
    <3>1. /\ task'[t] = [task[t] EXCEPT !.pc = "read", !.stamp = m]
          /\ \A u \in Task \ {t} : task'[u] = task[u]
      BY <2>3 DEF AfterStat, TypeOK
    <3>2. m <= writes
      BY TaskTyped DEF TypeOK, CaptureInvariant
    <3>3. CapturesOK(t)'
      BY <1>5, <2>1, <3>1, <3>2, TaskTyped
         DEF CaptureInvariant, CapturesOK, StatKeys, At, TaskState, files, daemon
    <3> QED
      BY <2>1, <3>1, <3>3, QuietStep
  <2> QED
    BY <1>5, <2>2, <2>3 DEF StatKeys
<1>6. ASSUME NEW t \in Task, ReadKeys(t) PROVE CaptureInvariant'
  <2>1. UNCHANGED <<files, daemon>>
    BY <1>6 DEF ReadKeys
  <2>2. CASE Answer(t)
    BY <2>1, <2>2, EmptyTasks, EmptyInOrder, QuietStep
  <2>3. CASE ~Answer(t)
    <3>1. /\ task'[t] = [task[t] EXCEPT !.pc = "install", !.jwk = keys[task[t].form].jwk]
          /\ \A u \in Task \ {t} : task'[u] = task[u]
      BY <1>6, <2>3 DEF ReadKeys, TypeOK
    <3>2. CapturesOK(t)'
      BY <1>6, <2>1, <3>1, TaskTyped
         DEF CaptureInvariant, CapturesOK, ReadKeys, At, TaskState, files, daemon
    <3> QED
      BY <2>1, <3>1, <3>2, QuietStep
  <2> QED
    BY <2>2, <2>3
<1>7. ASSUME NEW t \in Task, install_jwks(t) PROVE CaptureInvariant'
  <2>1. UNCHANGED files /\ UNCHANGED <<vault, dek, config_stamp>>
    BY <1>7 DEF install_jwks
  <2>2. FilesMove /\ Fenced
    BY <1>7, <2>1, FilesStill DEF install_jwks, invalidate_clients, Fenced
  <2>3. \A u \in Task : CapturesOK(u)'
    BY <1>7, <2>2, EmptyStep DEF install_jwks
  <2>4. CASE UNCHANGED <<cache, client, generation>>
    <3>1. CachedClientIsCurrent'
      BY <2>1, <2>4 DEF CaptureInvariant, CachedClientIsCurrent
    <3> QED
      BY <2>1, <2>2, <2>3, <2>4, <3>1, StampStep DEF CaptureInvariant
  <2>5. CASE ~UNCHANGED <<cache, client, generation>>
    <3>1. /\ generation = task[t].gen /\ client' = NoClient
          /\ cache' = [jwk |-> task[t].jwk, stamp |-> task[t].stamp]
      BY <1>7, <2>5 DEF install_jwks, invalidate_clients
    <3>2. vault = task[t].form /\ task[t].stamp <= writes
      BY <1>7, <3>1 DEF install_jwks, At, CaptureInvariant, CapturesOK
    <3>3. keys[vault].there /\ task[t].stamp = keys[vault].mtime => task[t].jwk = keys[vault].jwk
      BY <1>7, <3>2 DEF install_jwks, At, CaptureInvariant, CapturesOK
    <3>4. CachedClientIsCurrent' /\ StampDescribesRead' /\ cache'.stamp <= writes'
      BY <2>1, <3>1, <3>2, <3>3 DEF CachedClientIsCurrent, StampDescribesRead, files
    <3> QED
      BY <2>1, <2>3, <3>4 DEF CaptureInvariant, files
  <2> QED
    BY <2>4, <2>5
<1>8. ASSUME NEW t \in Task, Lookup(t) PROVE CaptureInvariant'
  <2>1. UNCHANGED <<files, daemon>>
    BY <1>8 DEF Lookup
  <2>2. CASE Answer(t) \/ AnswerWith(t, client)
    BY <2>1, <2>2, EmptyTasks, EmptyInOrder, QuietStep
  <2>3. CASE ~Answer(t) /\ ~AnswerWith(t, client)
    <3>1. /\ task'[t] = [task[t] EXCEPT !.pc = "config", !.round = 2]
          /\ \A u \in Task \ {t} : task'[u] = task[u]
      BY <1>8, <2>3 DEF Lookup, TypeOK
    <3>2. CapturesOK(t)'
      BY <2>1, <3>1, TaskTyped DEF CaptureInvariant, CapturesOK, TaskState, files, daemon
    <3> QED
      BY <2>1, <3>1, <3>2, QuietStep
  <2> QED
    BY <2>2, <2>3
<1>9. ASSUME NEW t \in Task, Build(t) PROVE CaptureInvariant'
  <2>1. UNCHANGED <<files, daemon>>
    BY <1>9 DEF Build
  <2>2. CASE Answer(t)
    BY <2>1, <2>2, EmptyTasks, EmptyInOrder, QuietStep
  <2>3. CASE ~Answer(t)
    <3>1. /\ task'[t] = [task[t] EXCEPT !.pc = "build_config", !.jwk = cache.jwk,
                                        !.gen = generation]
          /\ \A u \in Task \ {t} : task'[u] = task[u]
          /\ vault # "locked"
      BY <1>9, <2>3 DEF Build, TypeOK
    <3>2. CapturesOK(t)'
      BY <2>1, <3>1, TaskTyped DEF TypeOK, CaptureInvariant, CapturesOK, TaskState, files, daemon
    <3> QED
      BY <2>1, <3>1, <3>2, QuietStep
  <2> QED
    BY <2>2, <2>3
<1>10. ASSUME NEW t \in Task, ReadTenant(t) PROVE CaptureInvariant'
  <2>1. UNCHANGED <<files, daemon>>
    BY <1>10 DEF ReadTenant
  <2>2. CASE Answer(t)
    BY <2>1, <2>2, EmptyTasks, EmptyInOrder, QuietStep
  <2>3. CASE ~Answer(t)
    <3>1. /\ task'[t] = [task[t] EXCEPT !.pc = "publish", !.bytes = config]
          /\ \A u \in Task \ {t} : task'[u] = task[u]
      BY <1>10, <2>3 DEF ReadTenant, TypeOK
    <3>2. CapturesOK(t)'
      BY <1>10, <2>1, <3>1, TaskTyped
         DEF CaptureInvariant, CapturesOK, ReadTenant, At, TaskState, files, daemon
    <3> QED
      BY <2>1, <3>1, <3>2, QuietStep
  <2> QED
    BY <2>2, <2>3
<1>11. ASSUME NEW t \in Task, publish(t) PROVE CaptureInvariant'
  <2>1. UNCHANGED files /\ UNCHANGED <<vault, cache, config_stamp, generation>>
    BY <1>11 DEF publish
  <2>2. FilesMove /\ Fenced
    BY <2>1, FilesStill DEF Fenced
  <2>3. \A u \in Task : CapturesOK(u)'
    BY <1>11, <2>2, EmptyStep DEF publish
  <2>4. CachedClientIsCurrent'
    <3>1. CASE ~may_publish(t)
      BY <1>11, <2>1, <3>1 DEF publish, CaptureInvariant, CachedClientIsCurrent
    <3>2. CASE may_publish(t)
      <4>1. client' = [jwk |-> task[t].jwk, config |-> config_stamp]
        BY <1>11, <3>2 DEF publish, may_publish
      <4>2. vault # "locked" /\ task[t].jwk = cache.jwk
        BY <1>11, <3>2 DEF publish, may_publish, At, CaptureInvariant, CapturesOK
      <4> QED
        BY <2>1, <4>1, <4>2 DEF CachedClientIsCurrent
    <3> QED
      BY <3>1, <3>2
  <2> QED
    BY <2>1, <2>2, <2>3, <2>4, StampStep DEF CaptureInvariant
<1>12. ASSUME NEW t \in Task, PutDek(t) PROVE CaptureInvariant'
  <2>1. UNCHANGED files /\ task'[t] = Idle /\ \A u \in Task \ {t} : task'[u] = task[u]
    BY <1>12 DEF PutDek, Answer, TypeOK
  <2>2. ASSUME NEW k \in Key, set_vault("enc", k, NoCache) PROVE CaptureInvariant'
    <3>1. NoCache.stamp <= writes /\ NoCache.stamp # keys["enc"].mtime
      BY DEF NoCache, TypeOK, KeyFile, Form
    <3> QED
      BY <2>1, <2>2, <3>1, VaultStep
  <2>3. CASE UNCHANGED daemon
    BY <2>1, <2>3, EmptyInOrder, QuietStep DEF Idle
  <2> QED
    BY <1>12, <2>2, <2>3 DEF PutDek
<1>13. ASSUME NEW t \in Task, SendUnlockPlain(t) PROVE CaptureInvariant'
  <2>1. /\ UNCHANGED <<files, daemon>> /\ \A u \in Task \ {t} : task'[u] = task[u]
        /\ task'[t].pc = "unlock_stat" /\ task'[t].form = "plain"
        /\ task'[t].stamp = -1 /\ task'[t].gen = 0
    BY <1>13 DEF SendUnlockPlain, Idle, TypeOK
  <2> QED
    BY <2>1, EmptyInOrder, QuietStep
<1>14. ASSUME NEW t \in Task, StatPlain(t) PROVE CaptureInvariant'
  <2> DEFINE modified == IF keys["plain"].there THEN keys["plain"].mtime ELSE -1
  <2>1. /\ UNCHANGED <<files, daemon>> /\ \A u \in Task \ {t} : task'[u] = task[u]
        /\ task'[t] = [task[t] EXCEPT !.pc = "unlock_read", !.stamp = modified]
    BY <1>14 DEF StatPlain, TypeOK
  <2>2. modified <= writes
    BY DEF TypeOK, CaptureInvariant, Form, KeyFile
  <2> HIDE DEF modified
  <2>3. CapturesOK(t)'
    <3>1. task[t].form = "plain" /\ task[t].gen <= generation
      BY <1>14 DEF StatPlain, At, CaptureInvariant, CapturesOK
    <3>2. /\ task'[t].pc = "unlock_read" /\ task'[t].stamp = modified
          /\ task'[t].form = "plain" /\ task'[t].gen <= generation
      BY <2>1, <3>1, TaskTyped DEF TaskState
    <3> QED
      BY <2>1, <2>2, <3>2 DEF CapturesOK, files, daemon
  <2> QED
    BY <2>1, <2>3, QuietStep
<1>15. ASSUME NEW t \in Task, ReadPlain(t) PROVE CaptureInvariant'
  <2>1. UNCHANGED <<files, daemon>>
    BY <1>15 DEF ReadPlain
  <2>2. CASE Answer(t)
    BY <2>1, <2>2, EmptyTasks, EmptyInOrder, QuietStep
  <2>3. CASE ~Answer(t)
    <3>1. /\ task'[t] = [task[t] EXCEPT !.pc = "unlock_set", !.jwk = keys["plain"].jwk]
          /\ \A u \in Task \ {t} : task'[u] = task[u]
      BY <1>15, <2>3 DEF ReadPlain, TypeOK
    <3>2. CapturesOK(t)'
      BY <1>15, <2>1, <3>1, TaskTyped
         DEF CaptureInvariant, CapturesOK, ReadPlain, At, TaskState, files, daemon
    <3> QED
      BY <2>1, <3>1, <3>2, QuietStep
  <2> QED
    BY <2>2, <2>3
<1>16. ASSUME NEW t \in Task, UnlockPlain(t) PROVE CaptureInvariant'
  <2> DEFINE loaded == IF task[t].stamp = -1 THEN NoCache
                       ELSE [jwk |-> task[t].jwk, stamp |-> task[t].stamp]
  <2>1. /\ UNCHANGED files /\ task'[t] = Idle /\ \A u \in Task \ {t} : task'[u] = task[u]
        /\ set_vault("plain", NoKey, loaded)
    BY <1>16 DEF UnlockPlain, Answer, TypeOK
  <2>2. /\ task[t].stamp <= writes
        /\ keys["plain"].there /\ task[t].stamp = keys["plain"].mtime
              => task[t].jwk = keys["plain"].jwk
    BY <1>16 DEF UnlockPlain, At, CaptureInvariant, CapturesOK
  <2>3. /\ loaded.stamp <= writes
        /\ keys["plain"].there /\ loaded.stamp = keys["plain"].mtime
              => loaded.jwk = keys["plain"].jwk
    BY <2>2 DEF NoCache, TypeOK, KeyFile, Form
  <2> HIDE DEF loaded
  <2> QED
    BY <2>1, <2>3, VaultStep
<1>17. NoCache.stamp <= writes
  BY DEF NoCache, TypeOK
<1>18. ASSUME NEW t \in Task, Lock(t) PROVE CaptureInvariant'
  <2>1. UNCHANGED files /\ lock /\ task'[t] = Idle /\ \A u \in Task \ {t} : task'[u] = task[u]
    BY <1>18 DEF Lock, Answer, TypeOK
  <2> QED
    BY <1>17, <2>1, VaultStep DEF lock
<1>19. ASSUME NEW t \in Task, Status(t) PROVE CaptureInvariant'
  <2>1. UNCHANGED files /\ task'[t] = Idle /\ \A u \in Task \ {t} : task'[u] = task[u]
    BY <1>19 DEF Status, Answer, TypeOK
  <2>2. CASE lock
    BY <1>17, <2>1, <2>2, VaultStep DEF lock
  <2>3. CASE UNCHANGED daemon
    BY <2>1, <2>3, EmptyInOrder, QuietStep DEF Idle
  <2> QED
    BY <1>19, <2>2, <2>3 DEF Status
<1>20. CASE IdleLock
  BY <1>17, <1>20, VaultStep DEF IdleLock, lock
<1>21. CASE Restart
  <2>1. UNCHANGED files /\ cache' = NoCache /\ client' = NoClient /\ vault' = "locked"
    BY <1>21 DEF Restart
  <2>2. \A u \in Task : CapturesOK(u)'
    BY <1>21, EmptyInOrder DEF Restart, Idle
  <2> QED
    BY <1>17, <2>1, <2>2 DEF CaptureInvariant, CachedClientIsCurrent, StampDescribesRead, files
<1>22. CASE RewriteKeys
  <2>1. FilesMove
    BY <1>22 DEF RewriteKeys, FilesMove, TypeOK, KeyFile
  <2> QED
    BY <1>22, <2>1, FilesStep DEF RewriteKeys, Elsewhere
<1>23. CASE EditConfig
  <2>1. FilesMove
    BY <1>23 DEF EditConfig, FilesMove, TypeOK
  <2> QED
    BY <1>23, <2>1, FilesStep DEF EditConfig, Elsewhere
<1>24. CASE CopyKeys
  <2>1. FilesMove
    BY <1>24 DEF CopyKeys, FilesMove, TypeOK, KeyFile
  <2> QED
    BY <1>24, <2>1, FilesStep DEF CopyKeys, Elsewhere
<1>25. CASE FlipMode
  <2>1. FilesMove
    BY <1>25 DEF FlipMode, FilesMove, TypeOK
  <2> QED
    BY <1>25, <2>1, FilesStep DEF FlipMode, Elsewhere
<1>26. CASE DiscardStale
  <2>1. FilesMove
    BY <1>26 DEF DiscardStale, FilesMove, TypeOK, NoFile
  <2> QED
    BY <1>26, <2>1, FilesStep DEF DiscardStale, Elsewhere
<1>27. CASE AbandonChange
  <2>1. FilesMove
    BY <1>27 DEF AbandonChange, FilesMove, TypeOK
  <2> QED
    BY <1>27, <2>1, FilesStep DEF AbandonChange, Elsewhere
<1>28. CASE UNCHANGED vars
  BY <1>28, FilesStill, FilesStep DEF vars
<1> QED
  BY <1>1, <1>2, <1>3, <1>4, <1>5, <1>6, <1>7, <1>8, <1>9, <1>10, <1>11, <1>12, <1>13, <1>14,
     <1>15, <1>16, <1>18, <1>19, <1>20, <1>21, <1>22, <1>23, <1>24, <1>25, <1>26, <1>27, <1>28
     DEF Next, TokenStep, VaultRequest, OtherProcess

(* The agent's inductive invariant holds in every reachable state. *)
THEOREM CaptureInvariantHolds == Spec => []CaptureInvariant
<1>1. Init => CaptureInvariant
  <2> SUFFICES ASSUME Init PROVE CaptureInvariant
    OBVIOUS
  <2>1. \A f \in Form : keys[f].mtime <= writes
    BY DEF Init, NoFile
  <2>2. ASSUME NEW t \in Task PROVE CapturesOK(t)
    <3>1. /\ task[t].pc = "idle" /\ task[t].stamp = -1 /\ task[t].gen = 0
          /\ writes = 1 /\ generation = 0
      BY DEF Init, Idle
    <3> QED
      BY <3>1 DEF CapturesOK
  <2> QED
    BY <2>1, <2>2 DEF Init, CaptureInvariant, CachedClientIsCurrent, StampDescribesRead, NoCache
<1>2. TypeOK /\ TypeOK' /\ CaptureInvariant /\ [Next]_vars => CaptureInvariant'
  BY CaptureInvariantStep
<1> QED
  BY <1>1, <1>2, AgentTypeCorrect, PTL DEF Spec

(* For any number of connections and changes, a cached client is always the one
   the daemon's own key and config stamp give. *)
THEOREM CachedClientsCurrent == Spec => []CachedClientIsCurrent
<1>1. CaptureInvariant => CachedClientIsCurrent
  BY DEF CaptureInvariant
<1> QED
  BY <1>1, CaptureInvariantHolds, PTL

(* For any number of connections and changes, a cached key the file no longer
   holds is one the next stat of the file questions. *)
THEOREM StampsDescribeReads == Spec => []StampDescribesRead
<1>1. CaptureInvariant => StampDescribesRead
  BY DEF CaptureInvariant
<1> QED
  BY <1>1, CaptureInvariantHolds, PTL

-----------------------------------------------------------------------------
(* What a request is served. *)

(* The files only move forward; while no upheaval is counted the vault keeps its
   form, and its map is replaced by one a fenced refresh read. *)
WorldMove ==
    /\ writes' >= writes
    /\ \/ config' = config
       \/ writes' = writes + 1 /\ config' \in {writes + 1, -(writes + 1), 0}
    /\ \/ upheavals' = upheavals + 1
       \/ /\ upheavals' = upheavals /\ mode' = mode
          /\ \/ keys'[mode] = keys[mode]
             \/ /\ writes' = writes + 1 /\ keys'[mode].mtime = writes + 1
                /\ keys'[mode].jwk \in {0, writes + 1}
          /\ \/ vault' = vault /\ cache' = cache
             \/ vault' = "locked"
             \/ /\ vault' = vault
                /\ \E u \in Task : /\ At(u, "install") /\ task[u].gen = generation
                                   /\ cache' = [jwk |-> task[u].jwk, stamp |-> task[u].stamp]
          /\ \A u \in Task : task'[u].pc = "install"
                => task'[u] = task[u] \/ task'[u].jwk = keys[task'[u].form].jwk

(* The cached client stays, goes, or is one a task may publish; only a task that
   has just read a config that lists the tenant comes to publish. *)
ClientMove ==
    /\ \/ client' \in {client, NoClient}
       \/ \E u \in Task : At(u, "publish") /\ may_publish(u) /\ client'.config = task[u].bytes
    /\ \A u \in Task : At(u, "publish")' /\ may_publish(u)'
          => \/ At(u, "publish") /\ may_publish(u) /\ task'[u] = task[u]
             \/ config > 0 /\ task'[u].bytes = config

(* The fields of what a request noted when it began. *)
LEMMA BegunTyped ==
  ASSUME TypeOK, NEW t \in Task
  PROVE  /\ task[t].begun.jwk \in Nat /\ task[t].begun.mtime \in Nat
         /\ task[t].begun.config \in Nat /\ task[t].begun.upheavals \in Nat
         /\ task[t].begun.settled \in BOOLEAN
         /\ task[t].served.jwk \in Nat /\ task[t].served.config \in Int
  BY DEF TypeOK, TaskState, Request, Client

(* The daemon's state and the files of a well-typed state. *)
LEMMA WorldTyped ==
  ASSUME TypeOK
  PROVE  /\ writes \in Nat /\ config \in Int /\ upheavals \in Nat /\ generation \in Nat
         /\ cache.jwk \in Nat /\ cache.stamp \in Nat \cup {-1} /\ mode \in Form
         /\ client.config \in Int /\ client.jwk \in Nat /\ config_stamp \in Int
         /\ \A f \in Form : keys[f].jwk \in Nat /\ keys[f].mtime \in Nat
         /\ vault \in Form \cup {"locked"}
<1>1. cache.jwk \in Nat /\ cache.stamp \in Nat \cup {-1}
  BY DEF TypeOK
<1>2. client.config \in Int /\ client.jwk \in Nat
  BY DEF TypeOK, Client
<1>3. \A f \in Form : keys[f].jwk \in Nat /\ keys[f].mtime \in Nat
  BY DEF TypeOK, KeyFile
<1> QED
  BY <1>1, <1>2, <1>3 DEF TypeOK

(* A step of another task or process leaves what a refresh relies on in order. *)
LEMMA RefreshKept ==
  ASSUME TypeOK, TypeOK', AgentInvariant, Fenced, FilesMove, NEW t \in Task, task'[t] = task[t]
  PROVE  RefreshOK(t)'
<1>1. /\ RefreshOK(t) /\ task[t].stamp <= writes /\ task[t].gen <= generation
  BY DEF AgentInvariant, CaptureInvariant, CapturesOK
<1>2. task[t].gen = generation' => generation' = generation /\ cache' = cache
  BY <1>1, TaskTyped, WorldTyped DEF Fenced
<1>3. /\ writes' >= writes
      /\ keys'[task[t].form].there => \/ keys'[task[t].form] = keys[task[t].form]
                                      \/ keys'[task[t].form].mtime = writes + 1
  BY TaskTyped DEF FilesMove
<1> QED
  BY <1>1, <1>2, <1>3, TaskTyped, WorldTyped DEF RefreshOK, TypeOK

(* While nothing invalidates, what is installed is no older than what it replaces. *)
LEMMA InstallIsLater ==
  ASSUME TypeOK, AgentInvariant, NEW u \in Task, At(u, "install"), task[u].gen = generation
  PROVE  cache.stamp <= task[u].stamp /\ task[u].form = vault
  BY DEF AgentInvariant, RefreshOK, CaptureInvariant, CapturesOK, At

(* What a request that is still the same can count on survives every step. *)
LEMMA WorldKept ==
  ASSUME TypeOK, TypeOK', AgentInvariant, WorldMove, NEW t \in Task,
         task'[t].begun = task[t].begun
  PROVE  WorldSince(t)'
<1> DEFINE b == task[t].begun
<1>1. WorldSince(t) /\ \A f \in Form : keys[f].mtime <= writes
  BY DEF AgentInvariant, CaptureInvariant
<1>2. /\ b.config <= writes' + 1 /\ b.jwk <= writes' + 1 /\ b.upheavals <= upheavals'
      /\ config' > 0 => b.config <= config'
  BY <1>1, BegunTyped, WorldTyped DEF WorldSince, WorldMove, TypeOK
<1>3. ASSUME Undisturbed(t)'
      PROVE  /\ vault' \in {mode', "locked"}
             /\ b.mtime <= keys'[mode'].mtime /\ SinceBegun(t, keys[mode].jwk)'
             /\ \A u \in Task :
                   (At(u, "install") /\ task[u].form = mode /\ b.mtime <= task[u].stamp)'
                      => SinceBegun(t, task[u].jwk)'
             /\ vault' # "locked" /\ b.mtime <= cache'.stamp => SinceBegun(t, cache.jwk)'
  <2>1. upheavals' = upheavals /\ Undisturbed(t) /\ mode' = mode
    BY <1>1, <1>3, BegunTyped, WorldTyped DEF Undisturbed, WorldMove, WorldSince
  <2>2. vault' \in {mode', "locked"}
    BY <1>1, <2>1, WorldTyped DEF WorldMove, WorldSince
  <2>3. b.mtime <= keys'[mode'].mtime /\ SinceBegun(t, keys[mode].jwk)'
    <3>1. b.mtime <= keys[mode].mtime /\ keys[mode].mtime <= writes /\ b.jwk <= writes + 1
      BY <1>1, <2>1, WorldTyped DEF WorldSince
    <3>2. CASE keys'[mode] = keys[mode]
      BY <1>1, <2>1, <3>1, <3>2 DEF WorldSince, SinceBegun
    <3>3. CASE keys'[mode].mtime = writes + 1 /\ keys'[mode].jwk \in {0, writes + 1}
      BY <2>1, <3>1, <3>3, BegunTyped, WorldTyped DEF SinceBegun
    <3> QED
      BY <2>1, <3>2, <3>3, WorldTyped DEF WorldMove
  <2>4. ASSUME NEW u \in Task,
               (At(u, "install") /\ task[u].form = mode /\ b.mtime <= task[u].stamp)'
        PROVE  SinceBegun(t, task[u].jwk)'
    <3>1. task'[u] = task[u] \/ task'[u].jwk = keys[mode].jwk
      BY <2>1, <2>4, WorldTyped DEF WorldMove, At
    <3> QED
      BY <1>1, <2>1, <2>4, <3>1, BegunTyped DEF WorldSince, SinceBegun, At
  <2>5. ASSUME vault' # "locked", b.mtime <= cache'.stamp PROVE SinceBegun(t, cache.jwk)'
    <3>1. CASE vault' = vault /\ cache' = cache
      BY <1>1, <2>1, <2>5, <3>1 DEF WorldSince, SinceBegun
    <3>2. ASSUME NEW u \in Task, At(u, "install"), task[u].gen = generation, vault' = vault,
                 cache' = [jwk |-> task[u].jwk, stamp |-> task[u].stamp]
          PROVE  SinceBegun(t, cache.jwk)'
      <4>1. task[u].form = mode
        BY <2>1, <2>2, <2>5, <3>2, InstallIsLater
      <4> QED
        BY <1>1, <2>1, <2>5, <3>2, <4>1 DEF WorldSince, SinceBegun
    <3> QED
      BY <2>1, <2>5, <3>1, <3>2, WorldTyped DEF WorldMove
  <2> QED
    BY <2>2, <2>3, <2>4, <2>5
<1> QED
  BY <1>2, <1>3 DEF WorldSince

(* An undisturbed request that goes on was undisturbed before, in the same form, and
   the daemon's map was not replaced by an earlier one. *)
LEMMA UndisturbedBefore ==
  ASSUME TypeOK, TypeOK', AgentInvariant, WorldMove, NEW t \in Task,
         task'[t].begun = task[t].begun, Undisturbed(t)'
  PROVE  /\ Undisturbed(t) /\ mode' = mode
         /\ vault' # "locked" => vault' = vault /\ cache.stamp <= cache'.stamp
<1>1. upheavals' = upheavals /\ Undisturbed(t) /\ mode' = mode
  BY BegunTyped, WorldTyped DEF Undisturbed, WorldMove, WorldSince, AgentInvariant
<1>2. ASSUME vault' # "locked" PROVE vault' = vault /\ cache.stamp <= cache'.stamp
  <2>1. ASSUME NEW u \in Task, At(u, "install"), task[u].gen = generation,
               cache' = [jwk |-> task[u].jwk, stamp |-> task[u].stamp]
        PROVE  cache.stamp <= cache'.stamp
    BY <2>1, InstallIsLater
  <2>2. cache' = cache => cache.stamp <= cache'.stamp
    BY WorldTyped
  <2> QED
    BY <1>1, <1>2, <2>1, <2>2, WorldTyped DEF WorldMove
<1> QED
  BY <1>1, <1>2

(* The clients a request past its config stamp can meet stay fresh. *)
LEMMA ClientsKept ==
  ASSUME TypeOK, TypeOK', AgentInvariant, ClientMove, NEW t \in Task,
         task'[t].begun = task[t].begun,
         task[t].pc \in {"peek", "stat", "read", "install", "lookup"}
  PROVE  /\ client' # NoClient => task[t].begun.config <= client'.config
         /\ \A u \in Task : At(u, "publish")' /\ may_publish(u)'
               => task[t].begun.config <= task'[u].bytes
<1>1. /\ client # NoClient => task[t].begun.config <= client.config
      /\ \A u \in Task : At(u, "publish") /\ may_publish(u) => task[t].begun.config <= task[u].bytes
      /\ config > 0 => task[t].begun.config <= config
  BY DEF AgentInvariant, ConfigFresh, WorldSince
<1> QED
  BY <1>1 DEF ClientMove

(* A task that does not step keeps its part of the invariant. *)
LEMMA TaskKept ==
  ASSUME TypeOK, TypeOK', AgentInvariant, Fenced, FilesMove, WorldMove, ClientMove,
         NEW t \in Task, task'[t] = task[t]
  PROVE  (RefreshOK(t) /\ WorldSince(t) /\ ConfigFresh(t) /\ KeyFresh(t))'
<1>1. RefreshOK(t)' /\ WorldSince(t)'
  BY RefreshKept, WorldKept
<1>2. ConfigFresh(t)'
  <2>1. ConfigFresh(t)
    BY DEF AgentInvariant
  <2> QED
    BY <2>1, ClientsKept DEF ConfigFresh, Answered
<1>3. KeyFresh(t)'
  <2> SUFFICES ASSUME Undisturbed(t)' PROVE KeyFresh(t)'
    BY DEF KeyFresh
  <2>1. /\ Undisturbed(t) /\ mode' = mode /\ KeyFresh(t)
        /\ vault' # "locked" => vault' = vault /\ cache.stamp <= cache'.stamp
    BY UndisturbedBefore DEF AgentInvariant
  <2>2. cache'.stamp \in Nat \cup {-1}
    BY DEF TypeOK
  <2> QED
    BY <2>1, <2>2, TaskTyped, BegunTyped, WorldTyped DEF KeyFresh, Answered
<1> QED
  BY <1>1, <1>2, <1>3

(* The part of the invariant that is about the task that steps. *)
OwnFresh(t) == RefreshOK(t) /\ ConfigFresh(t) /\ KeyFresh(t)

(* A task between requests, or at the start of one, claims nothing of its own. *)
LEMMA OutsideRequest ==
  ASSUME TypeOK', NEW t \in Task,
         task'[t].pc \in {"idle", "config"}, task'[t].known = -1
  PROVE  OwnFresh(t)'
  BY DEF OwnFresh, RefreshOK, ConfigFresh, KeyFresh, Answered, TypeOK

(* A task that has begun no request counts on nothing. *)
LEMMA NothingBegun ==
  ASSUME TypeOK', NEW t \in Task, task'[t].begun = Never
  PROVE  WorldSince(t)'
<1>1. /\ task'[t].begun.config = 0 /\ task'[t].begun.jwk = 0 /\ task'[t].begun.upheavals = 0
  BY DEF Never
<1>2. writes' \in Nat /\ config' \in Int /\ upheavals' \in Nat
  BY DEF TypeOK
<1>3. 0 <= upheavals' /\ (config' > 0 => 0 <= config')
  BY <1>2
<1>4. 0 <= writes' + 1
  <2>1. \A n \in Nat : 0 <= n + 1
    OBVIOUS
  <2> QED
    BY <1>2, <2>1, Zenon
<1>5. ~Undisturbed(t)'
  BY DEF Undisturbed, Never
<1> QED
  BY <1>1, <1>3, <1>4, <1>5, Zenon DEF WorldSince

(* Idle tasks have no request under way. *)
LEMMA IdleFresh ==
  ASSUME TypeOK', NEW t \in Task, task'[t] = Idle
  PROVE  WorldSince(t)' /\ OwnFresh(t)'
<1>1. WorldSince(t)'
  BY NothingBegun DEF Idle
<1>2. task'[t].pc = "idle" /\ task'[t].known = -1
  BY DEF Idle
<1> QED
  BY <1>1, <1>2, OutsideRequest

(* A task's step that leaves the files and the daemon alone, and does not end a read
   of a key file or of a config. *)
LEMMA QuietMove ==
  ASSUME TypeOK, UNCHANGED <<files, daemon, upheavals>>, NEW t \in Task,
         \A u \in Task \ {t} : task'[u] = task[u],
         task'[t].pc = "install" => task'[t].jwk = keys[task'[t].form].jwk,
         task'[t].pc = "publish" => config > 0 /\ task'[t].bytes = config
  PROVE  Fenced /\ FilesMove /\ WorldMove /\ ClientMove
<1>1. Fenced /\ FilesMove
  BY FilesStill DEF daemon, Fenced
<1>2. WorldMove
  BY DEF WorldMove, files, daemon, TypeOK
<1>3. ClientMove
  BY DEF ClientMove, files, daemon, may_publish, At
<1> QED
  BY <1>1, <1>2, <1>3

(* Such a step keeps the invariant if the task's own part holds after it. *)
LEMMA QuietFresh ==
  ASSUME TypeOK, TypeOK', AgentInvariant, CaptureInvariant',
         UNCHANGED <<files, daemon, upheavals>>, NEW t \in Task,
         \A u \in Task \ {t} : task'[u] = task[u],
         task'[t].pc = "install" => task'[t].jwk = keys[task'[t].form].jwk,
         task'[t].pc = "publish" => config > 0 /\ task'[t].bytes = config,
         WorldSince(t)', OwnFresh(t)'
  PROVE  AgentInvariant'
<1>1. FilesOK'
  BY DEF AgentInvariant, FilesOK, files, daemon
<1>2. \A u \in Task \ {t} : (RefreshOK(u) /\ WorldSince(u) /\ ConfigFresh(u) /\ KeyFresh(u))'
  BY QuietMove, TaskKept
<1> QED
  BY <1>1, <1>2 DEF AgentInvariant, OwnFresh

(* A step that replaces the vault, counted as an upheaval unless it locks. *)
LEMMA VaultFresh ==
  ASSUME TypeOK, TypeOK', AgentInvariant, CaptureInvariant', UNCHANGED files,
         NEW v, NEW k, NEW c, set_vault(v, k, c),
         upheavals' = upheavals + 1 \/ (upheavals' = upheavals /\ v = "locked"),
         v # "locked" /\ keys[v].there => c.stamp <= keys[v].mtime,
         \A u \in Task : task'[u] = task[u] \/ task'[u] = Idle
  PROVE  AgentInvariant'
<1>1. Fenced /\ FilesMove
  BY FilesStill DEF set_vault, invalidate_clients, Fenced
<1>2. WorldMove
  BY DEF WorldMove, files, set_vault, TypeOK, Idle
<1>3. ClientMove
  <2>1. ASSUME NEW u \in Task, At(u, "publish")' PROVE ~may_publish(u)'
    <3>1. task'[u] = task[u]
      BY <2>1 DEF At, Idle
    <3>2. task[u].gen <= generation /\ generation' = generation + 1
      BY DEF AgentInvariant, CaptureInvariant, CapturesOK, set_vault, invalidate_clients
    <3> QED
      BY <3>1, <3>2, TaskTyped, WorldTyped DEF may_publish
  <2> QED
    BY <2>1 DEF ClientMove, set_vault, invalidate_clients
<1>4. FilesOK'
  BY DEF AgentInvariant, FilesOK, files, set_vault, invalidate_clients
<1>5. \A u \in Task : (RefreshOK(u) /\ WorldSince(u) /\ ConfigFresh(u) /\ KeyFresh(u))'
  BY <1>1, <1>2, <1>3, TaskKept, IdleFresh DEF OwnFresh
<1> QED
  BY <1>4, <1>5 DEF AgentInvariant

(* A step of another process. *)
LEMMA FilesFresh ==
  ASSUME TypeOK, TypeOK', AgentInvariant, CaptureInvariant', UNCHANGED <<daemon, task>>,
         FilesMove, WorldMove, FilesOK'
  PROVE  AgentInvariant'
<1>1. Fenced /\ ClientMove
  BY DEF Fenced, ClientMove, may_publish, At, daemon
<1>2. \A u \in Task : (RefreshOK(u) /\ WorldSince(u) /\ ConfigFresh(u) /\ KeyFresh(u))'
  BY <1>1, TaskKept
<1> QED
  BY <1>2 DEF AgentInvariant

(* What a request that begins notes is what it finds. *)
LEMMA BegunNow ==
  ASSUME TypeOK, TypeOK', AgentInvariant, UNCHANGED <<files, daemon, upheavals>>, NEW t \in Task,
         task'[t].pc = "config", task'[t].begun = Now,
         \A u \in Task \ {t} : task'[u] = task[u]
  PROVE  WorldSince(t)'
<1> DEFINE b == task'[t].begun
<1>1. /\ b.jwk = OldestFresh(keys[mode].jwk) /\ b.mtime = keys[mode].mtime
      /\ b.config = OldestFresh(config) /\ b.upheavals = upheavals
      /\ b.settled => vault = mode
  <2>1. Now.settled = (vault = mode /\ change = "no")
    BY Zenon DEF Now
  <2>2. Now.settled => vault = mode
    BY Zenon, <2>1
  <2> QED
    BY <2>2 DEF Now
<1>2. /\ keys[mode].there /\ config <= writes /\ keys[mode].jwk <= writes
      /\ vault # "locked" /\ keys[vault].there => cache.stamp <= keys[vault].mtime
  BY WorldTyped DEF AgentInvariant, FilesOK
<1>3. /\ b.config <= writes + 1 /\ b.jwk <= writes + 1
      /\ config > 0 => b.config <= config
      /\ keys[mode].jwk # 0 => b.jwk <= keys[mode].jwk
  BY <1>1, <1>2, WorldTyped DEF OldestFresh
<1>4. ASSUME NEW u \in Task, At(u, "install")', task'[u].form = mode, b.mtime <= task'[u].stamp
      PROVE  task'[u].jwk = keys[mode].jwk
  <2>1. task'[u] = task[u] /\ At(u, "install")
    BY <1>4 DEF At
  <2>2. task[u].stamp <= keys[mode].mtime
    BY <1>2, <1>4, <2>1 DEF AgentInvariant, RefreshOK, At
  <2>3. task[u].stamp = keys[mode].mtime
    BY <1>1, <1>4, <2>1, <2>2, TaskTyped, WorldTyped
  <2> QED
    BY <1>2, <1>4, <2>1, <2>3 DEF AgentInvariant, CaptureInvariant, CapturesOK, At
<1>5. ASSUME b.settled, vault # "locked", b.mtime <= cache.stamp PROVE cache.jwk = keys[mode].jwk
  <2>1. cache.stamp = keys[vault].mtime /\ keys[vault].there /\ vault = mode
    BY <1>1, <1>2, <1>5, WorldTyped
  <2> QED
    BY <1>5, <2>1 DEF AgentInvariant, CaptureInvariant, StampDescribesRead
<1>6. /\ mode' = mode /\ keys' = keys /\ vault' = vault /\ cache' = cache /\ config' = config
      /\ writes' = writes /\ upheavals' = upheavals
  BY DEF files, daemon
<1>7. ASSUME NEW u \in Task,
             (At(u, "install") /\ task[u].form = mode /\ task[t].begun.mtime <= task[u].stamp)'
      PROVE  SinceBegun(t, task[u].jwk)'
  BY <1>3, <1>4, <1>6, <1>7 DEF SinceBegun
<1>8. /\ SinceBegun(t, keys[mode].jwk)'
      /\ Undisturbed(t)' /\ vault' # "locked" /\ b.mtime <= cache'.stamp
            => SinceBegun(t, cache.jwk)'
      /\ Undisturbed(t)' => vault' \in {mode', "locked"}
  BY <1>1, <1>3, <1>5, <1>6 DEF SinceBegun, Undisturbed
<1>9. b.mtime <= keys'[mode'].mtime /\ b.upheavals <= upheavals'
  BY <1>1, <1>6, WorldTyped
<1> HIDE DEF b
<1> QED
  BY <1>3, <1>6, <1>7, <1>8, <1>9 DEF WorldSince, b

(* A task that returns to its attempt or to the lookup keeps its clients fresh. *)
LEMMA PastStamp ==
  ASSUME TypeOK, TypeOK', AgentInvariant, ClientMove, NEW t \in Task,
         task'[t].begun = task[t].begun,
         task[t].pc \in {"peek", "stat", "read", "install"},
         task'[t].pc \in {"peek", "stat", "read", "install", "lookup", "build"}
  PROVE  ConfigFresh(t)'
<1>1. /\ client' # NoClient => task[t].begun.config <= client'.config
      /\ \A u \in Task : At(u, "publish")' /\ may_publish(u)'
               => task[t].begun.config <= task'[u].bytes
  BY ClientsKept
<1> QED
  BY <1>1 DEF ConfigFresh, Answered

(* What the ends of a refresh leave of the task. *)
LEMMA EndsOfRefresh ==
  ASSUME TypeOK, NEW t \in Task, Refreshed(t) \/ Discarded(t)
  PROVE  /\ task'[t] = Idle \/ task'[t].begun = task[t].begun
         /\ Refreshed(t) => task'[t].begun = task[t].begun /\ task'[t].pc \in {"lookup", "build"}
         /\ Discarded(t) => task'[t].pc \in {"idle", "peek"}
         /\ task'[t].pc \in {"idle", "lookup", "build", "peek"} /\ task'[t].known = -1
         /\ task'[t].pc = "idle" => task'[t] = Idle
<1>1. ASSUME Refreshed(t)
      PROVE  /\ task'[t].begun = task[t].begun /\ task'[t].pc \in {"lookup", "build"}
             /\ task'[t].known = -1
  BY <1>1 DEF Refreshed, Idle, TypeOK
<1>2. ASSUME Discarded(t)
      PROVE  /\ task'[t] = Idle \/ (task'[t].begun = task[t].begun /\ task'[t].pc = "peek")
             /\ task'[t].pc \in {"idle", "peek"} /\ task'[t].known = -1
  <2>1. CASE task'[t] = Idle
    BY <2>1 DEF Idle
  <2>2. ASSUME NEW i, task'[t] = [Idle EXCEPT !.pc = "peek", !.tries = i,
                                    !.round = task[t].round, !.begun = task[t].begun]
        PROVE  task'[t].begun = task[t].begun /\ task'[t].pc = "peek" /\ task'[t].known = -1
    BY <2>2 DEF Idle
  <2>3. task'[t] = Idle \/ task'[t] = [Idle EXCEPT !.pc = "peek", !.tries = task[t].tries + 1,
                                       !.round = task[t].round, !.begun = task[t].begun]
    BY <1>2 DEF Discarded, Answer, TypeOK
  <2> QED
    BY <2>1, <2>2, <2>3
<1> QED
  BY <1>1, <1>2

(* Every step of a request's refresh that leaves the daemon alone keeps the invariant. *)
LEMMA RequestStep ==
  ASSUME TypeOK, TypeOK', AgentInvariant, CaptureInvariant', NEW t \in Task,
         \/ StartToken(t) \/ ReadConfig(t) \/ PeekVault(t) \/ StatKeys(t) \/ ReadKeys(t)
         \/ Lookup(t) \/ Build(t) \/ ReadTenant(t)
  PROVE  AgentInvariant'
<1>0. UNCHANGED <<files, daemon, upheavals>>
  BY DEF StartToken, ReadConfig, PeekVault, StatKeys, ReadKeys, Lookup, Build, ReadTenant
<1>a. /\ mode' = mode /\ keys' = keys /\ vault' = vault /\ cache' = cache /\ config' = config
      /\ writes' = writes /\ upheavals' = upheavals /\ generation' = generation
      /\ client' = client
  BY <1>0 DEF files, daemon
<1>b. ASSUME Answer(t) PROVE AgentInvariant'
  <2>1. task'[t] = Idle /\ \A u \in Task \ {t} : task'[u] = task[u]
    BY <1>b DEF Answer, TypeOK
  <2>2. task'[t].pc = "idle"
    BY <2>1 DEF Idle
  <2> QED
    BY <1>0, <2>1, <2>2, IdleFresh, QuietFresh
<1>c. ASSUME \A u \in Task \ {t} : task'[u] = task[u],
             task'[t].begun = task[t].begun,
             task'[t].pc = "install" => task'[t].jwk = keys[task'[t].form].jwk,
             task'[t].pc = "publish" => config > 0 /\ task'[t].bytes = config,
             OwnFresh(t)'
      PROVE  AgentInvariant'
  <2>1. WorldSince(t)'
    BY <1>0, <1>c, QuietMove, WorldKept
  <2> QED
    BY <1>0, <1>c, <2>1, QuietFresh
<1>d. /\ RefreshOK(t) /\ WorldSince(t) /\ ConfigFresh(t) /\ KeyFresh(t) /\ FilesOK
      /\ CachedClientIsCurrent
  BY DEF AgentInvariant, CaptureInvariant
<1>1. CASE StartToken(t)
  <2>1. CASE Answer(t)
    BY <2>1, <1>b
  <2>2. CASE ~Answer(t)
    <3>1. task' = [task EXCEPT ![t] = [Idle EXCEPT !.pc = "config", !.begun = Now]]
      BY <1>1, <2>2 DEF StartToken, FirstStep
    <3>2. /\ task'[t].pc = "config" /\ task'[t].begun = Now /\ task'[t].known = -1
          /\ \A u \in Task \ {t} : task'[u] = task[u]
      BY <3>1 DEF Idle, TypeOK
    <3> QED
      BY <1>0, <3>2, BegunNow, OutsideRequest, QuietFresh
  <2> QED
    BY <2>1, <2>2
<1>2. CASE ReadConfig(t)
  <2>1. /\ task'[t] = [task[t] EXCEPT !.pc = "stamp", !.bytes = config]
        /\ \A u \in Task \ {t} : task'[u] = task[u]
    BY <1>2 DEF ReadConfig, TypeOK
  <2>2. /\ task'[t].pc = "stamp" /\ task'[t].bytes = config /\ task'[t].begun = task[t].begun
        /\ task'[t].known = task[t].known
    BY <2>1, TaskTyped DEF TaskState
  <2>3. OwnFresh(t)'
    BY <1>a, <1>d, <2>2 DEF OwnFresh, RefreshOK, ConfigFresh, KeyFresh, Answered, WorldSince
  <2> QED
    BY <1>c, <2>1, <2>2, <2>3
<1>3. CASE PeekVault(t)
  <2>1. CASE Answer(t)
    BY <2>1, <1>b
  <2>2. CASE ~Answer(t)
    <3>1. /\ task'[t].pc = "stat" /\ task'[t].form = vault /\ task'[t].gen = generation
          /\ task'[t].known = cache.stamp /\ task'[t].begun = task[t].begun
          /\ vault # "locked" /\ task[t].pc = "peek"
          /\ \A u \in Task \ {t} : task'[u] = task[u]
      BY <1>3, <2>2, TaskTyped DEF PeekVault, AfterPeek, At, TypeOK, TaskState
    <3>2. RefreshOK(t)'
      BY <1>a, <1>d, <3>1 DEF RefreshOK, FilesOK, AgentInvariant, CaptureInvariant
    <3>3. ConfigFresh(t)'
      BY <1>0, <3>1, QuietMove, PastStamp
    <3>4. KeyFresh(t)'
      BY <1>a, <1>d, <3>1, WorldTyped DEF KeyFresh, WorldSince, Undisturbed, Answered
    <3> QED
      BY <1>c, <3>1, <3>2, <3>3, <3>4 DEF OwnFresh
  <2> QED
    BY <2>1, <2>2
<1>4. CASE StatKeys(t)
  <2> DEFINE file == keys[task[t].form]
             modified == IF file.there THEN file.mtime ELSE 0
  <2>0. /\ task[t].pc = "stat"
        /\ Undisturbed(t) => /\ task[t].form = mode /\ file.there
                             /\ task[t].begun.mtime <= file.mtime
                             /\ vault # "locked" => task[t].known <= cache.stamp
    BY <1>4, <1>d DEF StatKeys, At, KeyFresh, FilesOK, WorldSince
  <2>1. CASE task[t].known # -1 /\ (file.there => modified = task[t].known)
    <3>1. Refreshed(t)
      BY <1>4, <2>1 DEF StatKeys
    <3>2. /\ task'[t].begun = task[t].begun /\ task'[t].pc \in {"lookup", "build"}
          /\ task'[t].known = -1 /\ \A u \in Task \ {t} : task'[u] = task[u]
      BY <3>1, EndsOfRefresh, EmptyTasks
    <3>3. RefreshOK(t)'
      BY <1>a, <3>2, WorldTyped DEF RefreshOK
    <3>4. ConfigFresh(t)'
      BY <1>0, <2>0, <3>2, QuietMove, PastStamp
    <3>5. KeyFresh(t)'
      <4>1. ASSUME Undisturbed(t), vault # "locked" PROVE task[t].begun.mtime <= cache.stamp
        BY <2>0, <2>1, <4>1, TaskTyped, BegunTyped, WorldTyped
      <4> QED
        BY <1>a, <3>2, <4>1 DEF KeyFresh, Undisturbed, Answered
    <3> QED
      BY <1>c, <3>2, <3>3, <3>4, <3>5 DEF OwnFresh
  <2>2. CASE ~(task[t].known # -1 /\ (file.there => modified = task[t].known))
    <3>1. /\ task'[t] = [task[t] EXCEPT !.pc = "read", !.stamp = modified]
          /\ \A u \in Task \ {t} : task'[u] = task[u]
      BY <1>4, <2>2 DEF StatKeys, AfterStat, TypeOK
    <3>2. /\ task'[t].pc = "read" /\ task'[t].stamp = modified
          /\ task'[t].begun = task[t].begun /\ task'[t].known = task[t].known
          /\ task'[t].form = task[t].form /\ task'[t].gen = task[t].gen
      BY <3>1, TaskTyped DEF TaskState
    <3>3. task[t].known <= modified
      BY <1>d, <2>0, <2>2, TaskTyped, WorldTyped DEF RefreshOK
    <3>4. RefreshOK(t)'
      BY <1>a, <1>d, <2>0, <3>2, <3>3, TaskTyped, WorldTyped DEF RefreshOK
    <3>5. ConfigFresh(t)'
      BY <1>0, <2>0, <3>1, <3>2, QuietMove, PastStamp
    <3>6. KeyFresh(t)'
      BY <1>a, <2>0, <3>2 DEF KeyFresh, Undisturbed, Answered
    <3> QED
      BY <1>c, <3>1, <3>2, <3>4, <3>5, <3>6 DEF OwnFresh
  <2> QED
    BY <2>1, <2>2
<1>5. CASE ReadKeys(t)
  <2>1. CASE Answer(t)
    BY <2>1, <1>b
  <2>2. CASE ~Answer(t)
    <3>1. /\ task'[t] = [task[t] EXCEPT !.pc = "install", !.jwk = keys[task[t].form].jwk]
          /\ \A u \in Task \ {t} : task'[u] = task[u]
      BY <1>5, <2>2 DEF ReadKeys, TypeOK
    <3>2. /\ task'[t].pc = "install" /\ task'[t].stamp = task[t].stamp
          /\ task'[t].begun = task[t].begun /\ task'[t].known = task[t].known
          /\ task'[t].form = task[t].form /\ task'[t].gen = task[t].gen
          /\ task'[t].jwk = keys[task[t].form].jwk /\ task[t].pc = "read"
      BY <1>5, <3>1, TaskTyped DEF TaskState, ReadKeys, At
    <3>3. RefreshOK(t)'
      BY <1>a, <1>d, <3>2 DEF RefreshOK
    <3>4. ConfigFresh(t)'
      BY <1>0, <3>1, <3>2, QuietMove, PastStamp
    <3>5. KeyFresh(t)'
      BY <1>a, <1>d, <3>2 DEF KeyFresh, Undisturbed, Answered
    <3> QED
      BY <1>c, <3>1, <3>2, <3>3, <3>4, <3>5 DEF OwnFresh
  <2> QED
    BY <2>1, <2>2
<1>6. CASE Lookup(t)
  <2>0. task[t].pc = "lookup"
    BY <1>6 DEF Lookup, At
  <2>1. CASE Answer(t)
    BY <2>1, <1>b
  <2>2. CASE AnswerWith(t, client) /\ vault # "locked" /\ client # NoClient
    <3>1. /\ task'[t].pc = "answered" /\ task'[t].served = client /\ task'[t].known = -1
          /\ task'[t].begun = task[t].begun /\ \A u \in Task \ {t} : task'[u] = task[u]
      BY <2>2 DEF AnswerWith, Idle, TypeOK
    <3>2. task[t].begun.config <= client.config
      BY <1>d, <2>0, <2>2 DEF ConfigFresh
    <3>3. ASSUME Undisturbed(t) PROVE task[t].begun.jwk <= client.jwk
      <4>1. client.jwk = cache.jwk /\ client.jwk # 0
        BY <1>d, <2>2, WorldTyped DEF CachedClientIsCurrent, FilesOK
      <4>2. task[t].begun.mtime <= cache.stamp
        BY <1>d, <2>0, <2>2, <3>3 DEF KeyFresh
      <4> QED
        BY <1>d, <2>2, <3>3, <4>1, <4>2 DEF WorldSince, SinceBegun
    <3>4. RefreshOK(t)'
      BY <1>a, <3>1, WorldTyped DEF RefreshOK
    <3>5. ConfigFresh(t)' /\ KeyFresh(t)'
      BY <1>a, <3>1, <3>2, <3>3 DEF ConfigFresh, KeyFresh, Undisturbed
    <3> QED
      BY <1>c, <3>1, <3>4, <3>5 DEF OwnFresh
  <2>3. CASE task' = [task EXCEPT ![t].pc = "config", ![t].round = 2]
    <3>1. /\ task'[t] = [task[t] EXCEPT !.pc = "config", !.round = 2]
          /\ \A u \in Task \ {t} : task'[u] = task[u]
      BY <2>3 DEF TypeOK
    <3>2. /\ task'[t].pc = "config" /\ task'[t].begun = task[t].begun
          /\ task'[t].known = task[t].known
      BY <3>1, TaskTyped DEF TaskState
    <3>3. OwnFresh(t)'
      BY <1>a, <1>d, <3>2 DEF OwnFresh, RefreshOK, ConfigFresh, KeyFresh, Answered
    <3> QED
      BY <1>c, <3>1, <3>2, <3>3
  <2>4. CASE vault = "locked"
    BY <1>6, <1>d, <2>1, <2>4 DEF Lookup, CachedClientIsCurrent
  <2>5. CASE vault # "locked" /\ client # NoClient
    BY <1>6, <2>2, <2>5 DEF Lookup
  <2>6. CASE vault # "locked" /\ client = NoClient
    BY <1>6, <2>3, <2>6 DEF Lookup
  <2> QED
    BY <2>4, <2>5, <2>6
<1>7. CASE Build(t)
  <2>1. CASE Answer(t)
    BY <2>1, <1>b
  <2>2. CASE ~Answer(t)
    <3>1. /\ task'[t] = [task[t] EXCEPT !.pc = "build_config", !.jwk = cache.jwk,
                                        !.gen = generation]
          /\ \A u \in Task \ {t} : task'[u] = task[u]
      BY <1>7, <2>2 DEF Build, TypeOK
    <3>2. task[t].pc = "build" /\ vault # "locked" /\ cache.jwk # 0
      BY <1>7, <2>2 DEF Build, At
    <3>3. /\ task'[t].pc = "build_config" /\ task'[t].begun = task[t].begun
          /\ task'[t].known = task[t].known /\ task'[t].jwk = cache.jwk
      BY <3>1, TaskTyped DEF TaskState
    <3>4. RefreshOK(t)' /\ ConfigFresh(t)'
      BY <1>a, <1>d, <3>2, <3>3, WorldTyped DEF RefreshOK, ConfigFresh, Answered
    <3>5. ASSUME Undisturbed(t) PROVE task[t].begun.jwk <= cache.jwk
      BY <1>d, <3>2, <3>5 DEF KeyFresh, WorldSince, SinceBegun
    <3>6. KeyFresh(t)'
      BY <1>a, <3>3, <3>5 DEF KeyFresh, Undisturbed, Answered
    <3> QED
      BY <1>c, <3>1, <3>3, <3>4, <3>6 DEF OwnFresh
  <2> QED
    BY <2>1, <2>2
<1>8. CASE ReadTenant(t)
  <2>1. CASE Answer(t)
    BY <2>1, <1>b
  <2>2. CASE ~Answer(t)
    <3>1. /\ task'[t] = [task[t] EXCEPT !.pc = "publish", !.bytes = config]
          /\ \A u \in Task \ {t} : task'[u] = task[u]
          /\ task[t].pc = "build_config" /\ config > 0
      BY <1>8, <2>2 DEF ReadTenant, HasTenant, At, TypeOK
    <3>2. /\ task'[t].pc = "publish" /\ task'[t].begun = task[t].begun
          /\ task'[t].known = task[t].known /\ task'[t].jwk = task[t].jwk
          /\ task'[t].bytes = config
      BY <3>1, TaskTyped DEF TaskState
    <3>3. RefreshOK(t)'
      BY <1>a, <1>d, <3>1, <3>2 DEF RefreshOK
    <3>4. ConfigFresh(t)'
      BY <1>a, <1>d, <3>1, <3>2 DEF ConfigFresh, WorldSince, Answered
    <3>5. KeyFresh(t)'
      BY <1>a, <1>d, <3>1, <3>2 DEF KeyFresh, Undisturbed, Answered
    <3> QED
      BY <1>c, <3>1, <3>2, <3>3, <3>4, <3>5 DEF OwnFresh
  <2> QED
    BY <2>1, <2>2
<1> QED
  BY <1>1, <1>2, <1>3, <1>4, <1>5, <1>6, <1>7, <1>8

(* refresh_config_stamp: either the clients go and every build under way is fenced,
   or what they were built from is what the task has just read. *)
LEMMA StampFresh ==
  ASSUME TypeOK, TypeOK', AgentInvariant, CaptureInvariant', NEW t \in Task,
         refresh_config_stamp(t)
  PROVE  AgentInvariant'
<1>1. /\ UNCHANGED files /\ vault' = vault /\ cache' = cache /\ upheavals' = upheavals
      /\ \A u \in Task \ {t} : task'[u] = task[u]
      /\ task[t].pc = "stamp"
      /\ task'[t] = [task[t] EXCEPT !.pc = "peek", !.bytes = 0]
  BY DEF TypeOK, refresh_config_stamp, At
<1>2. /\ task'[t].pc = "peek" /\ task'[t].begun = task[t].begun
      /\ task'[t].known = task[t].known
  BY <1>1, TaskTyped DEF TaskState
<1>3. FilesMove /\ Fenced
  BY <1>1, FilesStill DEF refresh_config_stamp, invalidate_clients, Fenced
<1>4. WorldMove
  <2>1. \A u \in Task : task'[u].pc = "install" => task'[u] = task[u]
    BY <1>1, <1>2
  <2> QED
    BY <1>1, <2>1 DEF WorldMove, files, TypeOK
<1>5. \/ client' = NoClient /\ generation' = generation + 1
      \/ /\ UNCHANGED <<client, generation, config_stamp>>
         /\ config_stamp = task[t].bytes
  BY DEF refresh_config_stamp, invalidate_clients
<1>6. ASSUME NEW u \in Task, At(u, "publish")' /\ may_publish(u)'
      PROVE  /\ UNCHANGED <<client, generation, config_stamp>> /\ task'[u] = task[u]
             /\ At(u, "publish") /\ may_publish(u) /\ task[u].bytes = config_stamp
  <2>1. task'[u] = task[u]
    BY <1>1, <1>2, <1>6 DEF At
  <2>2. task[u].gen <= generation
    BY DEF AgentInvariant, CaptureInvariant, CapturesOK
  <2>3. UNCHANGED <<client, generation, config_stamp>>
    BY <1>5, <1>6, <2>1, <2>2, TaskTyped, WorldTyped DEF may_publish
  <2> QED
    BY <1>6, <2>1, <2>3 DEF may_publish, At
<1>7. ClientMove
  BY <1>5, <1>6 DEF ClientMove
<1>8. FilesOK'
  BY <1>1, <1>5 DEF AgentInvariant, FilesOK, files
<1>9. ConfigFresh(t)'
  <2>1. task[t].bytes > 0 => task[t].begun.config <= task[t].bytes
    BY <1>1 DEF AgentInvariant, ConfigFresh
  <2>2. client' # NoClient => task[t].begun.config <= client'.config
    BY <1>5, <2>1 DEF AgentInvariant, CaptureInvariant, CachedClientIsCurrent, FilesOK
  <2>3. ASSUME NEW u \in Task, At(u, "publish")' /\ may_publish(u)'
        PROVE  task[t].begun.config <= task'[u].bytes
    <3>1. task[u].bytes > 0
      BY <1>6, <2>3 DEF AgentInvariant, ConfigFresh, At
    <3>2. task[u].bytes = task[t].bytes
      BY <1>5, <1>6, <2>3, WorldTyped
    <3> QED
      BY <1>6, <2>1, <2>3, <3>1, <3>2
  <2> QED
    BY <1>2, <2>2, <2>3 DEF ConfigFresh, Answered
<1>10. RefreshOK(t)' /\ KeyFresh(t)'
  BY <1>1, <1>2 DEF AgentInvariant, RefreshOK, KeyFresh, Answered, files
<1> QED
  BY <1>1, <1>2, <1>3, <1>4, <1>7, <1>8, <1>9, <1>10, TaskKept, WorldKept DEF AgentInvariant

(* install_jwks: a map under the generation it was peeked in replaces the daemon's. *)
LEMMA InstallFresh ==
  ASSUME TypeOK, TypeOK', AgentInvariant, CaptureInvariant', NEW t \in Task, install_jwks(t)
  PROVE  AgentInvariant'
<1>1. /\ UNCHANGED files /\ vault' = vault /\ config_stamp' = config_stamp
      /\ upheavals' = upheavals /\ task[t].pc = "install"
  BY DEF install_jwks, At
<1>2. \A u \in Task \ {t} : task'[u] = task[u]
  BY EmptyTasks DEF install_jwks
<1>3. /\ task'[t].pc \in {"idle", "lookup", "build", "peek"} /\ task'[t].known = -1
      /\ task'[t] = Idle \/ task'[t].begun = task[t].begun
      /\ task'[t].pc = "idle" => task'[t] = Idle
  BY EndsOfRefresh DEF install_jwks
<1>4. FilesMove /\ Fenced
  BY <1>1, FilesStill DEF install_jwks, invalidate_clients, Fenced
<1>5. \/ UNCHANGED <<cache, client, generation>>
      \/ /\ cache' = [jwk |-> task[t].jwk, stamp |-> task[t].stamp]
         /\ task[t].gen = generation /\ client' = NoClient /\ generation' = generation + 1
  BY DEF install_jwks, invalidate_clients
<1>6. WorldMove
  BY <1>1, <1>2, <1>3, <1>5 DEF WorldMove, files, TypeOK, At
<1>7. ClientMove
  <2>1. ASSUME NEW u \in Task, At(u, "publish")' /\ may_publish(u)'
        PROVE  At(u, "publish") /\ may_publish(u) /\ task'[u] = task[u]
    <3>1. task'[u] = task[u]
      BY <1>2, <1>3, <2>1 DEF At
    <3>2. task[u].gen <= generation
      BY DEF AgentInvariant, CaptureInvariant, CapturesOK
    <3> QED
      BY <1>1, <1>5, <2>1, <3>1, <3>2, TaskTyped, WorldTyped DEF may_publish, At
  <2> QED
    BY <1>5, <2>1 DEF ClientMove
<1>8. FilesOK'
  <2>1. vault' # "locked" /\ keys'[vault'].there => cache'.stamp <= keys'[vault'].mtime
    <3>1. CASE cache' = cache
      BY <1>1, <3>1 DEF AgentInvariant, FilesOK, files
    <3>2. CASE cache' = [jwk |-> task[t].jwk, stamp |-> task[t].stamp] /\ task[t].gen = generation
      <4>1. task[t].form = vault
        BY <1>1, <3>2 DEF AgentInvariant, CaptureInvariant, CapturesOK
      <4>2. keys[vault].there => task[t].stamp <= keys[vault].mtime
        BY <1>1, <4>1 DEF AgentInvariant, RefreshOK
      <4> QED
        BY <1>1, <3>2, <4>2 DEF files
    <3> QED
      BY <1>5, <3>1, <3>2
  <2> QED
    BY <1>1, <1>5, <2>1 DEF AgentInvariant, FilesOK, files
<1>9. WorldSince(t)' /\ OwnFresh(t)'
  <2>1. CASE task'[t] = Idle
    BY <2>1, IdleFresh
  <2>2. CASE task'[t] # Idle
    <3>1. task'[t].begun = task[t].begun /\ task'[t].pc \in {"lookup", "build", "peek"}
      BY <1>3, <2>2
    <3>2. WorldSince(t)'
      BY <1>6, <3>1, WorldKept
    <3>3. ConfigFresh(t)'
      BY <1>1, <1>7, <3>1, PastStamp
    <3>4. RefreshOK(t)'
      BY <1>3, <3>1 DEF RefreshOK, TypeOK
    <3>5. ASSUME Undisturbed(t)', task'[t].pc \in {"lookup", "build"}, vault' # "locked"
          PROVE  task[t].begun.mtime <= cache'.stamp
      <4>1. Undisturbed(t)
        BY <3>1, <3>5, <1>6, UndisturbedBefore
      <4>2. task[t].begun.mtime <= task[t].stamp
        BY <1>1, <4>1 DEF AgentInvariant, KeyFresh
      <4>3. Refreshed(t) /\ generation = task[t].gen
        <5>1. ~Discarded(t)
          BY <3>5, EndsOfRefresh
        <5> QED
          BY <5>1 DEF install_jwks
      <4>4. cache'.stamp = task[t].stamp
        <5>1. CASE cache.stamp = task[t].stamp
          BY <1>5, <5>1
        <5>2. CASE cache.stamp # task[t].stamp
          BY <1>1, <3>5, <4>3, <5>2 DEF install_jwks
        <5> QED
          BY <5>1, <5>2
      <4> QED
        BY <4>2, <4>4
    <3>6. KeyFresh(t)'
      BY <3>1, <3>5 DEF KeyFresh, Answered
    <3> QED
      BY <3>2, <3>3, <3>4, <3>6 DEF OwnFresh
  <2> QED
    BY <2>1, <2>2
<1> QED
  BY <1>2, <1>4, <1>6, <1>7, <1>8, <1>9, TaskKept DEF AgentInvariant, OwnFresh

(* publish: the client another request may be answered with, and the task's own. *)
LEMMA PublishFresh ==
  ASSUME TypeOK, TypeOK', AgentInvariant, CaptureInvariant', NEW t \in Task, publish(t)
  PROVE  AgentInvariant'
<1> DEFINE built == [jwk |-> task[t].jwk, config |-> task[t].bytes]
<1>1. /\ UNCHANGED files /\ UNCHANGED <<vault, cache, config_stamp, generation, upheavals>>
      /\ task[t].pc = "publish" /\ AnswerWith(t, built)
      /\ client' = IF may_publish(t) THEN built ELSE client
  BY DEF publish, At
<1>2. /\ task'[t].pc = "answered" /\ task'[t].served = built /\ task'[t].known = -1
      /\ task'[t].begun = task[t].begun /\ \A u \in Task \ {t} : task'[u] = task[u]
  BY <1>1 DEF AnswerWith, Idle, TypeOK
<1>3. FilesMove /\ Fenced
  BY <1>1, FilesStill DEF Fenced
<1>4. WorldMove
  BY <1>1, <1>2 DEF WorldMove, files, TypeOK
<1>5. ClientMove
  BY <1>1, <1>2 DEF ClientMove, may_publish, At
<1>6. /\ task[t].bytes > 0 /\ task[t].jwk > 0 /\ task[t].begun.config <= task[t].bytes
      /\ Undisturbed(t) => task[t].begun.jwk <= task[t].jwk
  BY <1>1 DEF AgentInvariant, ConfigFresh, RefreshOK, KeyFresh
<1>7. FilesOK'
  BY <1>1, <1>6 DEF AgentInvariant, FilesOK, files
<1>8. ConfigFresh(t)' /\ KeyFresh(t)'
  BY <1>1, <1>2, <1>6 DEF ConfigFresh, KeyFresh, Undisturbed
<1>9. RefreshOK(t)'
  BY <1>2 DEF RefreshOK, TypeOK
<1> QED
  BY <1>2, <1>3, <1>4, <1>5, <1>7, <1>8, <1>9, TaskKept, WorldKept DEF AgentInvariant

(* The steps of an unlock before its install, and of requests that change nothing. *)
LEMMA UnlockFresh ==
  ASSUME TypeOK, TypeOK', AgentInvariant, CaptureInvariant', NEW t \in Task,
         SendUnlockPlain(t) \/ StatPlain(t) \/ ReadPlain(t)
  PROVE  AgentInvariant'
<1>0. UNCHANGED <<files, daemon, upheavals>>
  BY DEF SendUnlockPlain, StatPlain, ReadPlain
<1>a. writes' = writes /\ keys' = keys
  BY <1>0 DEF files
<1>1. CASE SendUnlockPlain(t)
  <2>1. /\ task'[t].pc = "unlock_stat" /\ task'[t].known = -1 /\ task'[t].begun = Never
        /\ \A u \in Task \ {t} : task'[u] = task[u]
    BY <1>1 DEF SendUnlockPlain, Idle, TypeOK
  <2>2. WorldSince(t)'
    BY <2>1, NothingBegun
  <2>3. OwnFresh(t)'
    BY <2>1 DEF OwnFresh, RefreshOK, ConfigFresh, KeyFresh, Answered, TypeOK
  <2> QED
    BY <1>0, <2>1, <2>2, <2>3, QuietFresh
<1>2. CASE StatPlain(t)
  <2> DEFINE modified == IF keys["plain"].there THEN keys["plain"].mtime ELSE -1
  <2>1. /\ task'[t] = [task[t] EXCEPT !.pc = "unlock_read", !.stamp = modified]
        /\ \A u \in Task \ {t} : task'[u] = task[u]
        /\ task[t].pc = "unlock_stat"
    BY <1>2 DEF StatPlain, At, TypeOK
  <2>2. /\ task'[t].pc = "unlock_read" /\ task'[t].stamp = modified
        /\ task'[t].known = task[t].known /\ task'[t].begun = task[t].begun
        /\ task'[t].form = "plain"
    BY <2>1, TaskTyped DEF TaskState, AgentInvariant, CaptureInvariant, CapturesOK
  <2>3. RefreshOK(t)'
    BY <1>a, <2>2, WorldTyped DEF AgentInvariant, RefreshOK, Form
  <2>4. OwnFresh(t)'
    BY <2>2, <2>3 DEF OwnFresh, ConfigFresh, KeyFresh, Answered
  <2> QED
    BY <1>0, <2>1, <2>2, <2>4, QuietMove, WorldKept, QuietFresh
<1>3. CASE ReadPlain(t)
  <2>1. CASE Answer(t)
    <3>1. task'[t] = Idle /\ \A u \in Task \ {t} : task'[u] = task[u]
      BY <2>1 DEF Answer, TypeOK
    <3>2. task'[t].pc = "idle"
      BY <3>1 DEF Idle
    <3> QED
      BY <1>0, <3>1, <3>2, IdleFresh, QuietFresh
  <2>2. CASE ~Answer(t)
    <3>1. /\ task'[t] = [task[t] EXCEPT !.pc = "unlock_set", !.jwk = keys["plain"].jwk]
          /\ \A u \in Task \ {t} : task'[u] = task[u]
          /\ task[t].pc = "unlock_read"
      BY <1>3, <2>2 DEF ReadPlain, At, TypeOK
    <3>2. /\ task'[t].pc = "unlock_set" /\ task'[t].stamp = task[t].stamp
          /\ task'[t].known = task[t].known /\ task'[t].begun = task[t].begun
          /\ task'[t].form = task[t].form
      BY <3>1, TaskTyped DEF TaskState
    <3>3. OwnFresh(t)'
      BY <1>a, <3>1, <3>2 DEF AgentInvariant, OwnFresh, RefreshOK, ConfigFresh, KeyFresh, Answered
    <3> QED
      BY <1>0, <3>1, <3>2, <3>3, QuietMove, WorldKept, QuietFresh
  <2> QED
    BY <2>1, <2>2
<1> QED
  BY <1>1, <1>2, <1>3

(* Every step keeps the invariant. *)
LEMMA AgentInvariantStep ==
  ASSUME TypeOK, TypeOK', AgentInvariant, CaptureInvariant', [Next]_vars PROVE AgentInvariant'
<1>1. ASSUME NEW t \in Task, TokenStep(t) PROVE AgentInvariant'
  BY <1>1, RequestStep, StampFresh, InstallFresh, PublishFresh DEF TokenStep
<1>2. ASSUME NEW t \in Task, SendUnlockPlain(t) \/ StatPlain(t) \/ ReadPlain(t)
      PROVE  AgentInvariant'
  BY <1>2, UnlockFresh
<1>3. ASSUME NEW t \in Task, Answer(t), UNCHANGED <<files, daemon, upheavals>>
      PROVE  AgentInvariant'
  <2>1. task'[t] = Idle /\ \A u \in Task \ {t} : task'[u] = task[u]
    BY <1>3 DEF Answer, TypeOK
  <2>2. task'[t].pc = "idle"
    BY <2>1 DEF Idle
  <2> QED
    BY <1>3, <2>1, <2>2, IdleFresh, QuietFresh
<1>4. ASSUME NEW t \in Task, PutDek(t) PROVE AgentInvariant'
  <2>1. UNCHANGED files /\ Answer(t) /\ \A u \in Task : task'[u] = task[u] \/ task'[u] = Idle
    BY <1>4 DEF PutDek, Answer, TypeOK
  <2>2. ASSUME NEW k \in Key, set_vault("enc", k, NoCache), upheavals' = upheavals + 1
        PROVE  AgentInvariant'
    <3>1. NoCache.stamp <= keys["enc"].mtime
      BY WorldTyped DEF NoCache, Form
    <3> QED
      BY <2>1, <2>2, <3>1, VaultFresh
  <2> QED
    BY <1>3, <1>4, <2>1, <2>2 DEF PutDek
<1>5. ASSUME NEW t \in Task, UnlockPlain(t) PROVE AgentInvariant'
  <2> DEFINE loaded == IF task[t].stamp = -1 THEN NoCache
                       ELSE [jwk |-> task[t].jwk, stamp |-> task[t].stamp]
  <2>1. /\ UNCHANGED files /\ \A u \in Task : task'[u] = task[u] \/ task'[u] = Idle
        /\ set_vault("plain", NoKey, loaded) /\ upheavals' = upheavals + 1
    BY <1>5 DEF UnlockPlain, Answer, TypeOK
  <2>2. task[t].form = "plain" /\ task[t].pc = "unlock_set"
    BY <1>5 DEF UnlockPlain, At, AgentInvariant, CaptureInvariant, CapturesOK
  <2>3. keys["plain"].there => task[t].stamp <= keys["plain"].mtime
    BY <2>2 DEF AgentInvariant, RefreshOK
  <2>4. keys["plain"].there => loaded.stamp <= keys["plain"].mtime
    BY <2>3, WorldTyped DEF NoCache, Form
  <2> HIDE DEF loaded
  <2> QED
    BY <2>1, <2>4, VaultFresh
<1>6. ASSUME lock, UNCHANGED <<files, upheavals>>,
             \A u \in Task : task'[u] = task[u] \/ task'[u] = Idle
      PROVE  AgentInvariant'
  BY <1>6, VaultFresh DEF lock
<1>7. ASSUME NEW t \in Task, Lock(t) \/ Status(t) PROVE AgentInvariant'
  <2>1. UNCHANGED <<files, upheavals>> /\ Answer(t) /\ (lock \/ UNCHANGED daemon)
    BY <1>7 DEF Lock, Status
  <2>2. \A u \in Task : task'[u] = task[u] \/ task'[u] = Idle
    BY <2>1 DEF Answer, TypeOK
  <2> QED
    BY <1>3, <1>6, <2>1, <2>2
<1>8. CASE IdleLock
  BY <1>6, <1>8 DEF IdleLock
<1>9. CASE Restart
  <2>1. \A u \in Task : task'[u] = Idle
    BY <1>9 DEF Restart
  <2>2. FilesOK'
    BY <1>9 DEF Restart, AgentInvariant, FilesOK, files
  <2> QED
    BY <2>1, <2>2, IdleFresh DEF AgentInvariant, OwnFresh
<1>10. CASE RewriteKeys
  <2>1. PICK j \in {writes + 1, 0} :
          keys' = [keys EXCEPT ![mode].there = TRUE, ![mode].jwk = j, ![mode].mtime = writes + 1]
    BY <1>10 DEF RewriteKeys
  <2>2. /\ keys'[mode].there = TRUE /\ keys'[mode].jwk = j /\ keys'[mode].mtime = writes + 1
        /\ \A f \in Form \ {mode} : keys'[f] = keys[f]
    BY <2>1 DEF TypeOK, KeyFile
  <2>3. /\ UNCHANGED <<mode, config, upheavals, daemon, task>> /\ writes' = writes + 1
        /\ change' # "copied"
    BY <1>10 DEF RewriteKeys, Elsewhere
  <2>4. FilesMove /\ WorldMove
    BY <2>2, <2>3, WorldTyped DEF FilesMove, WorldMove, daemon
  <2>5. FilesOK'
    <3>1. \A f \in Form : keys'[f].jwk <= writes'
      BY <2>2, <2>3, WorldTyped DEF AgentInvariant, FilesOK
    <3>2. vault # "locked" /\ keys'[vault].there => cache.stamp <= keys'[vault].mtime
      BY <2>2, <2>3, WorldTyped DEF AgentInvariant, FilesOK, CaptureInvariant
    <3>3. config <= writes + 1
      BY WorldTyped DEF AgentInvariant, FilesOK
    <3> QED
      BY <2>2, <2>3, <3>1, <3>2, <3>3 DEF AgentInvariant, FilesOK, daemon
  <2> QED
    BY <2>3, <2>4, <2>5, FilesFresh
<1>11. CASE EditConfig
  <2>1. /\ UNCHANGED <<mode, keys, change, upheavals, daemon, task>> /\ writes' = writes + 1
        /\ config' \in {writes + 1, -(writes + 1), 0}
    BY <1>11 DEF EditConfig, Elsewhere
  <2>2. FilesMove /\ WorldMove
    BY <2>1, WorldTyped DEF FilesMove, WorldMove, daemon
  <2>3. FilesOK'
    BY <2>1, WorldTyped DEF AgentInvariant, FilesOK, daemon
  <2> QED
    BY <2>1, <2>2, <2>3, FilesFresh
<1>12. CASE CopyKeys
  <2>1. PICK k : keys' = [keys EXCEPT ![Other(mode)] = [there |-> TRUE, key |-> k,
                                                jwk |-> keys[mode].jwk, mtime |-> writes + 1]]
    BY <1>12 DEF CopyKeys
  <2>2. mode \in Form /\ Other(mode) \in Form /\ Other(mode) # mode
        /\ Form = {mode, Other(mode)}
    BY WorldTyped DEF Other, Form
  <2>3. /\ keys'[Other(mode)].there = TRUE /\ keys'[Other(mode)].mtime = writes + 1
        /\ keys'[Other(mode)].jwk = keys[mode].jwk /\ keys'[mode] = keys[mode]
    BY <2>1, <2>2 DEF TypeOK
  <2>4. UNCHANGED <<mode, config, upheavals, daemon, task>> /\ writes' = writes + 1
    BY <1>12 DEF CopyKeys, Elsewhere
  <2>5. FilesMove /\ WorldMove
    BY <2>2, <2>3, <2>4, WorldTyped DEF FilesMove, WorldMove, daemon
  <2>6. FilesOK'
    <3>1. \A f \in Form : keys'[f].jwk <= writes'
      BY <2>2, <2>3, <2>4, WorldTyped DEF AgentInvariant, FilesOK
    <3>2. vault # "locked" /\ keys'[vault].there => cache.stamp <= keys'[vault].mtime
      BY <2>2, <2>3, WorldTyped DEF AgentInvariant, FilesOK, CaptureInvariant
    <3> QED
      BY <2>2, <2>3, <2>4, <3>1, <3>2, WorldTyped DEF AgentInvariant, FilesOK, daemon, Other
  <2> QED
    BY <2>4, <2>5, <2>6, FilesFresh
<1>13. CASE FlipMode
  <2>1. /\ UNCHANGED <<keys, config, writes, daemon, task>> /\ mode' = Other(mode)
        /\ change = "copied" /\ change' = "flipped" /\ upheavals' = upheavals + 1
    BY <1>13 DEF FlipMode, Elsewhere
  <2>2. FilesMove /\ WorldMove
    BY <2>1, WorldTyped DEF FilesMove, WorldMove
  <2>3. FilesOK'
    BY <2>1 DEF AgentInvariant, FilesOK, daemon
  <2> QED
    BY <2>1, <2>2, <2>3, FilesFresh
<1>14. CASE DiscardStale
  <2>1. /\ UNCHANGED <<mode, config, writes, upheavals, daemon, task>> /\ change' = "no"
        /\ keys' = [keys EXCEPT ![Other(mode)] = NoFile]
    BY <1>14 DEF DiscardStale, Elsewhere
  <2>2. mode \in Form /\ Other(mode) \in Form /\ Other(mode) # mode
        /\ Form = {mode, Other(mode)}
    BY WorldTyped DEF Other, Form
  <2>3. /\ keys'[Other(mode)].there = FALSE /\ keys'[Other(mode)].mtime = 0
        /\ keys'[Other(mode)].jwk = 0 /\ keys'[mode] = keys[mode]
    BY <2>1, <2>2 DEF TypeOK, NoFile
  <2>4. FilesMove /\ WorldMove
    BY <2>1, <2>2, <2>3, WorldTyped DEF FilesMove, WorldMove, daemon
  <2>5. FilesOK'
    BY <2>1, <2>2, <2>3, WorldTyped DEF AgentInvariant, FilesOK, daemon
  <2> QED
    BY <2>1, <2>4, <2>5, FilesFresh
<1>15. CASE AbandonChange
  <2>1. UNCHANGED <<mode, keys, config, writes, upheavals, daemon, task>> /\ change' = "no"
    BY <1>15 DEF AbandonChange, Elsewhere
  <2>2. FilesMove /\ WorldMove
    BY <2>1, WorldTyped DEF FilesMove, WorldMove, daemon
  <2>3. FilesOK'
    BY <2>1 DEF AgentInvariant, FilesOK, daemon
  <2> QED
    BY <2>1, <2>2, <2>3, FilesFresh
<1>16. CASE UNCHANGED vars
  <2>1. UNCHANGED <<mode, keys, config, change, writes, upheavals, daemon, task>>
    BY <1>16 DEF vars, files
  <2>2. FilesMove /\ WorldMove
    BY <2>1, WorldTyped DEF FilesMove, WorldMove, daemon
  <2>3. FilesOK'
    BY <2>1 DEF AgentInvariant, FilesOK, daemon
  <2> QED
    BY <2>1, <2>2, <2>3, FilesFresh
<1> QED
  BY <1>1, <1>2, <1>4, <1>5, <1>7, <1>8, <1>9, <1>10, <1>11, <1>12, <1>13, <1>14, <1>15, <1>16
     DEF Next, VaultRequest, OtherProcess

(* The agent's inductive invariant, of captures, stamps and what a request under
   way can still be answered with, holds in every reachable state. *)
THEOREM AgentInvariantHolds == Spec => []AgentInvariant
<1>1. Init /\ TypeOK /\ CaptureInvariant => AgentInvariant
  <2> SUFFICES ASSUME Init, TypeOK, CaptureInvariant PROVE AgentInvariant
    OBVIOUS
  <2>1. FilesOK
    BY DEF Init, FilesOK, NoFile
  <2>2. ASSUME NEW t \in Task
        PROVE  RefreshOK(t) /\ WorldSince(t) /\ ConfigFresh(t) /\ KeyFresh(t)
    <3>1. /\ task[t].pc = "idle" /\ task[t].known = -1 /\ task[t].begun = Never
          /\ writes = 1 /\ config = 1 /\ upheavals = 0
      BY DEF Init, Idle
    <3>2. /\ task[t].begun.settled = FALSE /\ task[t].begun.config = 0
          /\ task[t].begun.jwk = 0 /\ task[t].begun.upheavals = 0
      BY <3>1 DEF Never
    <3>3. ~Undisturbed(t)
      BY <3>2 DEF Undisturbed
    <3> QED
      BY <3>1, <3>2, <3>3 DEF RefreshOK, WorldSince, ConfigFresh, KeyFresh, Answered
  <2> QED
    BY <2>1, <2>2 DEF AgentInvariant
<1>2. TypeOK /\ TypeOK' /\ AgentInvariant /\ CaptureInvariant' /\ [Next]_vars => AgentInvariant'
  BY AgentInvariantStep
<1> QED
  BY <1>1, <1>2, AgentTypeCorrect, CaptureInvariantHolds, PTL DEF Spec

(* For any number of connections and changes, no request is answered with a client
   whose config was replaced before the request began, nor, in an undisturbed one,
   with a client whose key was. *)
THEOREM ServedFresh == Spec => []ServedIsFresh
<1>1. TypeOK /\ AgentInvariant => ServedIsFresh
  <2> SUFFICES ASSUME TypeOK, AgentInvariant, NEW t \in Task, Answered(t)
               PROVE  /\ task[t].served.config >= task[t].begun.config
                      /\ task[t].begun.settled /\ task[t].begun.upheavals = upheavals
                            => task[t].served.jwk >= task[t].begun.jwk
    BY DEF ServedIsFresh
  <2> QED
    BY BegunTyped DEF AgentInvariant, ConfigFresh, KeyFresh, Undisturbed
<1> QED
  BY <1>1, AgentInvariantHolds, AgentTypeCorrect, PTL
=============================================================================
