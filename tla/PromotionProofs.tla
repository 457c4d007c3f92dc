--------------------------- MODULE PromotionProofs ---------------------------
(***************************************************************************)
(* For any number of operators, promotionIds, commands and failed          *)
(* promotions: a promotion command reports as done only what is done for   *)
(* its own request, sends only what its operator approved, and the one     *)
(* report it names is its own.                                             *)
(***************************************************************************)
EXTENDS Promotion, TLAPS

Asking == {"first", "ask", "prepared", "second", "send"}
Watching == {"wait", "poll"}

\* How lock, status, id, blocking error and job of a pair go together.
ServiceOK ==
    /\ status = "UNLOCKED" => lock = All("unlocked") /\ id = None /\ ~blocking
    /\ status # "UNLOCKED" => id \in given
    /\ status = "LOCKING" => \A side \in Sides : lock[side] \in {"locking", "locked"}
    /\ status \in {"READY", "RUNNING"} => lock = All("locked")
    /\ status = "UNLOCKING" => lock \in {All("unlocking"), All("unlocked")}
    /\ job # None => status \in {"READY", "RUNNING"} /\ ~blocking
    /\ blocking => status \in {"READY", "UNLOCKING"}

\* Commands are numbered as they start.
Numbered ==
    /\ ended \subseteq 1..ops
    /\ job # None => job.op \in 1..ops
    /\ \A report \in reports : report.op \in 1..ops
    /\ \A c \in Clients : run[c].pc # "idle" => run[c].op \in 1..ops /\ run[c].verb \in Verbs
    /\ \A c, d \in Clients :
          c # d /\ run[c].pc # "idle" /\ run[d].pc # "idle" => run[c].op # run[d].op

\* Nothing is known under the number of a command that has sent nothing.
Unsent(c) ==
    run[c].pc \in Asking =>
        /\ run[c].op \notin ended
        /\ job # None => job.op # run[c].op
        /\ \A report \in reports : report.op # run[c].op
        /\ ~run[c].running

\* The reports listed before a command sent are of other commands.
BeforeIsOlder(c) == \A report \in run[c].before : report.op # run[c].op

\* A request about to go out is for the lock that was approved.
SendOK(c) ==
    run[c].pc = "send" =>
        /\ run[c].target = run[c].approved
        /\ run[c].verb = "Recover" =>
              run[c].target = run[c].expected /\ run[c].target \in given /\ (id = run[c].target => blocking)
        /\ run[c].verb = "Promote" /\ run[c].fresh =>
              id = run[c].approved /\ status \in {"READY", "RUNNING"}

OwnReport(r) == [op |-> r.op, id |-> r.target, dry |-> r.dry]

\* A promotion that was accepted is under way, or over with or without a
\* blocking error, as long as its lock stands; RUNNING seen under its lock was
\* its own.
PromotingOK(c) ==
    run[c].verb = "Promote" =>
        /\ job # None /\ job.op = run[c].op =>
              /\ id = run[c].target /\ job.dry = run[c].dry
              /\ run[c].running => status = "RUNNING"
        /\ id = run[c].target =>
              (job # None /\ job.op = run[c].op) \/ run[c].op \in ended \/ blocking
        /\ run[c].op \in ended => OwnReport(run[c]) \in reports

WatchOK(c) ==
    /\ run[c].pc \in Watching => run[c].target \in given /\ PromotingOK(c)
    /\ run[c].pc = "report" => OwnReport(run[c]) \in reports

CommandOK(c) == Unsent(c) /\ BeforeIsOlder(c) /\ SendOK(c) /\ WatchOK(c)

\* The inductive invariant.
PromotionInvariant == TypeOK /\ ServiceOK /\ Numbered /\ \A c \in Clients : CommandOK(c)

-----------------------------------------------------------------------------
(* Types *)

(* A command between commands is well-typed. *)
LEMMA IdleTyped ==
  ASSUME PromotionAssumption
  PROVE  Idle \in Commands
  BY DEF Idle, Commands, Steps, PromotionAssumption

(* The fields of a well-typed command. *)
LEMMA RunTyped ==
  ASSUME TypeOK, NEW c \in Clients
  PROVE  /\ run[c] \in Commands
         /\ run[c].pc \in Steps /\ run[c].verb \in Verbs \union {None}
         /\ run[c].op \in 0..MaxOps /\ run[c].expected \in Ids \union {None}
         /\ run[c].seen \in [Sides -> LockStates] \union {None}
         /\ run[c].approved \in Ids \union {None} /\ run[c].target \in Ids \union {None}
         /\ run[c].running \in BOOLEAN /\ run[c].fresh \in BOOLEAN /\ run[c].dry \in BOOLEAN
         /\ run[c].before \in SUBSET Reports
<1>1. run[c] \in Commands
  BY DEF TypeOK
<1> QED
  BY <1>1 DEF Commands

(* A command that moves on, whatever else it notes, is well-typed. *)
LEMMA MoveTyped ==
  ASSUME TypeOK, NEW c \in Clients, NEW pc \in Steps
  PROVE  /\ [run[c] EXCEPT !.pc = pc] \in Commands
         /\ \A i \in Ids \union {None} :
               /\ [run[c] EXCEPT !.pc = pc, !.approved = i] \in Commands
               /\ [run[c] EXCEPT !.pc = pc, !.target = i] \in Commands
               /\ [run[c] EXCEPT !.pc = pc, !.target = i, !.fresh = TRUE] \in Commands
         /\ \A b \in SUBSET Reports : [run[c] EXCEPT !.pc = pc, !.before = b] \in Commands
         /\ \A s \in [Sides -> LockStates] : [run[c] EXCEPT !.pc = pc, !.seen = s] \in Commands
         /\ \A b \in BOOLEAN : [run[c] EXCEPT !.pc = pc, !.running = b] \in Commands
         /\ [run[c] EXCEPT !.fresh = FALSE] \in Commands
<1>1. run[c] \in Commands
  BY RunTyped
<1>2. [run[c] EXCEPT !.pc = pc] \in Commands /\ [run[c] EXCEPT !.fresh = FALSE] \in Commands
  BY <1>1 DEF Commands
<1>3. ASSUME NEW i \in Ids \union {None}
      PROVE  /\ [run[c] EXCEPT !.pc = pc, !.approved = i] \in Commands
             /\ [run[c] EXCEPT !.pc = pc, !.target = i] \in Commands
             /\ [run[c] EXCEPT !.pc = pc, !.target = i, !.fresh = TRUE] \in Commands
  BY <1>1 DEF Commands
<1>4. \A b \in SUBSET Reports : [run[c] EXCEPT !.pc = pc, !.before = b] \in Commands
  BY <1>1 DEF Commands
<1>5. \A s \in [Sides -> LockStates] : [run[c] EXCEPT !.pc = pc, !.seen = s] \in Commands
  BY <1>1 DEF Commands
<1>6. \A b \in BOOLEAN : [run[c] EXCEPT !.pc = pc, !.running = b] \in Commands
  BY <1>1 DEF Commands
<1> QED
  BY <1>2, <1>3, <1>4, <1>5, <1>6

(* Replacing one command keeps the commands well-typed. *)
LEMMA ReplaceTyped ==
  ASSUME TypeOK, NEW c \in Clients, NEW r \in Commands
  PROVE  [run EXCEPT ![c] = r] \in [Clients -> Commands]
  BY DEF TypeOK

(* A set of reports grows by the one of the job that ends. *)
LEMMA JobReport ==
  ASSUME TypeOK, job # None, id # None
  PROVE  [op |-> job.op, id |-> id, dry |-> job.dry] \in Reports
  BY DEF TypeOK, Jobs, Reports

(* Both sides in one state. *)
LEMMA AllSides ==
  /\ \A state \in LockStates : All(state) \in [Sides -> LockStates]
  /\ \A state : \A side \in Sides : All(state)[side] = state
  BY DEF All

(* What a request does to the pair keeps its types. *)
LEMMA EffectTyped ==
  ASSUME PromotionAssumption, TypeOK, NEW c \in Clients, run[c].pc = "send",
         run[c].op \in 1..MaxOps, run[c].verb \in Verbs, Effect(run[c])
  PROVE  /\ lock' \in [Sides -> LockStates] /\ status' \in Statuses
         /\ id' \in Ids \union {None} /\ blocking' \in BOOLEAN
         /\ job' \in Jobs \union {None} /\ given' \subseteq Ids
<1>1. run[c].dry \in BOOLEAN
  BY RunTyped
<1>2. CASE run[c].verb = "Lock"
  BY <1>2, AllSides DEF Effect, TypeOK, Statuses, LockStates
<1>3. CASE run[c].verb = "Promote"
  <2>1. job' = [op |-> run[c].op, dry |-> run[c].dry]
    BY <1>3 DEF Effect
  <2>2. job' \in Jobs
    BY <2>1, <1>1 DEF Jobs
  <2> QED
    BY <1>3, <2>2 DEF Effect, TypeOK
<1>4. CASE run[c].verb \in {"Unlock", "Recover"}
  BY <1>4, AllSides DEF Effect, TypeOK, Statuses, LockStates
<1> QED
  BY <1>2, <1>3, <1>4 DEF Verbs

(* A step of a command that changes only the command itself. *)
LEMMA ReadOnlyTyped ==
  ASSUME TypeOK, NEW c \in Clients, NEW r \in Commands, run' = [run EXCEPT ![c] = r],
         ReadOnly, ops' = ops
  PROVE  TypeOK'
<1>1. run' \in [Clients -> Commands]
  BY ReplaceTyped
<1> QED
  BY <1>1 DEF TypeOK, ReadOnly, service

(* The steps of the promotion service keep the types. *)
LEMMA ServiceTyped ==
  ASSUME PromotionAssumption, TypeOK, ServiceOK, Service
  PROVE  TypeOK'
<1>1. CASE LockProgress
  BY <1>1 DEF LockProgress, TypeOK, LockStates, Statuses
<1>2. CASE UnlockProgress
  BY <1>2, AllSides DEF UnlockProgress, TypeOK, LockStates, Statuses
<1>3. CASE JobStarts
  BY <1>3 DEF JobStarts, TypeOK, Statuses
<1>4. CASE JobEnds
  <2>1. job # None /\ status = "RUNNING" /\ job \in Jobs
    BY <1>4 DEF JobEnds, TypeOK
  <2>2. id \in Ids
    BY <2>1 DEF ServiceOK, TypeOK
  <2>3. reports' \subseteq Reports
    BY <1>4, <2>1, <2>2, JobReport DEF JobEnds, TypeOK, PromotionAssumption
  <2>4. ended' \subseteq 1..MaxOps
    <3>1. job.op \in 1..MaxOps
      BY <2>1 DEF Jobs
    <3> QED
      BY <1>4, <3>1 DEF JobEnds, TypeOK
  <2>5. failures' \in 0..MaxFailures
    BY <1>4 DEF JobEnds, TypeOK, PromotionAssumption
  <2>6. blocking' \in BOOLEAN
    BY <1>4 DEF JobEnds, TypeOK
  <2> QED
    BY <1>4, <2>3, <2>4, <2>5, <2>6 DEF JobEnds, TypeOK, Statuses
<1> QED
  BY <1>1, <1>2, <1>3, <1>4 DEF Service

(* A request that is accepted keeps the types. *)
LEMMA SendTyped ==
  ASSUME PromotionAssumption, TypeOK, Numbered, NEW c \in Clients, Send(c) \/ SendLost(c)
  PROVE  TypeOK'
<1>1. run[c].pc = "send" /\ Effect(run[c]) /\ run[c].op \in 1..MaxOps /\ run[c].verb \in Verbs
  BY DEF Send, SendLost, Numbered, TypeOK, PromotionAssumption
<1>2. /\ lock' \in [Sides -> LockStates] /\ status' \in Statuses
      /\ id' \in Ids \union {None} /\ blocking' \in BOOLEAN
      /\ job' \in Jobs \union {None} /\ given' \subseteq Ids
  BY <1>1, EffectTyped
<1>3. Stale(c) \in [Clients -> Commands]
  BY MoveTyped, RunTyped DEF Stale, Steps
<1>4. run' \in [Clients -> Commands]
  <2>1. CASE Send(c)
    <3>1. run' = [Stale(c) EXCEPT ![c] = [run[c] EXCEPT !.pc = "wait", !.target = id']]
      BY <2>1 DEF Send, Stale
    <3>2. [run[c] EXCEPT !.pc = "wait", !.target = id'] \in Commands
      BY <1>2, MoveTyped DEF Steps
    <3> QED
      BY <3>1, <3>2, <1>3
  <2>2. CASE SendLost(c)
    BY <2>2, <1>3, IdleTyped DEF SendLost
  <2> QED
    BY <2>1, <2>2
<1> QED
  BY <1>2, <1>4 DEF Send, SendLost, TypeOK

(* Every step of a command keeps the types. *)
LEMMA CommandTyped ==
  ASSUME PromotionAssumption, TypeOK, Numbered, NEW c \in Clients, Command(c)
  PROVE  TypeOK'
<1> USE DEF Steps
<1>1. ASSUME NEW verb \in Verbs, NEW expected \in given \union {None}, NEW dry \in BOOLEAN,
             Start(c, verb, expected, dry)
      PROVE  TypeOK'
  <2> DEFINE r == [Idle EXCEPT !.pc = "first", !.verb = verb, !.op = ops + 1,
                               !.expected = expected, !.dry = dry, !.seen = lock]
  <2>1. r \in Commands
    <3>1. ops + 1 \in 0..MaxOps /\ expected \in Ids \union {None} /\ lock \in [Sides -> LockStates]
      BY <1>1 DEF Start, TypeOK, PromotionAssumption
    <3> QED
      BY <3>1, IdleTyped DEF Commands
  <2>2. run' = [run EXCEPT ![c] = r] /\ ops' \in 0..MaxOps
    BY <1>1 DEF Start, TypeOK, PromotionAssumption
  <2> HIDE DEF r
  <2>3. run' \in [Clients -> Commands]
    BY <2>1, <2>2, ReplaceTyped
  <2> QED
    BY <1>1, <2>2, <2>3 DEF Start, TypeOK, ReadOnly, service
<1>2. ASSUME run' = [run EXCEPT ![c] = Idle], ReadOnly, ops' = ops
      PROVE  TypeOK'
  BY <1>2, IdleTyped, ReadOnlyTyped
<1>3. ASSUME NEW pc \in Steps, run' = [run EXCEPT ![c].pc = pc], ReadOnly, ops' = ops
      PROVE  TypeOK'
  BY <1>3, MoveTyped, ReadOnlyTyped
<1>4. CASE First(c)
  <2>1. CASE Eligible(run[c])
    <3>1. run' = [run EXCEPT ![c] = [run[c] EXCEPT !.pc = "ask", !.approved = Approval(run[c])]]
      BY <1>4, <2>1 DEF First
    <3>2. Approval(run[c]) \in Ids \union {None}
      BY DEF Approval, TypeOK
    <3> QED
      BY <1>4, <3>1, <3>2, MoveTyped, ReadOnlyTyped DEF First
  <2> QED
    BY <1>4, <2>1, <1>2 DEF First, End
<1>5. CASE Consent(c)
  <2>1. run' = [run EXCEPT ![c] = [run[c] EXCEPT !.pc = "prepared",
                   !.before = IF run[c].verb = "Promote" THEN reports ELSE {}]]
    BY <1>5 DEF Consent
  <2>2. (IF run[c].verb = "Promote" THEN reports ELSE {}) \in SUBSET Reports
    BY DEF TypeOK
  <2> QED
    BY <1>5, <2>1, <2>2, MoveTyped, ReadOnlyTyped DEF Consent
<1>6. CASE Reread(c)
  <2>1. run' = [run EXCEPT ![c] = [run[c] EXCEPT !.pc = "second", !.seen = lock]]
    BY <1>6 DEF Reread
  <2> QED
    BY <1>6, <2>1, MoveTyped, ReadOnlyTyped DEF Reread, TypeOK
<1>7. CASE Authorize(c)
  <2>1. CASE Authorized(run[c])
    <3>1. run' = [run EXCEPT ![c] = [run[c] EXCEPT !.pc = "send", !.target = Approval(run[c]),
                                                   !.fresh = TRUE]]
      BY <1>7, <2>1 DEF Authorize
    <3>2. Approval(run[c]) \in Ids \union {None}
      BY DEF Approval, TypeOK
    <3> QED
      BY <1>7, <3>1, <3>2, MoveTyped, ReadOnlyTyped DEF Authorize
  <2> QED
    BY <1>7, <2>1, <1>2 DEF Authorize, End
<1>8. CASE Poll(c)
  <2>1. run' = [run EXCEPT ![c] = [run[c] EXCEPT !.pc = "poll", !.seen = lock]]
    BY <1>8 DEF Poll
  <2> QED
    BY <1>8, <2>1, MoveTyped, ReadOnlyTyped DEF Poll, TypeOK
<1>9. CASE Watch(c)
  <2>1. CASE Judge(run[c]) = "Pending"
    <3> DEFINE b == run[c].running \/
                      (run[c].verb = "Promote" /\ Phase(run[c].seen) = "Running" /\ id # None)
    <3>1. run' = [run EXCEPT ![c] = [run[c] EXCEPT !.pc = "wait", !.running = b]]
      BY <1>9, <2>1 DEF Watch
    <3>2. b \in BOOLEAN
      OBVIOUS
    <3> HIDE DEF b
    <3> QED
      BY <1>9, <3>1, <3>2, MoveTyped, ReadOnlyTyped DEF Watch
  <2>2. CASE Judge(run[c]) # "Pending"
    BY <1>9, <2>2, <1>2, <1>3 DEF Watch, Goto, End
  <2> QED
    BY <2>1, <2>2
<1>10. CASE Decline(c) \/ Refused(c) \/ Identify(c) \/ GiveUp(c)
  BY <1>10, <1>2 DEF Decline, Refused, Identify, GiveUp, End
<1>11. CASE Send(c) \/ SendLost(c)
  BY <1>11, SendTyped
<1> QED
  BY <1>1, <1>4, <1>5, <1>6, <1>7, <1>8, <1>9, <1>10, <1>11 DEF Command

-----------------------------------------------------------------------------
(* The promotion service *)

(* A command that no step changes is as good after it as long as neither the *)
(* lock nor what is known under its number changes.                          *)
LEMMA OthersUndisturbed ==
  ASSUME TypeOK, TypeOK', ServiceOK, NEW c \in Clients, CommandOK(c),
         run'[c] = run[c] \/ run'[c] = [run[c] EXCEPT !.fresh = FALSE],
         UNCHANGED service
  PROVE  CommandOK(c)'
<1>1. run[c] \in Commands
  BY RunTyped
<1>2. /\ run'[c].pc = run[c].pc /\ run'[c].op = run[c].op /\ run'[c].before = run[c].before
      /\ run'[c].target = run[c].target /\ run'[c].approved = run[c].approved
      /\ run'[c].expected = run[c].expected /\ run'[c].verb = run[c].verb
      /\ run'[c].dry = run[c].dry /\ run'[c].running = run[c].running
      /\ run'[c].fresh => run[c].fresh
  BY <1>1 DEF Commands
<1> QED
  BY <1>2 DEF CommandOK, Unsent, BeforeIsOlder, SendOK, WatchOK, PromotingOK, OwnReport, service

(* The service's own steps keep the pair consistent. *)
LEMMA ServiceStaysOK ==
  ASSUME PromotionAssumption, TypeOK, ServiceOK, Service
  PROVE  ServiceOK'
<1>1. CASE LockProgress
  <2>1. CASE \E side \in Sides :
               /\ lock[side] = "locking" /\ lock' = [lock EXCEPT ![side] = "locked"]
               /\ UNCHANGED status
    <3>1. PICK side \in Sides : /\ lock[side] = "locking"
                                /\ lock' = [lock EXCEPT ![side] = "locked"]
                                /\ UNCHANGED status
      BY <2>1
    <3>2. status = "LOCKING"
      BY <3>1, AllSides DEF ServiceOK, TypeOK, Statuses, LockStates
    <3> QED
      BY <1>1, <3>1, <3>2 DEF LockProgress, ServiceOK, TypeOK
  <2>2. CASE lock = All("locked") /\ status = "LOCKING" /\ status' = "READY" /\ UNCHANGED lock
    BY <1>1, <2>2 DEF LockProgress, ServiceOK
  <2> QED
    BY <1>1, <2>1, <2>2 DEF LockProgress
<1>2. CASE UnlockProgress
  <2>1. All("unlocking")["upper"] = "unlocking" /\ All("locked")["upper"] = "locked"
        /\ All("unlocked")["upper"] = "unlocked"
    BY AllSides DEF Sides
  <2>2. CASE lock = All("unlocking") /\ lock' = All("unlocked") /\ UNCHANGED <<status, id, blocking>>
    <3>1. status = "UNLOCKING"
      BY <2>1, <2>2 DEF ServiceOK, TypeOK, Statuses, Sides
    <3> QED
      BY <1>2, <2>2, <3>1 DEF UnlockProgress, ServiceOK
  <2>3. CASE /\ lock = All("unlocked") /\ status = "UNLOCKING" /\ status' = "UNLOCKED"
             /\ id' = None /\ blocking' = FALSE /\ UNCHANGED lock
    BY <1>2, <2>3 DEF UnlockProgress, ServiceOK
  <2> QED
    BY <1>2, <2>2, <2>3 DEF UnlockProgress
<1>3. CASE JobStarts
  BY <1>3 DEF JobStarts, ServiceOK
<1>4. CASE JobEnds
  BY <1>4 DEF JobEnds, ServiceOK
<1> QED
  BY <1>1, <1>2, <1>3, <1>4 DEF Service

(* They also keep the numbers. *)
LEMMA ServiceKeepsNumbers ==
  ASSUME PromotionAssumption, TypeOK, Numbered, Service
  PROVE  Numbered'
<1>1. CASE LockProgress \/ UnlockProgress \/ JobStarts
  BY <1>1 DEF LockProgress, UnlockProgress, JobStarts, Numbered
<1>2. CASE JobEnds
  <2>1. job # None /\ job' = None /\ run' = run /\ ops' = ops
    BY <1>2 DEF JobEnds
  <2>2. job.op \in 1..ops
    BY <2>1 DEF Numbered
  <2>3. ended' \subseteq ended \union {job.op}
    BY <1>2 DEF JobEnds
  <2>4. reports' = reports \union {[op |-> job.op, id |-> id, dry |-> job.dry]}
    BY <1>2 DEF JobEnds
  <2> QED
    BY <2>1, <2>2, <2>3, <2>4 DEF Numbered
<1> QED
  BY <1>1, <1>2 DEF Service

(* And what each command relies on. *)
LEMMA ServiceKeepsCommands ==
  ASSUME PromotionAssumption, PromotionInvariant, Service, NEW c \in Clients
  PROVE  CommandOK(c)'
<1> USE DEF PromotionInvariant
<1>0. run' = run /\ given' = given /\ CommandOK(c)
  BY DEF Service, LockProgress, UnlockProgress, JobStarts, JobEnds
<1>1. CASE LockProgress
  <2>1. UNCHANGED <<id, blocking, job, ended, reports>>
    BY <1>1 DEF LockProgress
  <2>2. status \in {"READY", "RUNNING"} => status' = status
    <3>1. CASE UNCHANGED status
      BY <3>1
    <3>2. CASE status = "LOCKING"
      BY <3>2
    <3> QED
      BY <1>1, <3>1, <3>2 DEF LockProgress
  <2>3. status = "RUNNING" => status' = "RUNNING"
    BY <2>2
  <2> QED
    BY <1>0, <2>1, <2>2, <2>3
    DEF CommandOK, Unsent, BeforeIsOlder, SendOK, WatchOK, PromotingOK, OwnReport
<1>2. CASE UnlockProgress
  <2>1. UNCHANGED <<job, ended, reports>>
    BY <1>2 DEF UnlockProgress
  <2>2. CASE UNCHANGED <<status, id, blocking>>
    BY <1>0, <2>1, <2>2
    DEF CommandOK, Unsent, BeforeIsOlder, SendOK, WatchOK, PromotingOK, OwnReport
  <2>3. CASE status = "UNLOCKING" /\ status' = "UNLOCKED" /\ id' = None
    <3>1. job = None
      BY <2>3 DEF ServiceOK
    <3>2. \A i \in given : i # None
      BY DEF PromotionAssumption, TypeOK
    <3>3. Unsent(c)' /\ BeforeIsOlder(c)'
      BY <1>0, <2>1 DEF CommandOK, Unsent, BeforeIsOlder
    <3>4. SendOK(c)'
      BY <1>0, <2>3, <3>2 DEF CommandOK, SendOK
    <3>5. WatchOK(c)'
      BY <1>0, <2>1, <2>3, <3>1, <3>2 DEF CommandOK, WatchOK, PromotingOK, OwnReport
    <3> QED
      BY <3>3, <3>4, <3>5 DEF CommandOK
  <2> QED
    BY <1>2, <2>2, <2>3 DEF UnlockProgress
<1>3. CASE JobStarts
  BY <1>0, <1>3
  DEF JobStarts, CommandOK, Unsent, BeforeIsOlder, SendOK, WatchOK, PromotingOK, OwnReport
<1>4. CASE JobEnds
  <2> DEFINE new == [op |-> job.op, id |-> id, dry |-> job.dry]
  <2>1. /\ job # None /\ job' = None /\ id' = id /\ status = "RUNNING" /\ status' = "READY"
        /\ reports' = reports \union {new}
    BY <1>4 DEF JobEnds
  <2>2. /\ ended \subseteq ended' /\ ended' \subseteq ended \union {job.op}
        /\ job.op \in ended' \/ blocking'
        /\ blocking => blocking'
    BY <1>4 DEF JobEnds
  <2>3. new.op = job.op
    OBVIOUS
  <2>4. Unsent(c)' /\ BeforeIsOlder(c)'
    BY <1>0, <2>1, <2>2, <2>3 DEF CommandOK, Unsent, BeforeIsOlder
  <2>5. SendOK(c)'
    BY <1>0, <2>1, <2>2 DEF CommandOK, SendOK
  <2>6. WatchOK(c)'
    <3>1. ASSUME run[c].pc \in Watching, run[c].verb = "Promote" PROVE PromotingOK(c)'
      <4>1. PromotingOK(c)
        BY <1>0, <3>1 DEF CommandOK, WatchOK
      <4>2. id = run[c].target => run[c].op \in ended' \/ blocking'
        BY <2>1, <2>2, <3>1, <4>1 DEF PromotingOK
      <4>3. job.op = run[c].op => new = OwnReport(run[c])
        BY <2>1, <3>1, <4>1 DEF PromotingOK, OwnReport
      <4>4. run[c].op \in ended' => OwnReport(run[c]) \in reports'
        BY <2>1, <2>2, <3>1, <4>1, <4>3 DEF PromotingOK
      <4> QED
        BY <1>0, <2>1, <4>2, <4>4 DEF PromotingOK, OwnReport
    <3>2. run[c].verb # "Promote" => PromotingOK(c)'
      BY <1>0 DEF PromotingOK
    <3> QED
      BY <1>0, <2>1, <3>1, <3>2 DEF CommandOK, WatchOK, OwnReport
  <2> QED
    BY <2>4, <2>5, <2>6 DEF CommandOK
<1> QED
  BY <1>1, <1>2, <1>3, <1>4 DEF Service

-----------------------------------------------------------------------------
(* The requests *)

(* What the service is after a request it accepted, and how it was before. *)
LEMMA RequestStaysOK ==
  ASSUME PromotionAssumption, PromotionInvariant, NEW c \in Clients, run[c].pc = "send",
         run[c].verb \in Verbs, Accepts(run[c]), Effect(run[c])
  PROVE  /\ ServiceOK' /\ given \subseteq given' /\ id' \in given' /\ job = None
         /\ run[c].verb = "Lock" => id' \notin given /\ UNCHANGED job
         /\ run[c].verb = "Promote" =>
               /\ job' = [op |-> run[c].op, dry |-> run[c].dry]
               /\ UNCHANGED <<id, status, blocking>>
         /\ run[c].verb \in {"Unlock", "Recover"} =>
               UNCHANGED <<id, blocking, job>> /\ status = "READY"
<1> USE DEF PromotionInvariant
<1>1. All("unlocked")["upper"] = "unlocked" /\ All("locked")["upper"] = "locked"
  BY AllSides DEF Sides
<1>2. CASE run[c].verb = "Lock"
  <2>1. status = "UNLOCKED" /\ job = None /\ ~blocking
    BY <1>2 DEF Accepts, ServiceOK
  <2>2. /\ lock' = All("locking") /\ status' = "LOCKING" /\ id' \in given' /\ id' \notin given
        /\ given' = given \union {id'} /\ UNCHANGED <<blocking, job>>
    BY <1>2 DEF Effect
  <2>3. ServiceOK'
    BY <2>1, <2>2, AllSides DEF ServiceOK
  <2> QED
    BY <1>2, <2>1, <2>2, <2>3
<1>3. CASE run[c].verb = "Promote"
  <2>1. status = "READY" /\ job = None /\ ~blocking
    BY <1>3 DEF Accepts
  <2>2. job' = [op |-> run[c].op, dry |-> run[c].dry] /\ UNCHANGED <<lock, status, id, blocking, given>>
    BY <1>3 DEF Effect
  <2>3. ServiceOK'
    BY <2>1, <2>2 DEF ServiceOK
  <2> QED
    BY <1>3, <2>1, <2>2, <2>3 DEF ServiceOK
<1>4. CASE run[c].verb \in {"Unlock", "Recover"}
  <2>1. status = "READY" /\ job = None
    BY <1>4 DEF Accepts
  <2>2. lock' = All("unlocking") /\ status' = "UNLOCKING" /\ UNCHANGED <<id, blocking, job, given>>
    BY <1>4 DEF Effect
  <2>3. ServiceOK'
    BY <2>1, <2>2 DEF ServiceOK
  <2> QED
    BY <1>4, <2>1, <2>2, <2>3 DEF ServiceOK
<1> QED
  BY <1>2, <1>3, <1>4 DEF Verbs

(* An accepted request leaves the other commands what they rely on, *)
(* but what they read last is older than it now.                    *)
LEMMA RequestKeepsOthers ==
  ASSUME PromotionAssumption, PromotionInvariant, NEW c \in Clients, run[c].pc = "send",
         run[c].verb \in Verbs, Accepts(run[c]), Effect(run[c]), UNCHANGED <<ended, reports>>,
         NEW d \in Clients, d # c, run'[d] = [run[d] EXCEPT !.fresh = FALSE]
  PROVE  CommandOK(d)'
<1> USE DEF PromotionInvariant
<1>1. /\ given \subseteq given' /\ job = None
      /\ run[c].verb = "Lock" => id' \notin given /\ UNCHANGED job
      /\ run[c].verb = "Promote" =>
            /\ job' = [op |-> run[c].op, dry |-> run[c].dry]
            /\ UNCHANGED <<id, status, blocking>>
      /\ run[c].verb \in {"Unlock", "Recover"} =>
            UNCHANGED <<id, blocking, job>> /\ status = "READY"
  BY RequestStaysOK
<1>2. /\ run'[d].pc = run[d].pc /\ run'[d].op = run[d].op /\ run'[d].before = run[d].before
      /\ run'[d].target = run[d].target /\ run'[d].approved = run[d].approved
      /\ run'[d].expected = run[d].expected /\ run'[d].verb = run[d].verb
      /\ run'[d].dry = run[d].dry /\ run'[d].running = run[d].running /\ run'[d].fresh = FALSE
  BY RunTyped DEF Commands
<1>3. run[d].pc # "idle" => run[d].op # run[c].op
  BY DEF Numbered
<1>4. job' = None \/ job'.op = run[c].op
  BY <1>1 DEF Verbs
<1>5. Unsent(d)' /\ BeforeIsOlder(d)'
  BY <1>2, <1>3, <1>4 DEF CommandOK, Unsent, BeforeIsOlder, Asking
<1>6. \A i \in given : id' = i => id = i /\ blocking' = blocking
  BY <1>1 DEF Verbs
<1>7. SendOK(d)'
  BY <1>1, <1>2, <1>6 DEF CommandOK, SendOK
<1>8. WatchOK(d)'
  BY <1>1, <1>2, <1>3, <1>4, <1>6 DEF CommandOK, WatchOK, PromotingOK, OwnReport, Watching
<1> QED
  BY <1>5, <1>7, <1>8 DEF CommandOK

(* A request that is answered, or whose answer is lost. *)
LEMMA SendKeepsInvariant ==
  ASSUME PromotionAssumption, PromotionInvariant, NEW c \in Clients, Send(c) \/ SendLost(c), TypeOK'
  PROVE  PromotionInvariant'
<1> USE DEF PromotionInvariant
<1>1. /\ run[c].pc = "send" /\ run[c].verb \in Verbs /\ run[c].op \in 1..ops /\ Accepts(run[c])
      /\ Effect(run[c]) /\ UNCHANGED <<ended, reports, ops>>
  BY DEF Send, SendLost, Numbered
<1>2. /\ ServiceOK' /\ given \subseteq given' /\ id' \in given' /\ job = None
      /\ run[c].verb = "Lock" => id' \notin given /\ UNCHANGED job
      /\ run[c].verb = "Promote" =>
            /\ job' = [op |-> run[c].op, dry |-> run[c].dry]
            /\ UNCHANGED <<id, status, blocking>>
      /\ run[c].verb \in {"Unlock", "Recover"} =>
            UNCHANGED <<id, blocking, job>> /\ status = "READY"
  BY <1>1, RequestStaysOK
<1>3. \A d \in Clients : d # c => run'[d] = [run[d] EXCEPT !.fresh = FALSE]
  BY DEF Send, SendLost, Stale
<1>4. \/ run'[c] = Idle
      \/ run'[c] = [run[c] EXCEPT !.pc = "wait", !.target = id']
  BY DEF Send, SendLost, Stale
<1>5. \A d \in Clients : d # c => run'[d].pc = run[d].pc /\ run'[d].op = run[d].op
                                  /\ run'[d].verb = run[d].verb
  BY <1>3, RunTyped DEF Commands
<1>6. run'[c].pc # "idle" => run'[c].pc = "wait" /\ run'[c].op = run[c].op
                             /\ run'[c].verb = run[c].verb
  <2>1. CASE run'[c] = Idle
    BY <2>1 DEF Idle
  <2>2. CASE run'[c] = [run[c] EXCEPT !.pc = "wait", !.target = id']
    BY <2>2, RunTyped DEF Commands
  <2> QED
    BY <1>4, <2>1, <2>2
<1>7. Numbered'
  <2>1. job' # None => job'.op \in 1..ops
    BY <1>1, <1>2 DEF Verbs
  <2>2. \A d \in Clients : run'[d].pc # "idle" =>
           /\ run[d].pc # "idle" /\ run'[d].op = run[d].op /\ run'[d].verb = run[d].verb
    BY <1>1, <1>5, <1>6
  <2> QED
    BY <1>1, <2>1, <2>2 DEF Numbered
<1>8. CommandOK(c)'
  <2>1. CASE run'[c] = Idle
    BY <2>1 DEF Idle, CommandOK, Unsent, BeforeIsOlder, SendOK, WatchOK, Asking, Watching
  <2>2. CASE run'[c] = [run[c] EXCEPT !.pc = "wait", !.target = id']
    <3>1. /\ run'[c].pc = "wait" /\ run'[c].op = run[c].op /\ run'[c].before = run[c].before
          /\ run'[c].target = id' /\ run'[c].verb = run[c].verb
          /\ run'[c].dry = run[c].dry /\ run'[c].running = run[c].running
      BY <2>2, RunTyped DEF Commands
    <3>2. Unsent(c)' /\ BeforeIsOlder(c)' /\ SendOK(c)'
      BY <3>1 DEF CommandOK, Unsent, BeforeIsOlder, SendOK, Asking
    <3>3. /\ run[c].op \notin ended /\ ~run[c].running
      BY <1>1 DEF CommandOK, Unsent, Asking
    <3>4. PromotingOK(c)'
      <4>1. CASE run[c].verb # "Promote"
        BY <3>1, <4>1 DEF PromotingOK
      <4>2. CASE run[c].verb = "Promote"
        <5>1. job' # None /\ job'.op = run[c].op /\ job'.dry = run[c].dry
          <6>1. job' = [op |-> run[c].op, dry |-> run[c].dry]
            BY <1>2, <4>2
          <6>2. job' \in Jobs
            <7>1. run[c].op \in 1..MaxOps /\ run[c].dry \in BOOLEAN
              BY <1>1, RunTyped DEF TypeOK, PromotionAssumption
            <7> QED
              BY <6>1, <7>1 DEF Jobs
          <6> QED
            BY <6>1, <6>2 DEF PromotionAssumption
        <5> QED
          BY <1>1, <3>1, <3>3, <5>1 DEF PromotingOK
      <4> QED
        BY <4>1, <4>2
    <3>5. WatchOK(c)'
      BY <1>2, <3>1, <3>4 DEF WatchOK
    <3> QED
      BY <3>2, <3>5 DEF CommandOK
  <2> QED
    BY <1>4, <2>1, <2>2
<1>9. \A d \in Clients : d # c => CommandOK(d)'
  BY <1>1, <1>3, RequestKeepsOthers
<1> QED
  BY <1>2, <1>7, <1>8, <1>9

-----------------------------------------------------------------------------
(* The steps of a command that send nothing *)

(* Such a step keeps the invariant if the command itself stays in order. *)
LEMMA QuietStep ==
  ASSUME PromotionInvariant, TypeOK', NEW c \in Clients, UNCHANGED service, ops' = ops,
         \A d \in Clients : d # c => run'[d] = run[d],
         run'[c].pc # "idle" => /\ run[c].pc # "idle" /\ run'[c].op = run[c].op
                                /\ run'[c].verb = run[c].verb,
         CommandOK(c)'
  PROVE  PromotionInvariant'
<1> USE DEF PromotionInvariant
<1>1. \A d \in Clients : d # c => CommandOK(d)'
  BY OthersUndisturbed
<1>2. Numbered'
  <2>1. \A d \in Clients : run'[d].pc # "idle" =>
           run[d].pc # "idle" /\ run'[d].op = run[d].op /\ run'[d].verb = run[d].verb
    OBVIOUS
  <2> QED
    BY <2>1 DEF Numbered, service
<1>3. ServiceOK'
  BY DEF ServiceOK, service
<1> QED
  BY <1>1, <1>2, <1>3

(* A command that ends leaves nothing behind. *)
LEMMA EndKeepsInvariant ==
  ASSUME PromotionInvariant, TypeOK', NEW c \in Clients, End(c), UNCHANGED service, ops' = ops
  PROVE  PromotionInvariant'
<1>1. run'[c] = Idle /\ \A d \in Clients : d # c => run'[d] = run[d]
  BY DEF End, PromotionInvariant, TypeOK
<1>2. run'[c].pc = "idle" /\ run'[c].before = {}
  BY <1>1 DEF Idle
<1>3. CommandOK(c)'
  BY <1>2 DEF CommandOK, Unsent, BeforeIsOlder, SendOK, WatchOK, Asking, Watching
<1> QED
  BY <1>1, <1>2, <1>3, QuietStep

(* Only a promotion that ended well is judged done. *)
LEMMA DonePromotion ==
  ASSUME PromotionInvariant, NEW c \in Clients, run[c].pc = "poll",
         run[c].verb = "Promote", Judge(run[c]) = "Done"
  PROVE  run[c].op \in ended /\ OwnReport(run[c]) \in reports
<1>1. Phase(run[c].seen) = "Ready" /\ run[c].running /\ id = run[c].target
  BY DEF Judge, Verdict, PromoteVerdict, UnderOwnId
<1>2. ~blocking /\ status = "READY"
  BY <1>1 DEF Phase
<1>3. PromotingOK(c)
  BY DEF PromotionInvariant, CommandOK, WatchOK, Watching
<1> QED
  BY <1>1, <1>2, <1>3 DEF PromotingOK

(* A command that starts takes a number nobody has. *)
LEMMA StartKeepsInvariant ==
  ASSUME PromotionAssumption, PromotionInvariant, TypeOK', NEW c \in Clients, NEW verb \in Verbs,
         NEW expected \in given \union {None}, NEW dry \in BOOLEAN,
         Start(c, verb, expected, dry)
  PROVE  PromotionInvariant'
<1> USE DEF PromotionInvariant
<1>1. /\ run[c].pc = "idle" /\ ops' = ops + 1 /\ UNCHANGED service /\ ops \in Nat
      /\ \A d \in Clients : d # c => run'[d] = run[d]
  BY DEF Start, TypeOK, ReadOnly, PromotionAssumption
<1>2. /\ run'[c].pc = "first" /\ run'[c].op = ops + 1 /\ run'[c].verb = verb
      /\ run'[c].before = {} /\ run'[c].running = FALSE
  BY DEF Start, Idle, TypeOK
<1>3. Numbered'
  BY <1>1, <1>2 DEF Numbered, service
<1>4. CommandOK(c)'
  <2>1. Unsent(c)'
    BY <1>1, <1>2 DEF Unsent, Numbered, service
  <2>2. BeforeIsOlder(c)'
    BY <1>2 DEF BeforeIsOlder
  <2>3. SendOK(c)' /\ WatchOK(c)'
    BY <1>2 DEF SendOK, WatchOK, Watching
  <2> QED
    BY <2>1, <2>2, <2>3 DEF CommandOK
<1>5. \A d \in Clients : d # c => CommandOK(d)'
  BY <1>1, OthersUndisturbed
<1>6. ServiceOK'
  BY <1>1 DEF ServiceOK, service
<1> QED
  BY <1>3, <1>4, <1>5, <1>6

(* Every step keeps the invariant. *)
LEMMA CommandKeepsInvariant ==
  ASSUME PromotionAssumption, PromotionInvariant, TypeOK', NEW c \in Clients, Command(c)
  PROVE  PromotionInvariant'
<1> USE DEF PromotionInvariant
<1>0. /\ run \in [Clients -> Commands] /\ run[c] \in Commands /\ CommandOK(c)
  BY RunTyped DEF TypeOK
<1>1. ASSUME NEW verb \in Verbs, NEW expected \in given \union {None}, NEW dry \in BOOLEAN,
             Start(c, verb, expected, dry)
      PROVE  PromotionInvariant'
  BY <1>1, StartKeepsInvariant
<1>2. CASE First(c)
  <2>1. CASE ~Eligible(run[c])
    BY <1>2, <2>1, EndKeepsInvariant DEF First, ReadOnly
  <2>2. CASE Eligible(run[c])
    <3>1. /\ run[c].pc = "first" /\ UNCHANGED service /\ ops' = ops
          /\ run' = [run EXCEPT ![c] = [run[c] EXCEPT !.pc = "ask", !.approved = Approval(run[c])]]
      BY <1>2, <2>2 DEF First, ReadOnly
    <3>2. /\ run'[c].pc = "ask" /\ run'[c].op = run[c].op /\ run'[c].verb = run[c].verb
          /\ run'[c].before = run[c].before /\ run'[c].running = run[c].running
          /\ \A d \in Clients : d # c => run'[d] = run[d]
      BY <1>0, <3>1 DEF Commands
    <3>3. CommandOK(c)'
      BY <1>0, <3>1, <3>2
      DEF CommandOK, Unsent, BeforeIsOlder, SendOK, WatchOK, Asking, Watching, service
    <3> QED
      BY <3>1, <3>2, <3>3, QuietStep
  <2> QED
    BY <2>1, <2>2
<1>3. CASE Consent(c)
  <2>1. /\ run[c].pc = "ask" /\ UNCHANGED service /\ ops' = ops
        /\ run' = [run EXCEPT ![c] = [run[c] EXCEPT !.pc = "prepared",
                       !.before = IF run[c].verb = "Promote" THEN reports ELSE {}]]
    BY <1>3 DEF Consent, ReadOnly
  <2>2. /\ run'[c].pc = "prepared" /\ run'[c].op = run[c].op /\ run'[c].verb = run[c].verb
        /\ run'[c].before \subseteq reports /\ run'[c].running = run[c].running
        /\ \A d \in Clients : d # c => run'[d] = run[d]
    BY <1>0, <2>1 DEF Commands
  <2>3. Unsent(c)
    BY <1>0 DEF CommandOK
  <2>4. Unsent(c)' /\ BeforeIsOlder(c)'
    BY <2>1, <2>2, <2>3 DEF Unsent, BeforeIsOlder, Asking, service
  <2>5. SendOK(c)' /\ WatchOK(c)'
    BY <2>2 DEF SendOK, WatchOK, Watching
  <2>6. CommandOK(c)'
    BY <2>4, <2>5 DEF CommandOK
  <2> QED
    BY <2>1, <2>2, <2>6, QuietStep
<1>4. CASE Reread(c)
  <2>1. /\ run[c].pc = "prepared" /\ UNCHANGED service /\ ops' = ops
        /\ run' = [run EXCEPT ![c] = [run[c] EXCEPT !.pc = "second", !.seen = lock]]
    BY <1>4 DEF Reread, ReadOnly
  <2>2. /\ run'[c].pc = "second" /\ run'[c].op = run[c].op /\ run'[c].verb = run[c].verb
        /\ run'[c].before = run[c].before /\ run'[c].running = run[c].running
        /\ \A d \in Clients : d # c => run'[d] = run[d]
    BY <1>0, <2>1 DEF Commands
  <2>3. CommandOK(c)'
    BY <1>0, <2>1, <2>2
    DEF CommandOK, Unsent, BeforeIsOlder, SendOK, WatchOK, Asking, Watching, service
  <2> QED
    BY <2>1, <2>2, <2>3, QuietStep
<1>5. CASE Authorize(c)
  <2>1. CASE ~Authorized(run[c])
    BY <1>5, <2>1, EndKeepsInvariant DEF Authorize, ReadOnly
  <2>2. CASE Authorized(run[c])
    <3>1. /\ run[c].pc = "second" /\ UNCHANGED service /\ ops' = ops
          /\ run' = [run EXCEPT ![c] = [run[c] EXCEPT !.pc = "send", !.target = Approval(run[c]),
                                                      !.fresh = TRUE]]
      BY <1>5, <2>2 DEF Authorize, ReadOnly
    <3>2. /\ run'[c].pc = "send" /\ run'[c].op = run[c].op /\ run'[c].verb = run[c].verb
          /\ run'[c].before = run[c].before /\ run'[c].running = run[c].running
          /\ run'[c].approved = run[c].approved /\ run'[c].expected = run[c].expected
          /\ run'[c].target = Approval(run[c])
          /\ \A d \in Clients : d # c => run'[d] = run[d]
      BY <1>0, <3>1 DEF Commands
    <3>3. run[c].verb \in Verbs /\ Eligible(run[c]) /\ Approval(run[c]) = run[c].approved
      BY <2>2, <3>1 DEF Authorized, Numbered
    <3>4. Unsent(c)' /\ BeforeIsOlder(c)'
      BY <1>0, <3>1, <3>2 DEF CommandOK, Unsent, BeforeIsOlder, Asking, service
    <3>5. run[c].verb = "Recover" => run[c].expected = id /\ id \in given /\ blocking
      <4>1. SUFFICES ASSUME run[c].verb = "Recover"
                     PROVE  run[c].expected = id /\ id \in given /\ blocking
        OBVIOUS
      <4>2. Recoverable(run[c])
        BY <3>3, <4>1 DEF Eligible
      <4> QED
        BY <4>2 DEF Recoverable, Phase, ServiceOK
    <3>6. run[c].verb = "Promote" => status = "READY"
      <4>1. SUFFICES ASSUME run[c].verb = "Promote" PROVE status = "READY"
        OBVIOUS
      <4>2. Phase(run[c].seen) = "Ready"
        BY <3>3, <4>1 DEF Eligible
      <4> QED
        BY <4>2 DEF Phase
    <3>7. run[c].verb # "Lock" => Approval(run[c]) = id
      BY DEF Approval
    <3>8. SendOK(c)'
      BY <3>1, <3>2, <3>3, <3>5, <3>6, <3>7 DEF SendOK, service
    <3>9. WatchOK(c)'
      BY <3>2 DEF WatchOK, Watching
    <3>10. CommandOK(c)'
      BY <3>4, <3>8, <3>9 DEF CommandOK
    <3> QED
      BY <3>1, <3>2, <3>10, QuietStep
  <2> QED
    BY <2>1, <2>2
<1>6. CASE Poll(c)
  <2>1. /\ run[c].pc = "wait" /\ UNCHANGED service /\ ops' = ops
        /\ run' = [run EXCEPT ![c] = [run[c] EXCEPT !.pc = "poll", !.seen = lock]]
    BY <1>6 DEF Poll, ReadOnly
  <2>2. /\ run'[c].pc = "poll" /\ run'[c].op = run[c].op /\ run'[c].verb = run[c].verb
        /\ run'[c].before = run[c].before /\ run'[c].running = run[c].running
        /\ run'[c].target = run[c].target /\ run'[c].dry = run[c].dry
        /\ \A d \in Clients : d # c => run'[d] = run[d]
    BY <1>0, <2>1 DEF Commands
  <2>3. CommandOK(c)'
    BY <1>0, <2>1, <2>2
    DEF CommandOK, Unsent, BeforeIsOlder, SendOK, WatchOK, PromotingOK, OwnReport, Asking, Watching, service
  <2> QED
    BY <2>1, <2>2, <2>3, QuietStep
<1>7. CASE Watch(c)
  <2>1. run[c].pc = "poll" /\ UNCHANGED service /\ ops' = ops
    BY <1>7 DEF Watch, ReadOnly
  <2>2. CASE Judge(run[c]) = "Pending"
    <3> DEFINE b == run[c].running \/
                      (run[c].verb = "Promote" /\ Phase(run[c].seen) = "Running" /\ id # None)
    <3>1. run' = [run EXCEPT ![c] = [run[c] EXCEPT !.pc = "wait", !.running = b]]
      BY <1>7, <2>2 DEF Watch
    <3>2. /\ run'[c].pc = "wait" /\ run'[c].op = run[c].op /\ run'[c].verb = run[c].verb
          /\ run'[c].before = run[c].before /\ run'[c].running = b
          /\ run'[c].target = run[c].target /\ run'[c].dry = run[c].dry
          /\ \A d \in Clients : d # c => run'[d] = run[d]
      BY <1>0, <3>1 DEF Commands
    <3>3. b => run[c].running \/ status = "RUNNING"
      BY DEF Phase
    <3> HIDE DEF b
    <3>4. Unsent(c)' /\ BeforeIsOlder(c)' /\ SendOK(c)'
      BY <1>0, <2>1, <3>2 DEF CommandOK, Unsent, BeforeIsOlder, SendOK, Asking, service
    <3>5. run[c].target \in given /\ PromotingOK(c)
      BY <1>0, <2>1 DEF CommandOK, WatchOK, Watching
    <3>6. PromotingOK(c)'
      BY <2>1, <3>2, <3>3, <3>5 DEF PromotingOK, OwnReport, service
    <3>7. CommandOK(c)'
      BY <2>1, <3>2, <3>4, <3>5, <3>6 DEF CommandOK, WatchOK, service
    <3> QED
      BY <2>1, <3>2, <3>7, QuietStep
  <2>3. CASE Judge(run[c]) = "Done" /\ run[c].verb = "Promote"
    <3>1. run' = [run EXCEPT ![c] = [run[c] EXCEPT !.pc = "report"]]
      BY <1>7, <2>3 DEF Watch, Goto
    <3>2. /\ run'[c].pc = "report" /\ run'[c].op = run[c].op /\ run'[c].verb = run[c].verb
          /\ run'[c].before = run[c].before
          /\ run'[c].target = run[c].target /\ run'[c].dry = run[c].dry
          /\ \A d \in Clients : d # c => run'[d] = run[d]
      BY <1>0, <3>1 DEF Commands
    <3>3. OwnReport(run[c]) \in reports
      BY <2>1, <2>3, DonePromotion
    <3>4. CommandOK(c)'
      BY <1>0, <2>1, <3>2, <3>3
      DEF CommandOK, Unsent, BeforeIsOlder, SendOK, WatchOK, OwnReport, Asking, Watching, service
    <3> QED
      BY <2>1, <3>2, <3>4, QuietStep
  <2>4. CASE Judge(run[c]) # "Pending" /\ ~(Judge(run[c]) = "Done" /\ run[c].verb = "Promote")
    BY <1>7, <2>1, <2>4, EndKeepsInvariant DEF Watch
  <2> QED
    BY <2>2, <2>3, <2>4
<1>8. CASE Decline(c) \/ Refused(c) \/ Identify(c) \/ GiveUp(c)
  BY <1>8, EndKeepsInvariant DEF Decline, Refused, Identify, GiveUp, ReadOnly
<1>9. CASE Send(c) \/ SendLost(c)
  BY <1>9, SendKeepsInvariant
<1> QED
  BY <1>1, <1>2, <1>3, <1>4, <1>5, <1>6, <1>7, <1>8, <1>9 DEF Command

(* Every step of the pair and its operators keeps the invariant. *)
LEMMA StepKeepsInvariant ==
  ASSUME PromotionAssumption, PromotionInvariant, [Next]_vars
  PROVE  PromotionInvariant'
<1>1. CASE Service
  <2>1. TypeOK' /\ ServiceOK' /\ Numbered'
    BY <1>1, ServiceTyped, ServiceStaysOK, ServiceKeepsNumbers DEF PromotionInvariant
  <2> QED
    BY <1>1, <2>1, ServiceKeepsCommands DEF PromotionInvariant
<1>2. ASSUME NEW c \in Clients, Command(c) PROVE PromotionInvariant'
  <2>1. TypeOK'
    BY <1>2, CommandTyped DEF PromotionInvariant
  <2> QED
    BY <1>2, <2>1, CommandKeepsInvariant
<1>3. CASE UNCHANGED vars
  BY <1>3
  DEF vars, service, PromotionInvariant, TypeOK, ServiceOK, Numbered, CommandOK, Unsent,
      BeforeIsOlder, SendOK, WatchOK, PromotingOK, OwnReport
<1> QED
  BY <1>1, <1>2, <1>3 DEF Next

(* It holds of a pair that is free or held, and of operators who run nothing. *)
LEMMA InitInvariant ==
  ASSUME PromotionAssumption, Init
  PROVE  PromotionInvariant
<1>1. /\ All("unlocked") \in [Sides -> LockStates] /\ All("locked") \in [Sides -> LockStates]
      /\ "UNLOCKED" \in Statuses /\ "READY" \in Statuses
  BY AllSides DEF LockStates, Statuses
<1>2. \A c \in Clients : run[c] = Idle
  BY DEF Init
<1>3. TypeOK
  <2>1. run \in [Clients -> Commands]
    BY IdleTyped DEF Init
  <2>2. ops \in 0..MaxOps /\ failures \in 0..MaxFailures
    BY DEF Init, PromotionAssumption
  <2>3. /\ lock \in [Sides -> LockStates] /\ status \in Statuses
        /\ id \in Ids \union {None} /\ given \subseteq Ids
    BY <1>1 DEF Init
  <2> QED
    BY <2>1, <2>2, <2>3 DEF Init, TypeOK
<1>4. ServiceOK
  BY DEF Init, ServiceOK
<1>5. \A c \in Clients : run[c].pc = "idle" /\ run[c].before = {}
  BY <1>2 DEF Idle
<1>6. Numbered
  BY <1>5 DEF Init, Numbered
<1>7. \A c \in Clients : CommandOK(c)
  BY <1>5 DEF CommandOK, Unsent, BeforeIsOlder, SendOK, WatchOK, Asking, Watching
<1> QED
  BY <1>3, <1>4, <1>6, <1>7 DEF PromotionInvariant

-----------------------------------------------------------------------------
(* What follows from the invariant for a step *)

LEMMA DoneFollows ==
  ASSUME PromotionAssumption, PromotionInvariant
  PROVE  DoneStepIsTrue
<1> USE DEF PromotionInvariant
<1> SUFFICES ASSUME NEW c \in Clients, Watch(c), Judge(run[c]) = "Done"
             PROVE  CASE run[c].verb = "Lock" -> lock = All("locked") /\ id = run[c].target
                      [] run[c].verb = "Promote" -> run[c].op \in ended
                      [] run[c].verb \in {"Unlock", "Recover"} -> id # run[c].target
  BY DEF DoneStepIsTrue
<1>1. run[c].pc = "poll" /\ run[c].verb \in Verbs
  BY DEF Watch, Numbered
<1>2. CASE run[c].verb = "Lock"
  <2>1. Phase(run[c].seen) = "Ready" /\ UnderOwnId(run[c])
    BY <1>2 DEF Judge, Verdict
  <2>2. status = "READY"
    BY <2>1 DEF Phase
  <2> QED
    BY <1>2, <2>1, <2>2 DEF UnderOwnId, ServiceOK
<1>3. CASE run[c].verb = "Promote"
  BY <1>1, <1>3, DonePromotion
<1>4. CASE run[c].verb \in {"Unlock", "Recover"}
  <2>1. Phase(run[c].seen) = "Unlocked"
    BY <1>4 DEF Judge, Verdict
  <2>2. status = "UNLOCKED"
    BY <2>1 DEF Phase
  <2>3. run[c].target \in given
    BY <1>1 DEF CommandOK, WatchOK, Watching
  <2> QED
    BY <1>4, <2>2, <2>3 DEF ServiceOK, TypeOK, PromotionAssumption
<1> QED
  BY <1>1, <1>2, <1>3, <1>4 DEF Verbs

LEMMA ApprovalFollows ==
  ASSUME PromotionInvariant
  PROVE  SendsApproved
<1> USE DEF PromotionInvariant
<1> SUFFICES ASSUME NEW c \in Clients, Send(c)
             PROVE  /\ run[c].verb \in {"Unlock", "Recover"} => id = run[c].approved
                    /\ run[c].verb = "Recover" => id = run[c].expected /\ blocking
                    /\ run[c].verb = "Promote" /\ run[c].fresh => id = run[c].approved
  BY DEF SendsApproved
<1>1. run[c].pc = "send" /\ Accepts(run[c])
  BY DEF Send
<1>2. SendOK(c)
  BY DEF CommandOK
<1>3. run[c].verb \in {"Unlock", "Recover"} => id = run[c].target
  BY <1>1 DEF Accepts
<1> QED
  BY <1>1, <1>2, <1>3 DEF SendOK

LEMMA IdentityFollows ==
  ASSUME PromotionInvariant
  PROVE  IdentifiesOwn
<1> USE DEF PromotionInvariant
<1> SUFFICES ASSUME NEW c \in Clients, Identify(c)
             PROVE  /\ NewReports(run[c]) # {}
                    /\ \A report \in NewReports(run[c]) :
                          NewReports(run[c]) = {report} => report.op = run[c].op
  BY DEF IdentifiesOwn
<1>1. OwnReport(run[c]) \in reports /\ OwnReport(run[c]) \notin run[c].before
  BY DEF Identify, CommandOK, WatchOK, BeforeIsOlder, OwnReport
<1>2. OwnReport(run[c]) \in NewReports(run[c])
  BY <1>1 DEF NewReports, OwnReport
<1>3. OwnReport(run[c]).op = run[c].op
  BY DEF OwnReport
<1> QED
  BY <1>2, <1>3

-----------------------------------------------------------------------------
(* Theorems *)

(* The pair's lock, status, id and job go together, and every command knows  *)
(* of its own request what Watch::judge, authorize and new_reports take for  *)
(* granted (promotion/lifecycle.rs).                                         *)
THEOREM PromotionInvariantHolds ==
  ASSUME PromotionAssumption
  PROVE  Spec => []PromotionInvariant
<1>1. Init => PromotionInvariant
  BY InitInvariant
<1>2. PromotionInvariant /\ [Next]_vars => PromotionInvariant'
  BY StepKeepsInvariant
<1> QED
  BY <1>1, <1>2, PTL DEF Spec

(* Whoever else uses the pair, and however the two requests of a reading     *)
(* fall: what a command reports as done is done for its own request, it      *)
(* changes only the lock its operator approved, and the one report it names  *)
(* is its own (promotion/lifecycle.rs).                                      *)
THEOREM PromotionsAreOwn ==
  ASSUME PromotionAssumption
  PROVE  Spec => PromotionIsOwn
<1>1. PromotionInvariant => TypeOK
  BY DEF PromotionInvariant
<1>2. PromotionInvariant => DoneStepIsTrue
  BY DoneFollows
<1>3. PromotionInvariant => SendsApproved
  BY ApprovalFollows
<1>4. PromotionInvariant => IdentifiesOwn
  BY IdentityFollows
<1> QED
  BY <1>1, <1>2, <1>3, <1>4, PromotionInvariantHolds, PTL
  DEF PromotionIsOwn, DoneIsTrue, ActsOnApproved, ReportIsOwn
=============================================================================
