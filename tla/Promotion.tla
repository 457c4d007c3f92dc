------------------------------ MODULE Promotion -------------------------------
(***************************************************************************)
(* The promotion verbs: lock a pair of environments, promote (or dry-run)  *)
(* into the upper one, unlock, and release the lock of a failed promotion. *)
(* A command reads the lock and the status, two requests apart; asks the   *)
(* operator; reads both again; sends; and polls both until the reading     *)
(* says done, failed, or the deadline passes.  The promotion service works *)
(* on its own for minutes, and several operators use it at once.           *)
(*                                                                         *)
(* A request to promote carries no promotionId, a request to unlock does.  *)
(***************************************************************************)
EXTENDS Naturals, FiniteSets

CONSTANTS
    Clients,     \* operators running a command
    Ids,         \* promotionIds still to be given out
    MaxOps,      \* bound: commands started
    MaxFailures, \* bound: promotions that end with a blocking error
    None

Jobs == [op : 1..MaxOps, dry : BOOLEAN]
Reports == [op : 1..MaxOps, id : Ids, dry : BOOLEAN]

PromotionAssumption ==
    None \notin Ids /\ None \notin Jobs /\ MaxOps \in Nat /\ MaxFailures \in Nat

Sides == {"lower", "upper"}
Verbs == {"Lock", "Promote", "Unlock", "Recover"}
LockStates == {"unlocked", "locking", "locked", "unlocking"}
Statuses == {"UNLOCKED", "LOCKING", "READY", "RUNNING", "UNLOCKING"}

VARIABLES
    lock,     \* side -> what lock/state says of it
    status,   \* what the promotion status says
    id,       \* the promotionId of the lock
    blocking, \* blockingError
    job,      \* the accepted promotion: the command it belongs to
    ended,    \* commands whose promotion ended well
    reports,  \* the reports of promotions that ended, with their lock and kind
    given,    \* promotionIds given out
    run,      \* client -> its command in progress
    ops, failures

service == <<lock, status, id, blocking, job, ended, reports, given>>
vars == <<service, run, ops, failures>>

Idle == [pc |-> "idle", verb |-> None, op |-> 0, expected |-> None, seen |-> None,
         approved |-> None, target |-> None, running |-> FALSE, fresh |-> FALSE,
         dry |-> FALSE, before |-> {}]

Steps == {"idle", "first", "ask", "prepared", "second", "send", "wait", "poll", "report"}

All(state) == [side \in Sides |-> state]

\* The pair is free, or already locked by somebody's earlier command.
Init ==
    /\ \/ lock = All("unlocked") /\ status = "UNLOCKED" /\ id = None /\ given = {}
       \/ lock = All("locked") /\ status = "READY" /\ id \in Ids /\ given = {id}
    /\ blocking = FALSE /\ job = None
    /\ ended = {} /\ reports = {}
    /\ run = [c \in Clients |-> Idle]
    /\ ops = 0 /\ failures = 0

-----------------------------------------------------------------------------
(* The promotion service *)

\* The upper side locks first; the status follows both.
LockProgress ==
    /\ \/ \E side \in Sides :
            /\ lock[side] = "locking"
            /\ side = "lower" => lock["upper"] = "locked"
            /\ lock' = [lock EXCEPT ![side] = "locked"]
            /\ UNCHANGED status
       \/ lock = All("locked") /\ status = "LOCKING" /\ status' = "READY" /\ UNCHANGED lock
    /\ UNCHANGED <<id, blocking, job, ended, reports, given, run, ops, failures>>

UnlockProgress ==
    /\ \/ /\ lock = All("unlocking") /\ lock' = All("unlocked")
          /\ UNCHANGED <<status, id, blocking>>
       \/ /\ lock = All("unlocked") /\ status = "UNLOCKING"
          /\ status' = "UNLOCKED" /\ id' = None /\ blocking' = FALSE
          /\ UNCHANGED lock
    /\ UNCHANGED <<job, ended, reports, given, run, ops, failures>>

\* An accepted promotion shows as READY until it starts.
JobStarts ==
    /\ job # None /\ status = "READY"
    /\ status' = "RUNNING"
    /\ UNCHANGED <<lock, id, blocking, job, ended, reports, given, run, ops, failures>>

JobEnds ==
    /\ job # None /\ status = "RUNNING"
    /\ status' = "READY" /\ job' = None
    /\ reports' = reports \union {[op |-> job.op, id |-> id, dry |-> job.dry]}
    /\ \/ ended' = ended \union {job.op} /\ UNCHANGED <<blocking, failures>>
       \/ /\ failures < MaxFailures /\ failures' = failures + 1
          /\ blocking' = TRUE /\ UNCHANGED ended
    /\ UNCHANGED <<lock, id, given, run, ops>>

-----------------------------------------------------------------------------
(* What a reading means *)

\* phase, of the sides read first and the status read after them.
Phase(sides) ==
    IF blocking THEN "Blocked"
    ELSE IF status = "RUNNING" THEN "Running"
    ELSE IF status = "UNLOCKED" /\ sides = All("unlocked") THEN "Unlocked"
    ELSE IF status = "READY" /\ sides = All("locked") THEN "Ready"
    ELSE "Unsettled"

\* The arm of check for a recovery: blocked, held, stopped, and the lock the
\* operator named.
Recoverable(r) ==
    /\ Phase(r.seen) = "Blocked" /\ id # None
    /\ r.seen = All("locked") /\ status = "READY"
    /\ id = r.expected

\* check: what each verb may start from.
Eligible(r) ==
    CASE r.verb = "Lock" -> Phase(r.seen) = "Unlocked"
      [] r.verb \in {"Promote", "Unlock"} -> Phase(r.seen) = "Ready" /\ id # None
      [] r.verb = "Recover" -> Recoverable(r)

Approval(r) == IF r.verb = "Lock" THEN None ELSE id

End(c) == run' = [run EXCEPT ![c] = Idle]
Goto(c, pc) == run' = [run EXCEPT ![c].pc = pc]
ReadOnly == UNCHANGED <<service, failures>>

-----------------------------------------------------------------------------
(* A command *)

\* assessment, first request of the first reading.
Start(c, verb, expected, dry) ==
    /\ run[c].pc = "idle" /\ ops < MaxOps /\ ops' = ops + 1
    /\ (verb = "Recover") = (expected # None)
    /\ dry => verb = "Promote"
    /\ run' = [run EXCEPT ![c] = [Idle EXCEPT !.pc = "first", !.verb = verb, !.op = ops + 1,
                                              !.expected = expected, !.dry = dry, !.seen = lock]]
    /\ ReadOnly

\* begin: eligibility.  Unlocking what is unlocked is done at once.
First(c) ==
    /\ run[c].pc = "first"
    /\ IF Eligible(run[c])
       THEN run' = [run EXCEPT ![c].pc = "ask", ![c].approved = Approval(run[c])]
       ELSE End(c)
    /\ ReadOnly /\ UNCHANGED ops

\* The operator consents, and prepare lists the reports there are; or declines.
Consent(c) ==
    /\ run[c].pc = "ask"
    /\ run' = [run EXCEPT ![c].pc = "prepared",
                          ![c].before = IF run[c].verb = "Promote" THEN reports ELSE {}]
    /\ ReadOnly /\ UNCHANGED ops

Decline(c) ==
    /\ run[c].pc = "ask"
    /\ End(c)
    /\ ReadOnly /\ UNCHANGED ops

\* The second reading, first request.
Reread(c) ==
    /\ run[c].pc = "prepared"
    /\ run' = [run EXCEPT ![c].pc = "second", ![c].seen = lock]
    /\ ReadOnly /\ UNCHANGED ops

\* Mutant of Authorized: any eligible lock will do.
AuthorizedAny(r) == Eligible(r)

\* authorize: still eligible, and still the lock that was approved.
Authorized(r) == Eligible(r) /\ Approval(r) = r.approved

Authorize(c) ==
    /\ run[c].pc = "second"
    /\ IF Authorized(run[c])
       THEN run' = [run EXCEPT ![c].pc = "send", ![c].target = Approval(run[c]), ![c].fresh = TRUE]
       ELSE End(c)
    /\ ReadOnly /\ UNCHANGED ops

\* Everybody else's reading is now older than a write.
Stale(c) == [d \in Clients |-> IF d = c THEN run[d] ELSE [run[d] EXCEPT !.fresh = FALSE]]

\* What the service accepts.
Accepts(r) ==
    CASE r.verb = "Lock" -> lock = All("unlocked") /\ status = "UNLOCKED"
      [] r.verb = "Promote" -> lock = All("locked") /\ status = "READY" /\ ~blocking /\ job = None
      [] r.verb \in {"Unlock", "Recover"} -> /\ lock = All("locked") /\ status = "READY"
                                             /\ job = None /\ id = r.target

Effect(r) ==
    CASE r.verb = "Lock" ->
           /\ id' \in Ids \ given /\ given' = given \union {id'}
           /\ lock' = All("locking") /\ status' = "LOCKING"
           /\ UNCHANGED <<blocking, job>>
      [] r.verb = "Promote" ->
           job' = [op |-> r.op, dry |-> r.dry] /\ UNCHANGED <<lock, status, id, blocking, given>>
      [] r.verb \in {"Unlock", "Recover"} ->
           /\ lock' = All("unlocking") /\ status' = "UNLOCKING"
           /\ UNCHANGED <<id, blocking, job, given>>

\* api::send and the acknowledgement.  The lock watched from here on is the
\* one approved, or the one the acknowledgement of a lock names.
Send(c) ==
    /\ run[c].pc = "send" /\ Accepts(run[c])
    /\ Effect(run[c])
    /\ run' = [Stale(c) EXCEPT ![c].pc = "wait", ![c].target = id']
    /\ UNCHANGED <<ended, reports, ops, failures>>

Refused(c) ==
    /\ run[c].pc = "send" /\ ~Accepts(run[c])
    /\ End(c)
    /\ ReadOnly /\ UNCHANGED ops

\* The request arrives, its answer does not: the command ends.
SendLost(c) ==
    /\ run[c].pc = "send" /\ Accepts(run[c])
    /\ Effect(run[c])
    /\ run' = [Stale(c) EXCEPT ![c] = Idle]
    /\ UNCHANGED <<ended, reports, ops, failures>>

\* wait: the next reading, and its second request.
Poll(c) ==
    /\ run[c].pc = "wait"
    /\ run' = [run EXCEPT ![c].pc = "poll", ![c].seen = lock]
    /\ ReadOnly /\ UNCHANGED ops

\* Mutant of PromoteVerdict: READY ends a promotion.
PromoteReadyVerdict(r, phase) ==
    CASE phase = "Running" -> "Pending"
      [] phase = "Ready" -> "Done"
      [] OTHER -> IF r.running THEN "Failed" ELSE "Pending"

\* READY is also where a promotion starts: it ends one only after RUNNING.
PromoteVerdict(r, phase) ==
    CASE phase = "Running" -> "Pending"
      [] phase = "Ready" -> IF r.running THEN "Done" ELSE "Pending"
      [] OTHER -> IF r.running THEN "Failed" ELSE "Pending"

\* Mutant of UnderOwnId: a reading counts under any id.
UnderAnyId(r) == TRUE

\* A state about a lock counts only under this operation's id.
UnderOwnId(r) == id = r.target

\* The verdict on a phase that counts.
Verdict(r, phase) ==
    CASE phase = "Blocked" -> IF r.verb = "Recover" THEN "Pending" ELSE "Failed"
      [] phase # "Blocked" /\ r.verb = "Promote" -> PromoteVerdict(r, phase)
      [] phase # "Blocked" /\ r.verb # "Promote" ->
           CASE phase = "Running" -> "Failed"
             [] phase = (IF r.verb = "Lock" THEN "Ready" ELSE "Unlocked") -> "Done"
             [] OTHER -> "Pending"

\* Watch::judge
Judge(r) ==
    LET phase == Phase(r.seen)
        aboutALock == phase \in {"Ready", "Running", "Blocked"} IN
    CASE aboutALock /\ id = None -> "Pending"
      [] aboutALock /\ id # None /\ ~UnderOwnId(r) -> "Failed"
      [] OTHER -> Verdict(r, phase)

Watch(c) ==
    LET r == run[c] IN
    /\ r.pc = "poll"
    /\ IF Judge(r) = "Pending"
       THEN run' = [run EXCEPT ![c].pc = "wait", ![c].running = r.running \/
                      (r.verb = "Promote" /\ Phase(r.seen) = "Running" /\ id # None)]
       ELSE IF Judge(r) = "Done" /\ r.verb = "Promote" THEN Goto(c, "report") ELSE End(c)
    /\ ReadOnly /\ UNCHANGED ops

\* Mutant of NewReports: only the latest run's report is kept.
LatestReport(r) ==
    LET new == {report \in reports \ r.before : report.id = r.target /\ report.dry = r.dry}
    IN  {report \in new : \A other \in new : other.op <= report.op}

\* new_reports: of this lock and kind, and not there before.
NewReports(r) == {report \in reports \ r.before : report.id = r.target /\ report.dry = r.dry}

\* identify: one report is named as this run's; several are candidates.
Identify(c) ==
    /\ run[c].pc = "report"
    /\ End(c)
    /\ ReadOnly /\ UNCHANGED ops

\* The deadline, six failed reads in a row, or the end of the process.
GiveUp(c) ==
    /\ run[c].pc # "idle"
    /\ End(c)
    /\ ReadOnly /\ UNCHANGED ops

Command(c) ==
    \/ \E verb \in Verbs, expected \in given \union {None}, dry \in BOOLEAN :
           Start(c, verb, expected, dry)
    \/ First(c) \/ Consent(c) \/ Decline(c) \/ Reread(c) \/ Authorize(c)
    \/ Send(c) \/ Refused(c) \/ SendLost(c)
    \/ Poll(c) \/ Watch(c) \/ Identify(c) \/ GiveUp(c)

Service == LockProgress \/ UnlockProgress \/ JobStarts \/ JobEnds

Next == Service \/ \E c \in Clients : Command(c)

Spec == Init /\ [][Next]_vars

-----------------------------------------------------------------------------
(* Properties *)

Commands ==
    [pc : Steps, verb : Verbs \union {None}, op : 0..MaxOps, expected : Ids \union {None},
     seen : [Sides -> LockStates] \union {None}, approved : Ids \union {None},
     target : Ids \union {None}, running : BOOLEAN, fresh : BOOLEAN, dry : BOOLEAN,
     before : SUBSET Reports]

TypeOK ==
    /\ lock \in [Sides -> LockStates] /\ status \in Statuses
    /\ id \in Ids \union {None} /\ blocking \in BOOLEAN
    /\ job \in Jobs \union {None} /\ reports \subseteq Reports
    /\ ended \subseteq 1..MaxOps /\ given \subseteq Ids
    /\ run \in [Clients -> Commands]
    /\ ops \in 0..MaxOps /\ failures \in 0..MaxFailures

\* A command that judges itself done has what it asked for.
DoneStepIsTrue ==
    \A c \in Clients :
         LET r == run[c] IN
         Watch(c) /\ Judge(r) = "Done" =>
             CASE r.verb = "Lock" -> lock = All("locked") /\ id = r.target
               [] r.verb = "Promote" -> r.op \in ended
               [] r.verb \in {"Unlock", "Recover"} -> id # r.target

\* What a command reports as done is done, for its own request: the lock it
\* asked for is held, the promotion it started ended well, the lock it
\* released is gone; whoever else used the pair, and however the two requests
\* of a reading fell.
DoneIsTrue == [][DoneStepIsTrue]_vars

\* A request goes out only for the lock its operator approved.
SendsApproved ==
    \A c \in Clients :
         LET r == run[c] IN
         Send(c) =>
             /\ r.verb \in {"Unlock", "Recover"} => id = r.approved
             /\ r.verb = "Recover" => id = r.expected /\ blocking
             /\ r.verb = "Promote" /\ r.fresh => id = r.approved

\* A command changes only the lock the operator approved, and a recovery only
\* the failed one he named; a promotion may meet another lock only if one was
\* taken after the second reading.
ActsOnApproved == [][SendsApproved]_vars

\* A report identified alone is the command's own.
IdentifiesOwn ==
    \A c \in Clients :
         Identify(c) =>
             /\ NewReports(run[c]) # {}
             /\ \A report \in NewReports(run[c]) :
                  NewReports(run[c]) = {report} => report.op = run[c].op

\* The one report a finished promotion names is its own, although other runs
\* of its kind share the lock: theirs is either listed before or a second
\* candidate.
ReportIsOwn == [][IdentifiesOwn]_vars

\* What a promotion command says and sends is about its own operation.
PromotionIsOwn == []TypeOK /\ DoneIsTrue /\ ActsOnApproved /\ ReportIsOwn
=============================================================================
