------------------------------- MODULE EsvTab -------------------------------
(* The ESV tab of the TUI (esv/ops.rs, state.rs, api.rs) over one variable,  *)
(* and the undo entries it records (undo/mod.rs).  Key presses change the    *)
(* tab at once and start background tasks; each task makes its requests one  *)
(* by one and its result comes back as an event.  Other writers change the   *)
(* tenant between any two steps, the tenant's list lags behind its values,   *)
(* and the TUI may be quit and started again.                                *)
EXTENDS Naturals, Sequences

CONSTANTS
    Vals,         \* contents of a variable
    Absent,       \* no such variable
    None,         \* nothing loaded, open or running
    Failed,       \* the answer of a call that failed
    Kind,         \* the expression type of each content
    MaxKeys,      \* key presses that start a write, an undo or a restart
    MaxEdits,     \* changes and restarts by others
    MaxFailures   \* requests that fail, landed or not, and quits

EsvAssumption ==
    /\ {MaxKeys, MaxEdits, MaxFailures} \subseteq Nat
    /\ Absent # None /\ Absent # Failed /\ None # Failed

VARIABLES
    remote,    \* the variable on the tenant: a body or Absent
    listed,    \* what the tenant's list endpoint returns for it
    startup,   \* the tenant's restart status
    tab,       \* the tab's state for this variable
    form,      \* an edit form or a confirmation that is open
    log,       \* the undo log
    write, undos, refresh, restart,   \* background tasks
    keys, edits, failures             \* counters

vars == <<remote, listed, startup, tab, form, log, write, undos, refresh, restart, keys, edits, failures>>
tasks == <<write, undos, refresh, restart>>
counters == <<keys, edits, failures>>

Body(v, loaded) == [val |-> v, loaded |-> loaded]
Content(b) == IF b = Absent THEN Absent ELSE b.val
Pending(b) == b # Absent /\ ~b.loaded

NewTab == [list |-> None, pending |-> FALSE, apply |-> None, pin |-> None, pinOld |-> FALSE,
           tomb |-> FALSE, tombOld |-> FALSE, failed |-> FALSE, inFlight |-> FALSE, refreshing |-> FALSE]

Init ==
    /\ remote \in {Absent} \union {Body(v, TRUE) : v \in Vals}
    /\ listed = remote /\ startup = "ready"
    /\ tab = NewTab /\ form = None /\ log = <<>>
    /\ write = None /\ undos = {} /\ refresh = None /\ restart = None
    /\ keys = 0 /\ edits = 0 /\ failures = 0

Fails == failures < MaxFailures /\ failures' = failures + 1
Key == keys < MaxKeys /\ keys' = keys + 1 /\ UNCHANGED <<edits, failures>>

-----------------------------------------------------------------------------
(* What the tab shows *)

\* pending_count: the ids the tenant reported, and rows that are not loaded.
PendingCount(t) == t.pending \/ (t.list # None /\ Pending(t.list))

\* refresh_apply_state_from_cache
FromCache(t) ==
    [t EXCEPT !.apply = IF @ = "Restarting" THEN @ ELSE IF PendingCount(t) THEN "Unapplied" ELSE "NoChanges"]

\* A row that is in the list is replaced, one that is not stays out.
Shown(t, b) == IF t.list \in {None, Absent} THEN t.list ELSE b

\* A row is replaced or added, once the list is loaded.
Upserted(t, b) == IF t.list = None THEN None ELSE b

-----------------------------------------------------------------------------
(* Saving and deleting *)

\* The edit form and the delete confirmation keep the body they were opened
\* on; a restart is offered when changes are pending and no write is in flight.
Open(mode) ==
    /\ form = None /\ tab.list # None
    /\ mode \in {"edit", "delete"} => tab.list # Absent
    /\ mode \in {"delete", "restart"} => ~tab.inFlight
    /\ mode = "restart" => tab.apply = "Unapplied"
    /\ form' = [mode |-> mode, original |-> IF mode \in {"edit", "delete"} THEN tab.list ELSE Absent]
    /\ UNCHANGED <<remote, listed, startup, tab, log, tasks, counters>>

Cancel == form # None /\ form' = None /\ UNCHANGED <<remote, listed, startup, tab, log, tasks, counters>>

Entry(op, body, after) == [op |-> op, body |-> body, after |-> after, status |-> "Pending"]

\* execute_save_plan: the undo entry first, then the tab, then the task.
Save(v) ==
    LET creating == form.mode = "create" IN
    /\ Key /\ form # None /\ form.mode \in {"create", "edit"} /\ ~tab.inFlight
    /\ log' = Append(log, IF creating THEN Entry("Delete", Absent, v) ELSE Entry("UpdateTo", form.original.val, v))
    /\ tab' = [tab EXCEPT !.list = Upserted(tab, Body(v, FALSE)), !.pin = Body(v, FALSE), !.pinOld = FALSE,
                          !.tomb = FALSE, !.inFlight = TRUE]
    /\ write' = [op |-> "save", val |-> v, original |-> Content(form.original), pc |-> "get"]
    /\ form' = None
    /\ UNCHANGED <<remote, listed, startup, undos, refresh, restart>>

\* execute_delete_plan
Delete ==
    /\ Key /\ form # None /\ form.mode = "delete"
    /\ log' = Append(log, Entry("Restore", form.original.val, Absent))
    /\ tab' = [tab EXCEPT !.list = IF @ = None THEN None ELSE Absent, !.pin = None, !.tomb = TRUE, !.tombOld = FALSE,
                          !.failed = FALSE, !.inFlight = TRUE]
    /\ write' = [op |-> "delete", val |-> form.original, original |-> form.original.val, pc |-> "get"]
    /\ form' = None
    /\ UNCHANGED <<remote, listed, startup, undos, refresh, restart>>

\* The value is read: a save and a delete stop when it is not the one they
\* were opened on, a creation compares with nothing, and what is absent is created.
WriteGet ==
    LET w == write
        conflict == IF w.op = "save" THEN w.original # Absent /\ remote # Absent /\ remote.val # w.original
                    ELSE Content(remote) # w.original IN
    /\ w # None /\ w.pc = "get"
    /\ write' = [w EXCEPT !.pc = CASE conflict -> "err"
                                   [] w.op = "delete" -> "delete"
                                   [] remote # Absent /\ Kind[remote.val] # Kind[w.val] -> "delete"
                                   [] OTHER -> "put"]
    /\ UNCHANGED <<remote, listed, startup, tab, form, log, undos, refresh, restart, counters>>

\* The tenant refuses to change a type in place.
Accepts(v) == remote = Absent \/ Kind[remote.val] = Kind[v]

\* The delete of a delete, or the first half of a type change; what is absent
\* cannot be deleted.
WriteDelete ==
    /\ write # None /\ write.pc = "delete"
    /\ remote' = Absent
    /\ write' = [write EXCEPT !.pc = IF remote = Absent THEN "err" ELSE IF write.op = "save" THEN "put" ELSE "ok"]
    /\ UNCHANGED <<listed, startup, tab, form, log, undos, refresh, restart, counters>>

WritePut ==
    /\ write # None /\ write.pc = "put"
    /\ remote' = IF Accepts(write.val) THEN Body(write.val, FALSE) ELSE remote
    /\ write' = [write EXCEPT !.pc = IF Accepts(write.val) THEN "ok" ELSE "err"]
    /\ UNCHANGED <<listed, startup, tab, form, log, undos, refresh, restart, counters>>

\* A request fails; that it failed does not say that it did not land.
WriteFails ==
    /\ write # None /\ write.pc # "err" /\ Fails
    /\ write' = [write EXCEPT !.pc = "err"]
    /\ UNCHANGED <<remote, listed, startup, tab, form, log, undos, refresh, restart, keys, edits>>

\* apply_save_result and apply_delete_result
WriteResult ==
    LET t == [tab EXCEPT !.inFlight = FALSE] IN
    /\ write # None /\ write.pc \in {"ok", "err"}
    /\ tab' = CASE write.op = "save" /\ write.pc = "ok" ->
                     FromCache([t EXCEPT !.list = Shown(t, Body(write.val, FALSE)), !.pin = Body(write.val, FALSE),
                                         !.pinOld = FALSE, !.tomb = FALSE, !.failed = FALSE])
                [] write.op = "save" /\ write.pc = "err" -> [t EXCEPT !.failed = TRUE]
                [] write.op = "delete" /\ write.pc = "ok" -> FromCache([t EXCEPT !.pin = None, !.failed = FALSE])
                [] OTHER -> [t EXCEPT !.tomb = FALSE, !.list = Upserted(t, write.val)]
    /\ write' = None
    /\ UNCHANGED <<remote, listed, startup, form, log, undos, refresh, restart, counters>>

-----------------------------------------------------------------------------
(* Undo *)

\* The history undoes any pending entry (^Z the latest one that is not old);
\* neither asks whether it is being undone already.
Undo(i) ==
    /\ Key /\ form = None
    /\ i \in 1..Len(log) /\ log[i].status = "Pending"
    /\ undos' = undos \union {[entry |-> i, pc |-> "check", no |-> keys]}
    /\ UNCHANGED <<remote, listed, startup, tab, form, log, write, refresh, restart>>

Move(u, pc) == undos' = (undos \ {u}) \union {[u EXCEPT !.pc = pc]}

\* check_undo_conflict: the value the entry's write left is still there.
UndoCheck(u) ==
    LET e == log[u.entry] IN
    /\ u \in undos /\ u.pc = "check"
    /\ Move(u, IF Content(remote) # e.after THEN "conflict" ELSE IF e.op = "Delete" THEN "delete" ELSE "get")
    /\ UNCHANGED <<remote, listed, startup, tab, form, log, write, refresh, restart, counters>>

\* upsert_variable_body: a type change deletes first.
UndoGet(u) ==
    LET body == log[u.entry].body IN
    /\ u \in undos /\ u.pc = "get"
    /\ Move(u, IF remote # Absent /\ Kind[remote.val] # Kind[body] THEN "delete" ELSE "put")
    /\ UNCHANGED <<remote, listed, startup, tab, form, log, write, refresh, restart, counters>>

UndoDelete(u) ==
    LET last == log[u.entry].op = "Delete" IN
    /\ u \in undos /\ u.pc = "delete"
    /\ remote' = Absent
    /\ Move(u, IF remote = Absent THEN "err" ELSE IF last THEN "ok" ELSE "put")
    /\ UNCHANGED <<listed, startup, tab, form, log, write, refresh, restart, counters>>

UndoPut(u) ==
    /\ u \in undos /\ u.pc = "put"
    /\ remote' = IF Accepts(log[u.entry].body) THEN Body(log[u.entry].body, FALSE) ELSE remote
    /\ Move(u, IF Accepts(log[u.entry].body) THEN "ok" ELSE "err")
    /\ UNCHANGED <<listed, startup, tab, form, log, write, refresh, restart, counters>>

\* A request fails, landed or not; a value that could not be compared counts
\* as a conflict.
UndoFails(u) ==
    /\ u \in undos /\ u.pc \notin {"err", "conflict"} /\ Fails
    /\ Move(u, IF u.pc = "check" /\ log[u.entry].op # "Restore" THEN "conflict" ELSE "err")
    /\ UNCHANGED <<remote, listed, startup, tab, form, log, write, refresh, restart, keys, edits>>

\* apply_undo_result: a conflict keeps the entry pending.
UndoResult(u) ==
    LET e == log[u.entry] IN
    /\ u \in undos /\ u.pc \in {"ok", "err", "conflict"}
    /\ undos' = undos \ {u}
    /\ log' = IF u.pc = "conflict" THEN log
              ELSE [log EXCEPT ![u.entry].status = IF u.pc = "ok" THEN "AppliedSuccess" ELSE "AppliedFailure"]
    /\ tab' = CASE u.pc # "ok" -> tab
                [] u.pc = "ok" /\ e.op = "Delete" ->
                     FromCache([tab EXCEPT !.list = IF @ = None THEN None ELSE Absent, !.pin = None,
                                           !.tomb = TRUE, !.tombOld = FALSE, !.failed = FALSE])
                [] OTHER ->
                     FromCache([tab EXCEPT !.list = Upserted(tab, Body(e.body, FALSE)), !.pin = Body(e.body, FALSE),
                                           !.pinOld = FALSE, !.tomb = FALSE, !.failed = FALSE])
    /\ UNCHANGED <<remote, listed, startup, form, write, refresh, restart, counters>>

-----------------------------------------------------------------------------
(* Refreshing: the 30 s poll *)

Unread == [vars |-> None, pend |-> None, up |-> None]

\* One refresh at a time.
StartRefresh ==
    /\ ~tab.refreshing
    /\ tab' = [tab EXCEPT !.refreshing = TRUE] /\ refresh' = Unread
    /\ UNCHANGED <<remote, listed, startup, form, log, write, undos, restart, counters>>

\* The calls of a refresh are made at the same time and answered in any
\* order; each may fail on its own.
RefreshReads(part) ==
    /\ refresh # None /\ refresh[part] = None
    /\ \/ /\ refresh' = [refresh EXCEPT ![part] = CASE part = "vars" -> listed [] part = "pend" -> remote [] OTHER -> startup]
          /\ UNCHANGED failures
       \/ Fails /\ refresh' = [refresh EXCEPT ![part] = Failed]
    /\ UNCHANGED <<remote, listed, startup, tab, form, log, write, undos, restart, keys, edits>>

\* Mutant of Merged: a deleted row comes back with the list.
MergedRevived(t, r) == IF r.vars = Absent /\ t.pin # None /\ ~t.pinOld THEN t.pin ELSE r.vars

\* The row of a refreshed list: pins and pending variables fill in what the
\* list lacks, and a tombstone suppresses the row.
Merged(t, r) ==
    LET pin == IF t.pinOld THEN None ELSE t.pin
        pended == IF r.pend # Failed /\ Pending(r.pend) THEN r.pend ELSE Absent IN
    IF t.tomb /\ ~t.tombOld THEN Absent
    ELSE IF r.vars # Absent THEN r.vars
    ELSE IF pin # None THEN pin ELSE pended

\* Mutant of ApplyRefresh: a pin is never dropped, and hides the list.
ApplyRefreshPinned ==
    LET r == refresh
        t == [tab EXCEPT !.refreshing = FALSE, !.list = IF tab.pin # None THEN tab.pin ELSE Merged(tab, r),
                         !.pending = Pending(r.pend)] IN
    /\ r # None /\ {None, Failed} \intersect {r.vars, r.pend, r.up} = {}
    /\ tab' = [t EXCEPT !.apply = IF r.up = "restarting" THEN "Restarting"
                                  ELSE IF PendingCount(t) THEN "Unapplied" ELSE "NoChanges"]
    /\ refresh' = None
    /\ UNCHANGED <<remote, listed, startup, form, log, write, undos, restart, counters>>

\* Mutant of ApplyRefresh: "ready" does not end a restart.
ApplyRefreshLatched ==
    LET r == refresh
        t == [tab EXCEPT !.refreshing = FALSE, !.list = Merged(tab, r), !.pending = Pending(r.pend),
                         !.pin = IF tab.pinOld THEN None ELSE @, !.tomb = IF tab.tombOld THEN FALSE ELSE @] IN
    /\ r # None /\ {None, Failed} \intersect {r.vars, r.pend, r.up} = {}
    /\ tab' = IF r.up = "restarting" THEN [t EXCEPT !.apply = "Restarting"] ELSE FromCache(t)
    /\ refresh' = None
    /\ UNCHANGED <<remote, listed, startup, form, log, write, undos, restart, counters>>

\* apply_refresh: "restarting" is believed alone, "ready" only with fresh lists.
ApplyRefresh ==
    LET r == refresh
        seen == [tab EXCEPT !.refreshing = FALSE,
                            !.list = IF r.vars = Failed THEN @ ELSE Merged(tab, r),
                            !.pin = IF r.vars # Failed /\ tab.pinOld THEN None ELSE @,
                            !.tomb = IF r.vars # Failed /\ tab.tombOld THEN FALSE ELSE @]
        t == [seen EXCEPT !.pending = IF r.pend = Failed THEN @ ELSE Pending(r.pend)] IN
    /\ r # None /\ None \notin {r.vars, r.pend, r.up}
    /\ tab' = CASE r.up = "restarting" -> [t EXCEPT !.apply = "Restarting"]
                [] r.up = "ready" /\ Failed \notin {r.vars, r.pend} ->
                     [t EXCEPT !.apply = IF PendingCount(t) THEN "Unapplied" ELSE "NoChanges"]
                [] OTHER -> t
    /\ refresh' = None
    /\ UNCHANGED <<remote, listed, startup, form, log, write, undos, restart, counters>>

-----------------------------------------------------------------------------
(* Restarting the tenant *)

\* The confirmation is answered; what it was opened on is not looked at
\* again.  (One restart request at a time.)
Restart ==
    /\ Key /\ form # None /\ form.mode = "restart" /\ restart = None
    /\ form' = None /\ restart' = "sent" /\ tab' = [tab EXCEPT !.apply = "Restarting"]
    /\ UNCHANGED <<remote, listed, startup, log, write, undos, refresh>>

RestartSent ==
    /\ restart = "sent"
    /\ \/ startup' = "restarting" /\ restart' = "ok" /\ UNCHANGED failures
       \/ Fails /\ restart' = "err" /\ UNCHANGED startup
    /\ UNCHANGED <<remote, listed, tab, form, log, write, undos, refresh, keys, edits>>

\* apply_restart_result
RestartResult ==
    /\ restart \in {"ok", "err"}
    /\ tab' = IF restart = "err" THEN FromCache(tab) ELSE tab
    /\ restart' = None
    /\ UNCHANGED <<remote, listed, startup, form, log, write, undos, refresh, counters>>

-----------------------------------------------------------------------------
(* Time, quitting, the tenant and other writers *)

\* A pin or a tombstone outlives its time.
Ages ==
    /\ \/ tab.pin # None /\ ~tab.pinOld /\ tab' = [tab EXCEPT !.pinOld = TRUE]
       \/ tab.tomb /\ ~tab.tombOld /\ tab' = [tab EXCEPT !.tombOld = TRUE]
    /\ UNCHANGED <<remote, listed, startup, form, log, tasks, counters>>

\* The TUI ends with its tasks; a new one loads the log and retires the
\* entries that are old.
Quit ==
    /\ Fails
    /\ tab' = NewTab /\ form' = None
    /\ write' = None /\ undos' = {} /\ refresh' = None /\ restart' = None
    /\ \E old \in SUBSET {i \in 1..Len(log) : log[i].status = "Pending"} :
          log' = [i \in 1..Len(log) |-> IF i \in old THEN [log[i] EXCEPT !.status = "Expired"] ELSE log[i]]
    /\ UNCHANGED <<remote, listed, startup, keys, edits>>

ListCatchesUp ==
    /\ listed # remote /\ listed' = remote
    /\ UNCHANGED <<remote, startup, tab, form, log, tasks, counters>>

RestartDone ==
    /\ startup = "restarting" /\ startup' = "ready"
    /\ remote' = IF remote = Absent THEN Absent ELSE [remote EXCEPT !.loaded = TRUE]
    /\ UNCHANGED <<listed, tab, form, log, tasks, counters>>

Other ==
    /\ edits < MaxEdits /\ edits' = edits + 1
    /\ \/ \E b \in {Absent} \union {Body(v, FALSE) : v \in Vals} :
             Content(b) # Content(remote) /\ remote' = b /\ UNCHANGED startup
       \/ startup = "ready" /\ startup' = "restarting" /\ UNCHANGED remote
    /\ UNCHANGED <<listed, tab, form, log, tasks, keys, failures>>

UndoStep(u) == UndoCheck(u) \/ UndoGet(u) \/ UndoDelete(u) \/ UndoPut(u) \/ UndoResult(u)

Background ==
    \/ WriteGet \/ WriteDelete \/ WritePut \/ WriteResult
    \/ \E u \in undos : UndoStep(u)
    \/ RestartSent \/ RestartResult

Polling == StartRefresh \/ (\E part \in {"vars", "pend", "up"} : RefreshReads(part)) \/ ApplyRefresh

Next ==
    \/ \E mode \in {"create", "edit", "delete", "restart"} : Open(mode)
    \/ Cancel \/ (\E v \in Vals : Save(v)) \/ Delete \/ (\E i \in 1..Len(log) : Undo(i)) \/ Restart
    \/ Background \/ WriteFails \/ (\E u \in undos : UndoFails(u)) \/ Polling
    \/ Ages \/ Quit \/ ListCatchesUp \/ RestartDone \/ Other

Spec == Init /\ [][Next]_vars

\* Tasks run on and the open tab is polled; pins and tombstones grow old, the
\* list catches up and a restart ends.
FairSpec ==
    /\ Spec
    /\ WF_vars(Background) /\ WF_vars(Polling)
    /\ WF_vars(Ages) /\ WF_vars(ListCatchesUp) /\ WF_vars(RestartDone)

-----------------------------------------------------------------------------
(* Properties *)

Bodies == [val : Vals, loaded : BOOLEAN]

TypeOK ==
    /\ {remote, listed} \subseteq {Absent} \union Bodies /\ startup \in {"ready", "restarting"}
    /\ tab.list \in {None, Absent} \union Bodies /\ tab.pin \in {None} \union Bodies
    /\ tab.apply \in {None, "NoChanges", "Unapplied", "Restarting"}
    /\ tab.inFlight = (write # None) /\ tab.refreshing = (refresh # None)
    /\ \A i \in 1..Len(log) : log[i].body \in Vals \union {Absent} /\ log[i].after \in Vals \union {Absent}
    /\ \A u \in undos : u.entry \in 1..Len(log)

\* A deleted row does not come back while its tombstone lives, whatever the
\* lagging list returns and whichever results arrive late.
TombHidesRow == tab.tomb => tab.list \in {None, Absent}

ListTrue == tab.list # None /\ Content(tab.list) = Content(remote)

\* Once everyone stops, the row shows what the tenant has.
ListConverges == <>[]ListTrue

BannerTrue == tab.apply = IF Pending(remote) THEN "Unapplied" ELSE "NoChanges"

\* Once everyone stops, the banner says whether a restart is needed.
BannerConverges == <>[]BannerTrue
=============================================================================
