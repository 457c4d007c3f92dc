------------------------------ MODULE Conversion ------------------------------
(***************************************************************************)
(* Converting a relationship pair from generic to mapped storage: `map`    *)
(* captures the links in a file, switches repo.ds, and creates each link   *)
(* again in its column; `restore-links` resumes that, or does it after a   *)
(* promotion brought the mapping; `rollback-map` removes the created links *)
(* and the mapping.  The switch hides the links of the other store and     *)
(* moves none.                                                             *)
(*                                                                         *)
(* Every record request saves its intent first.  A request whose answer    *)
(* does not come back may have been refused, may have landed, or may still *)
(* land; any command may stop at any step and be run again.                *)
(***************************************************************************)
EXTENDS Naturals, FiniteSets

CONSTANTS
    Procs,       \* processes that use the capture file
    Links,       \* links of the pair: forward record, target and properties
    Orphans,     \* links the column may already hold when it is mapped
    MaxFailures, \* bound: crashes, and requests that are not answered
    MaxTurns,    \* bound: changes between restoring and rolling back
    MaxEdits,    \* bound: links changed before the switch
    MaxQ14,      \* bound: declarations lost
    LateConfig,  \* whether a repo.ds write can land after its sender gave up
    None

ConversionAssumption ==
    /\ Orphans \subseteq Links /\ LateConfig \in BOOLEAN /\ None \notin Procs

VARIABLES
    mapped,   \* whether repo.ds maps the pair
    declared, \* whether config/managed declares both ends
    generic,  \* links of the generic store
    column,   \* edges of the mapped store
    inflight, \* requests that may still land
    file,     \* the capture
    holder,   \* who holds the run lock
    run,      \* process -> its command
    txn,      \* record requests so far: the source of transaction and edge ids
    turns, failures, edits, q14

tenant == <<mapped, declared, generic, column, inflight>>
bounds == <<txn, turns, failures, edits, q14>>
vars == <<tenant, file, holder, run, bounds>>

Idle == [pc |-> "idle", cmd |-> None, cap |-> None, before |-> None,
         todo |-> {}, cur |-> None, ack |-> None]

NewCapture(origin, links) ==
    [origin |-> origin, state |-> "Captured", pending |-> None, restored |-> {}, links |-> links]

States == {"Captured", "Switching", "Restoring", "Complete", "RollingBack", "RolledBack"}

Init ==
    /\ mapped = FALSE /\ declared = TRUE
    /\ generic \in SUBSET Links
    /\ \E orphans \in SUBSET Orphans : column = {[link |-> l, id |-> 0] : l \in orphans}
    /\ inflight = {} /\ file = None /\ holder = None
    /\ run = [p \in Procs |-> Idle]
    /\ txn = 0 /\ turns = 0 /\ failures = 0 /\ edits = 0 /\ q14 = 0

-----------------------------------------------------------------------------
(* What a command reads *)

\* conversion::guard: both ends declared, and the expected storage.
Guard(mode) == declared /\ mapped = mode

Edges(l) == {e \in column : e.link = l}

\* census: the links of the visible store; one link twice is refused.
CensusOk == mapped => \A l \in Links : Cardinality(Edges(l)) <= 1
Census == IF mapped THEN {e.link : e \in column} ELSE generic

Subset(cap) == CensusOk /\ Census \subseteq cap.links

\* Mutant of Exact: a snapshot that holds the captured links will do.
CapturedPresent(cap) == CensusOk /\ cap.links \subseteq Census

Exact(cap) == CensusOk /\ Census = cap.links

\* ready: mapped as captured, and nothing in the column but captured links.
Ready(cap) == Guard(TRUE) /\ Subset(cap)

\* Mutant of Acknowledges: only a reading settles a request.
NeverAcknowledges(r) == FALSE

\* Permit::acknowledges: this saved request, and no other.
Acknowledges(r) == r.ack # None /\ r.cap.pending = r.ack

\* Mutant of PendingOutcome: what is not seen did not happen.
AssumedFinished(r, present) == TRUE

\* pending_outcome: a creation is settled by presence, a removal by absence;
\* the opposite is unresolved unless the operator says the request is over.
PendingOutcome(r, present) ==
    \/ r.cap.pending.action = "Create" /\ present
    \/ r.cap.pending.action = "Remove" /\ ~present
    \/ Acknowledges(r)

\* restore_allowed
RestoreAllowed(cap) ==
    /\ cap.pending # None => cap.pending.action # "Remove"
    /\ cap.state # "RolledBack"

\* Mutant of NoOrphans: the column is taken as it is.
OrphansTaken(cap) == TRUE

\* no_orphans: a column that was just mapped is empty.
NoOrphans(cap) == cap.state \in {"Captured", "Switching"} => column = {}

\* Mutant of Owned: any edge of a captured link.
OwnedCaptured(cap, l) == l \in cap.links

\* The ownership test of removal.
Owned(cap, l) ==
    \/ l \in cap.restored
    \/ cap.pending # None /\ cap.pending.link = l

-----------------------------------------------------------------------------
(* Starting and stopping *)

Stop(p) ==
    /\ run' = [run EXCEPT ![p] = Idle]
    /\ holder' = IF holder = p THEN None ELSE holder

Fails == failures < MaxFailures /\ failures' = failures + 1

\* The command goes on, with the capture as it is now.
To(p, r) == run' = [run EXCEPT ![p] = r] /\ UNCHANGED holder

\* FileSession::save, and the command goes on.
SaveTo(p, r) == file' = r.cap /\ To(p, r)

\* A change of direction: rolling back, or restoring what was rolled back.
Turn(cmd) ==
    LET turning == file # None /\ (cmd = "Rollback") # (file.state = "RollingBack")
                               /\ (cmd = "Rollback" \/ file.state = "RollingBack") IN
    turns' = IF turning THEN turns + 1 ELSE turns

Load(cmd, ack) ==
    IF file = None
    THEN /\ cmd \in {"Map", "Capture"} /\ Guard(FALSE) /\ ~ack
         /\ cmd = "Capture" => generic # {}
    ELSE /\ cmd # "Capture"
         /\ cmd \in {"Map", "Restore"} => ack \/ RestoreAllowed(file)
         /\ cmd \in {"Map", "Rollback"} => file.origin = "InPlace"
         /\ cmd = "Map" => declared
         /\ cmd = "Restore" => Ready(file) /\ (file.origin = "InPlace" => NoOrphans(file))
         /\ ack => file.pending # None

\* The operator acknowledges only a request that is really over.
Finished(intent) ==
    /\ \A q \in inflight : q.kind = intent.action => q.id # intent.id
    /\ \A p \in Procs : run[p].pc \in {"create", "unlink"} => run[p].cap.pending # intent

\* The plan and the consent: the capture is loaded, or the links are read.
Plan(p, cmd, ack) ==
    /\ run[p].pc = "idle"
    /\ Load(cmd, ack)
    /\ ack => Finished(file.pending)
    /\ Turn(cmd) /\ turns' <= MaxTurns
    /\ LET cap == IF file # None THEN file
                  ELSE NewCapture(IF cmd = "Map" THEN "InPlace" ELSE "Promotion", generic)
       IN  To(p, [Idle EXCEPT !.pc = "open", !.cmd = cmd, !.cap = cap, !.before = file,
                              !.ack = IF ack THEN file.pending ELSE None])
    /\ UNCHANGED <<tenant, file, txn, failures, edits, q14>>

\* FileSession::open; map saves the capture as it was planned.
Open(p) ==
    LET r == run[p] IN
    /\ r.pc = "open"
    /\ IF holder = None /\ file = r.before
       THEN /\ holder' = p
            /\ file' = IF r.cmd = "Map" THEN r.cap ELSE file
            /\ run' = [run EXCEPT ![p].pc = IF r.cmd = "Restore" THEN "restore" ELSE "mode"]
       ELSE Stop(p) /\ UNCHANGED file
    /\ UNCHANGED <<tenant, bounds>>

Crash(p) ==
    /\ run[p].pc # "idle" /\ Fails
    /\ Stop(p)
    /\ UNCHANGED <<tenant, file, txn, turns, edits, q14>>

\* capture_links: the second census, and the file.
SaveCapture(p) ==
    LET r == run[p] IN
    /\ r.pc = "mode" /\ r.cmd = "Capture"
    /\ Stop(p)
    /\ file' = IF Exact(r.cap) /\ Guard(FALSE) THEN r.cap ELSE file
    /\ UNCHANGED <<tenant, bounds>>

-----------------------------------------------------------------------------
(* map: the switch *)

MapMode(p) ==
    LET r == run[p] IN
    /\ r.pc = "mode" /\ r.cmd = "Map"
    /\ CASE declared /\ ~mapped /\ r.cap.state \in {"Captured", "Switching"} ->
              SaveTo(p, [r EXCEPT !.pc = "recheck", !.cap.state = "Switching"])
         [] declared /\ mapped /\ NoOrphans(r.cap) ->
              To(p, [r EXCEPT !.pc = "restore"]) /\ UNCHANGED file
         [] OTHER -> Stop(p) /\ UNCHANGED file
    /\ UNCHANGED <<tenant, bounds>>

Recheck(p) ==
    LET r == run[p] IN
    /\ r.pc = "recheck"
    /\ IF Exact(r.cap) /\ Guard(FALSE) THEN To(p, [r EXCEPT !.pc = "put"]) ELSE Stop(p)
    /\ UNCHANGED <<tenant, file, bounds>>

\* write_plan: the documents read again, the PUT, and its read-back.  Each
\* writer says what it sends and where it goes on.
Put(p, mode, cap, next) ==
    LET r == run[p] IN
    \/ /\ mapped' = mode
       /\ SaveTo(p, [r EXCEPT !.pc = next, !.cap = cap, !.todo = r.cap.links])
       /\ UNCHANGED <<inflight, failures>>
    \/ /\ Fails /\ Stop(p)
       /\ \/ mapped' \in {mapped, mode} /\ UNCHANGED inflight
          \/ LateConfig /\ inflight' = inflight \union {[kind |-> "Put", mode |-> mode]}
                        /\ UNCHANGED mapped
       /\ UNCHANGED file

PutMap(p) ==
    /\ run[p].pc = "put"
    /\ IF Guard(FALSE) THEN Put(p, TRUE, run[p].cap, "orphans")
       ELSE Stop(p) /\ UNCHANGED <<mapped, inflight, file, failures>>
    /\ UNCHANGED <<declared, generic, column, txn, turns, edits, q14>>

CheckOrphans(p) ==
    /\ run[p].pc = "orphans"
    /\ IF NoOrphans(run[p].cap) THEN To(p, [run[p] EXCEPT !.pc = "restore"]) ELSE Stop(p)
    /\ UNCHANGED <<tenant, file, bounds>>

-----------------------------------------------------------------------------
(* restore_with *)

StartRestore(p) ==
    LET r == run[p] IN
    /\ r.pc = "restore"
    /\ IF /\ Ready(r.cap)
          /\ r.cap.state = "RolledBack" \/ ~Acknowledges(r) => RestoreAllowed(r.cap)
       THEN To(p, [r EXCEPT !.pc = "link", !.todo = r.cap.links])
       ELSE Stop(p)
    /\ UNCHANGED <<tenant, file, bounds>>

\* The pending link comes first.
NextLink(r, l) == IF r.cap.pending # None THEN l = r.cap.pending.link ELSE l \in r.todo

\* The link is there: it is checked, receipted and no longer pending.
Receipted(r, l) ==
    [r EXCEPT !.pc = "link", !.todo = @ \ {l}, !.cap.state = "Restoring",
              !.cap.restored = @ \union {l}, !.cap.pending = None]

\* The intent saved before a request, and the step that sends it.
IntentOf(r, action, l) ==
    [r EXCEPT !.cap.pending = [action |-> action, link |-> l, id |-> txn + 1]]

RestoreLink(p, l) ==
    LET r == run[p]
        present == Edges(l) # {}
        reconciles == r.cap.pending # None IN
    /\ r.pc = "link" /\ NextLink(r, l)
    /\ CASE ~Guard(TRUE) \/ (reconciles /\ ~PendingOutcome(r, present)) ->
              Stop(p) /\ UNCHANGED <<file, txn>>
         [] Guard(TRUE) /\ (reconciles => PendingOutcome(r, present)) /\ present ->
              SaveTo(p, Receipted(r, l)) /\ UNCHANGED txn
         [] Guard(TRUE) /\ reconciles /\ PendingOutcome(r, present) /\ ~present ->
              SaveTo(p, [r EXCEPT !.cap.pending = None]) /\ UNCHANGED txn
         [] Guard(TRUE) /\ ~reconciles /\ ~present ->
              /\ SaveTo(p, [IntentOf([r EXCEPT !.cap.state = "Restoring"], "Create", l)
                              EXCEPT !.pc = "create", !.cur = l])
              /\ txn' = txn + 1
    /\ UNCHANGED <<tenant, turns, failures, edits, q14>>

\* What a record request does when it lands.
Lands(q) ==
    CASE q.kind = "Create" ->
           IF mapped THEN column' = column \union {[link |-> q.link, id |-> q.id]} /\ UNCHANGED generic
           ELSE generic' = generic \union {q.link} /\ UNCHANGED column
      [] q.kind = "Remove" -> column' = {e \in column : e.id # q.edge} /\ UNCHANGED generic

\* send_relink: answered; or not, and the request landed, may land, or never will.
Send(p, q, next) ==
    \/ Lands(q) /\ To(p, [run[p] EXCEPT !.pc = next]) /\ UNCHANGED <<inflight, failures>>
    \/ /\ Fails /\ Stop(p)
       /\ \/ Lands(q) /\ UNCHANGED inflight
          \/ inflight' = inflight \union {q} /\ UNCHANGED <<generic, column>>
          \/ UNCHANGED <<generic, column, inflight>>

Create(p) ==
    LET r == run[p] IN
    /\ r.pc = "create"
    /\ IF Guard(TRUE) THEN Send(p, [kind |-> "Create", link |-> r.cur, id |-> txn], "created")
       ELSE Stop(p) /\ UNCHANGED <<generic, column, inflight, failures>>
    /\ UNCHANGED <<mapped, declared, file, txn, turns, edits, q14>>

\* The read-back of the edge the answer named.
Created(p) ==
    LET r == run[p] IN
    /\ r.pc = "created"
    /\ IF Guard(TRUE) /\ \E e \in Edges(r.cur) : e.id = r.cap.pending.id
       THEN SaveTo(p, Receipted(r, r.cur))
       ELSE Stop(p) /\ UNCHANGED file
    /\ UNCHANGED <<tenant, bounds>>

\* finish_restore: the exact set, and the capture is complete.
Complete(p) ==
    LET r == run[p] IN
    /\ r.pc = "link" /\ r.todo = {} /\ r.cap.pending = None
    /\ Stop(p)
    /\ file' = IF Guard(TRUE) /\ Exact(r.cap) THEN [r.cap EXCEPT !.state = "Complete"] ELSE file
    /\ UNCHANGED <<tenant, bounds>>

-----------------------------------------------------------------------------
(* rollback-map *)

\* preflight: nothing is written unless every removal is allowed.
Preflight(r) ==
    /\ Ready(r.cap)
    /\ r.cap.pending # None => PendingOutcome(r, Edges(r.cap.pending.link) # {})
    /\ \A l \in r.cap.links : Edges(l) # {} => Owned(r.cap, l)

RollbackMode(p) ==
    LET r == run[p] IN
    /\ r.pc = "mode" /\ r.cmd = "Rollback"
    /\ CASE declared /\ mapped /\ Preflight(r) -> To(p, [r EXCEPT !.pc = "reconcile"])
         [] declared /\ ~mapped -> To(p, [r EXCEPT !.pc = "final"])
         [] OTHER -> Stop(p)
    /\ UNCHANGED <<tenant, file, bounds>>

\* reconcile_pending
Reconcile(p) ==
    LET r == run[p]
        l == r.cap.pending.link
        present == Edges(l) # {}
        found == IF present THEN {l} ELSE {} IN
    /\ r.pc = "reconcile"
    /\ CASE r.cap.pending = None -> To(p, [r EXCEPT !.pc = "confirm"]) /\ UNCHANGED file
         [] r.cap.pending # None /\ Guard(TRUE) /\ PendingOutcome(r, present) ->
              SaveTo(p, [r EXCEPT !.pc = "confirm", !.cap.pending = None,
                                  !.cap.restored = @ \union found])
         [] OTHER -> Stop(p) /\ UNCHANGED file
    /\ UNCHANGED <<tenant, bounds>>

\* The unchanged document is written first: a denial stops before any unlink.
ConfirmConfig(p) ==
    /\ run[p].pc = "confirm"
    /\ IF Guard(TRUE) THEN Put(p, TRUE, [run[p].cap EXCEPT !.state = "RollingBack"], "remove")
       ELSE Stop(p) /\ UNCHANGED <<mapped, inflight, file, failures>>
    /\ UNCHANGED <<declared, generic, column, txn, turns, edits, q14>>

\* remove_links
RemoveLink(p, l) ==
    LET r == run[p] IN
    /\ r.pc = "remove" /\ l \in r.todo
    /\ CASE ~Ready(r.cap) \/ (Edges(l) # {} /\ ~Owned(r.cap, l)) -> Stop(p) /\ UNCHANGED <<file, txn>>
         [] Ready(r.cap) /\ Edges(l) = {} ->
              To(p, [r EXCEPT !.todo = @ \ {l}]) /\ UNCHANGED <<file, txn>>
         [] Ready(r.cap) /\ Edges(l) # {} /\ Owned(r.cap, l) ->
              /\ SaveTo(p, [IntentOf(r, "Remove", l) EXCEPT !.pc = "unlink", !.cur = l])
              /\ txn' = txn + 1
    /\ UNCHANGED <<tenant, turns, failures, edits, q14>>

Unlink(p) ==
    LET r == run[p] IN
    /\ r.pc = "unlink"
    /\ \E e \in Edges(r.cur) :
         Send(p, [kind |-> "Remove", edge |-> e.id, link |-> r.cur, id |-> txn], "unlinked")
    /\ UNCHANGED <<mapped, declared, file, txn, turns, edits, q14>>

Unlinked(p) ==
    LET r == run[p] IN
    /\ r.pc = "unlinked"
    /\ IF Guard(TRUE) /\ Edges(r.cur) = {}
       THEN SaveTo(p, [r EXCEPT !.pc = "remove", !.todo = @ \ {r.cur}, !.cap.pending = None])
       ELSE Stop(p) /\ UNCHANGED file
    /\ UNCHANGED <<tenant, bounds>>

\* The mapping goes only once the mapped store is empty.
PutUnmap(p) ==
    LET r == run[p] IN
    /\ r.pc = "remove" /\ r.todo = {}
    /\ IF Guard(TRUE) /\ Census = {} /\ r.cap.pending = None THEN Put(p, FALSE, r.cap, "final")
       ELSE Stop(p) /\ UNCHANGED <<mapped, inflight, file, failures>>
    /\ UNCHANGED <<declared, generic, column, txn, turns, edits, q14>>

\* Mutant of RolledBack: the links are not read again at the end.
RolledBackUnread(p) ==
    LET r == run[p] IN
    /\ r.pc = "final"
    /\ Stop(p)
    /\ file' = IF r.cap.pending = None /\ Guard(FALSE)
               THEN [r.cap EXCEPT !.state = "RolledBack"] ELSE file
    /\ UNCHANGED <<tenant, bounds>>

\* The last check of a rollback: generic, and exactly the captured links.
RolledBack(p) ==
    LET r == run[p] IN
    /\ r.pc = "final"
    /\ Stop(p)
    /\ file' = IF r.cap.pending = None /\ Guard(FALSE) /\ Exact(r.cap)
               THEN [r.cap EXCEPT !.state = "RolledBack"] ELSE file
    /\ UNCHANGED <<tenant, bounds>>

-----------------------------------------------------------------------------
(* The tenant *)

\* A request that was given up lands, or never does.
Late ==
    /\ \E q \in inflight :
         /\ inflight' = inflight \ {q}
         /\ \/ UNCHANGED <<mapped, generic, column>>
            \/ q.kind = "Put" /\ mapped' = q.mode /\ UNCHANGED <<generic, column>>
            \/ q.kind # "Put" /\ Lands(q) /\ UNCHANGED mapped
    /\ UNCHANGED <<declared, file, holder, run, bounds>>

\* Q14: a confirmed declaration disappears, and is restored.
Q14 ==
    /\ q14 < 2 * MaxQ14 /\ q14' = q14 + 1
    /\ declared' = ~declared
    /\ UNCHANGED <<mapped, generic, column, inflight, file, holder, run, txn, turns, failures, edits>>

\* Writers that were not paused in time: up to the recheck before the switch.
Edit ==
    /\ edits < MaxEdits /\ edits' = edits + 1
    /\ ~mapped /\ inflight = {} /\ \A p \in Procs : run[p].pc # "put"
    /\ file # None => file.origin = "InPlace" /\ file.state \in {"Captured", "Switching"}
    /\ \E l \in Links : generic' = IF l \in generic THEN generic \ {l} ELSE generic \union {l}
    /\ UNCHANGED <<mapped, declared, column, inflight, file, holder, run, txn, turns, failures, q14>>

\* The promotion the links were captured for brings the mapping.
PromotionLands ==
    /\ ~mapped /\ file # None /\ file.origin = "Promotion"
    /\ mapped' = TRUE
    /\ UNCHANGED <<declared, generic, column, inflight, file, holder, run, bounds>>

Work(p) ==
    \/ Open(p) \/ SaveCapture(p) \/ MapMode(p) \/ Recheck(p) \/ PutMap(p) \/ CheckOrphans(p)
    \/ StartRestore(p) \/ Create(p) \/ Created(p) \/ Complete(p)
    \/ \E l \in Links : RestoreLink(p, l) \/ RemoveLink(p, l)
    \/ RollbackMode(p) \/ Reconcile(p) \/ ConfirmConfig(p)
    \/ Unlink(p) \/ Unlinked(p) \/ PutUnmap(p) \/ RolledBack(p)

Commands == {"Map", "Capture", "Restore", "Rollback"}

Next ==
    \/ \E p \in Procs : (\E cmd \in Commands, ack \in BOOLEAN : Plan(p, cmd, ack)) \/ Work(p) \/ Crash(p)
    \/ Late \/ Q14 \/ Edit \/ PromotionLands

Spec == Init /\ [][Next]_vars

\* The operator's next command, with or without an acknowledgement.
PlansAgain(p, ack) == \E cmd \in {"Map", "Restore", "Rollback"} : Plan(p, cmd, ack)

\* A lost declaration comes back.
DeclaredAgain == ~declared /\ Q14

\* Commands run on, requests are over in the end, the promotion and a lost
\* declaration come back, and the operator repeats whatever is accepted.
FairSpec ==
    /\ Spec
    /\ \A p \in Procs : WF_vars(Work(p))
    /\ \A p \in Procs, ack \in BOOLEAN : SF_vars(PlansAgain(p, ack))
    /\ WF_vars(Late) /\ WF_vars(PromotionLands) /\ WF_vars(DeclaredAgain)

-----------------------------------------------------------------------------
(* Properties *)

Captures == [origin : {"InPlace", "Promotion"}, state : States,
             pending : {None} \union [action : {"Create", "Remove"}, link : Links, id : 0..txn],
             restored : SUBSET Links, links : SUBSET Links]

TypeOK ==
    /\ mapped \in BOOLEAN /\ declared \in BOOLEAN /\ generic \subseteq Links
    /\ \A e \in column : e.link \in Links /\ e.id \in 0..txn
    /\ file # None => file \in Captures /\ file.restored \subseteq file.links
    /\ holder \in Procs \union {None}
    /\ \A p \in Procs : run[p].pc # "idle" => run[p].cap \in Captures

\* No link is ever held twice, although creations may land long after the
\* command that sent them stopped and commands are run again.
NoDuplicateLink == \A e, f \in column : e.link = f.link => e = f

\* The switch hides no link that is not captured, whatever writers did before it.
HiddenIsCaptured == mapped => file # None /\ generic \subseteq file.links

\* What a capture says is settled stays so: a completed conversion shows
\* exactly the captured links, each once, and so does a rolled-back one.
SettledShowsCaptured ==
    file # None /\ file.state \in {"Complete", "RolledBack"} =>
        /\ CensusOk /\ Census = file.links
        /\ mapped = (file.state = "Complete")

\* The edges the column held before have id 0.
KeepsForeign ==
    \A e \in column \ column' : e.id # 0

\* An edge the column held before the conversion is never removed.
ForeignEdgesStay == [][KeepsForeign]_vars

Begun == file # None
Settled == file # None /\ file.state \in {"Complete", "RolledBack"}

\* A conversion that was begun is completed or rolled back in the end.
ConversionSettles == Begun ~> Settled
=============================================================================
