---------------------------- MODULE LinkRecovery ----------------------------
(* Link writes that are two requests long (managed/recovery.rs, relink.rs    *)
(* and their commands in managed/cli.rs): `relationship relink` removes a    *)
(* link the far end does not list and creates it again, `verify --probe`     *)
(* adds a test link and removes it.  Each pair is recorded in a journal      *)
(* before its first request, and a later run judges what an interrupted one  *)
(* left by reading the tenant.  One near record and one relationship field   *)
(* are modelled; every read, request and journal change is a step of its     *)
(* own, between which other runs and other writers act.                      *)
EXTENDS Naturals, FiniteSets

CONSTANTS
    Procs,        \* aic processes of this install
    Targets,      \* far records
    Props,        \* custom properties a link may carry
    Bare,         \* no custom properties, what a test link carries
    Array,        \* the near end is has-many (a has-one is mapped: If-Match holds)
    FarArray,     \* the far end is has-many
    InitialTargets, \* far records linked one-sidedly at first
    MaxEdits,     \* changes by other writers
    MaxProbes,    \* probes started
    MaxFailures   \* crashes, failed reads and failed journal writes

LinkAssumption ==
    /\ Bare \in Props /\ Array \in BOOLEAN /\ FarArray \in BOOLEAN
    /\ InitialTargets \subseteq Targets /\ (Array \/ Cardinality(InitialTargets) <= 1)
    /\ {MaxEdits, MaxProbes, MaxFailures} \subseteq Nat

VARIABLES
    links,      \* the near record's links: [to, props, id]
    onesided,   \* ids of the links the far end does not list
    farHeld,    \* has-one far records that hold some other record's link
    rev,        \* the near record's _rev
    journal,    \* .aic/managed-links.json: [id, kind, to, props, edge]
    run,        \* each process's command
    edges, entries, probes, edits, failures,   \* counters
    owed,       \* history: links a relink removed, not yet created again
    tests,      \* history: ids of test links
    misjudged   \* history: links whose entry a command took for settled while
                \* another was still at work on it, or by a test link

vars == <<links, onesided, farHeld, rev, journal, run, edges, entries, probes, edits, failures, owed, tests,
          misjudged>>
tenant == <<links, onesided, farHeld, rev, edges, owed, tests>>
counters == <<probes, edits, failures>>

Nothing == "none"
NoEdge == [to |-> Nothing, props |-> Nothing, id |-> 0]
Idle == [pc |-> "idle", mode |-> Nothing, todo |-> {}, restore |-> {}, plan |-> {},
         edge |-> NoEdge, entry |-> 0, rev |-> 0]

Init ==
    /\ \E props \in [InitialTargets -> Props], ids \in [InitialTargets -> 1..Cardinality(InitialTargets)] :
          /\ \A s, t \in InitialTargets : s # t => ids[s] # ids[t]
          /\ links = {[to |-> t, props |-> props[t], id |-> ids[t]] : t \in InitialTargets}
    /\ onesided = {e.id : e \in links} /\ farHeld = {} /\ rev = 0
    /\ journal = {} /\ run = [p \in Procs |-> Idle]
    /\ edges = Cardinality(InitialTargets) /\ entries = 0
    /\ probes = 0 /\ edits = 0 /\ failures = 0
    /\ owed = {} /\ tests = {} /\ misjudged = {}

-----------------------------------------------------------------------------
(* The near record, as requests and other writers change it *)

FarFree(t) == FarArray \/ (t \notin farHeld /\ \A e \in links : e.to = t => e.id \in onesided)

Linked(to, props) == [to |-> to, props |-> props, id |-> edges + 1]

\* A has-one property is replaced, a has-many gains an edge.
Added(e) == IF Array THEN links \union {e} ELSE {e}

What(e) == [to |-> e.to, props |-> e.props]

Change(new) == links' = new /\ rev' = rev + 1 /\ onesided' = onesided \intersect {e.id : e \in new}

Holds(r) == Array \/ r.rev = rev

-----------------------------------------------------------------------------
(* The journal *)

Pending(kind, e) == [id |-> entries + 1, kind |-> kind, to |-> e.to, props |-> e.props,
                     edge |-> IF kind = "Relink" THEN e.id ELSE 0]

Cleared(id) == {j \in journal : j.id # id}

\* Mutant of Judge: a re-creation is only told by the removed edge's id.
JudgeByEdge(j, current) ==
    IF \E e \in current : e.id = j.edge THEN IF j.kind = "Relink" THEN "Settled" ELSE "Leftover"
    ELSE IF j.kind = "Probe" THEN "Settled"
    ELSE IF ~Array /\ current # {} THEN "LostAndOccupied" ELSE "Lost"

\* Mutant of Judge: a link to the target settles an entry whatever it carries.
JudgeByTarget(j, current) ==
    LET matching == {e \in current : e.to = j.to} IN
    CASE j.kind = "Relink" /\ matching = {} -> IF ~Array /\ current # {} THEN "LostAndOccupied" ELSE "Lost"
      [] j.kind = "Relink" /\ matching # {} -> "Settled"
      [] j.kind = "Probe" /\ j.edge # 0 -> IF \E e \in matching : e.id = j.edge THEN "Leftover" ELSE "Settled"
      [] OTHER -> IF matching = {} THEN "Settled" ELSE "Ambiguous"

\* Mutant of Judge: a probe that was never read back is taken as settled.
JudgeUnread(j, current) ==
    LET matching == {e \in current : e.to = j.to} IN
    CASE j.kind = "Relink" /\ matching = {} -> IF ~Array /\ current # {} THEN "LostAndOccupied" ELSE "Lost"
      [] j.kind = "Relink" /\ matching # {} ->
            IF \E e \in matching : e.id = j.edge \/ e.props = j.props THEN "Settled" ELSE "Altered"
      [] OTHER -> IF \E e \in matching : e.id = j.edge THEN "Leftover" ELSE "Settled"

\* Mutant of Judge: nothing an interrupted run removed is ever taken as lost.
JudgeAltered(j, current) ==
    IF j.kind = "Relink" /\ \E e \in current : e.to = j.to /\ (e.id = j.edge \/ e.props = j.props)
    THEN "Settled" ELSE "Altered"

Judge(j, current) ==
    LET matching == {e \in current : e.to = j.to} IN
    CASE j.kind = "Relink" /\ matching = {} -> IF ~Array /\ current # {} THEN "LostAndOccupied" ELSE "Lost"
      [] j.kind = "Relink" /\ matching # {} ->
            IF \E e \in matching : e.id = j.edge \/ e.props = j.props THEN "Settled" ELSE "Altered"
      [] j.kind = "Probe" /\ j.edge # 0 -> IF \E e \in matching : e.id = j.edge THEN "Leftover" ELSE "Settled"
      [] OTHER -> IF matching = {} THEN "Settled" ELSE "Ambiguous"

-----------------------------------------------------------------------------
(* A command: reconcile the journal, plan, then one pair after the other *)

To(p, pc) == run' = [run EXCEPT ![p].pc = pc]
Stop(p) == run' = [run EXCEPT ![p] = Idle]

\* The pair at hand is over; the next one is picked from what is left.
NextPair(r) == [r EXCEPT !.pc = "next", !.edge = NoEdge, !.entry = 0, !.rev = 0]

\* relationship relink, a dry run included, or verify --probe: the journal is loaded.
Start(p, mode) ==
    /\ run[p].pc = "idle"
    /\ mode = "probe" => probes < MaxProbes
    /\ probes' = IF mode = "probe" THEN probes + 1 ELSE probes
    /\ run' = [run EXCEPT ![p] = [Idle EXCEPT !.pc = "reconcile", !.mode = mode, !.todo = journal]]
    /\ UNCHANGED <<tenant, journal, entries, edits, failures>>

Oldest(todo) == CHOOSE j \in todo : \A k \in todo : j.id <= k.id

\* The record is read and the oldest entry judged; an unreadable record keeps it.
Reconcile(p) ==
    LET r == run[p]
        j == Oldest(r.todo)
        verdict == Judge(j, links) IN
    /\ r.pc = "reconcile" /\ r.todo # {}
    /\ \/ /\ run' = [run EXCEPT ![p] =
                  [r EXCEPT !.todo = @ \ {j},
                            !.pc = IF verdict = "Settled" THEN "settled" ELSE @,
                            !.entry = IF verdict = "Settled" THEN j.id ELSE 0,
                            !.restore = IF verdict = "Lost" /\ r.mode = "relink" THEN @ \union {j} ELSE @]]
          /\ UNCHANGED failures
       \/ /\ failures < MaxFailures /\ failures' = failures + 1
          /\ run' = [run EXCEPT ![p].todo = @ \ {j}]
    /\ UNCHANGED <<tenant, journal, entries, probes, edits>>

\* A settled entry is forgotten.
Forget(p) ==
    /\ run[p].pc = "settled"
    /\ journal' = Cleared(run[p].entry)
    /\ run' = [run EXCEPT ![p].pc = "reconcile", ![p].entry = 0]
    /\ UNCHANGED <<tenant, entries, counters>>

\* The scan: a link the far end does not list, and could, is to be relinked.
\* A dry run and a declined plan write nothing.
Scan(p) ==
    /\ run[p].pc = "reconcile" /\ run[p].todo = {} /\ run[p].mode = "relink"
    /\ \/ Stop(p)
       \/ run' = [run EXCEPT ![p].pc = "next",
                             ![p].plan = {e \in links : e.id \in onesided /\ (FarArray \/ e.to \notin farHeld)}]
    /\ UNCHANGED <<tenant, journal, entries, counters>>

\* The probe's far record: one that can take a link.
Candidate(p) ==
    /\ run[p].pc = "reconcile" /\ run[p].todo = {} /\ run[p].mode = "probe"
    /\ \/ ~(Array \/ links = {}) /\ Stop(p)
       \/ /\ Array \/ links = {}
          /\ \/ (\A t \in Targets : ~FarFree(t)) /\ Stop(p)
             \/ \E t \in Targets : FarFree(t) /\ run' = [run EXCEPT ![p].pc = "near", ![p].edge = [NoEdge EXCEPT !.to = t, !.props = Bare]]
    /\ UNCHANGED <<tenant, journal, entries, counters>>

\* Restores come first, then the plan; the command ends when both are done.
Next1(p) ==
    LET r == run[p] IN
    /\ r.pc = "next"
    /\ \/ /\ r.restore # {}
          /\ LET j == Oldest(r.restore) IN
             run' = [run EXCEPT ![p] = [r EXCEPT !.pc = "near", !.mode = "restore", !.restore = @ \ {j}, !.entry = j.id,
                                                 !.edge = [to |-> j.to, props |-> j.props, id |-> j.edge]]]
       \/ /\ r.restore = {}
          /\ \E e \in r.plan :
                run' = [run EXCEPT ![p] = [r EXCEPT !.pc = "near", !.mode = "relink", !.plan = @ \ {e}, !.edge = e]]
       \/ r.restore = {} /\ r.plan = {} /\ Stop(p)
    /\ UNCHANGED <<tenant, journal, entries, counters>>

\* Mutant of StillApplies: the near record is not read again before the writes.
AlwaysApplies(r) == TRUE

\* The near record, read again just before the writes.
StillApplies(r) ==
    CASE r.mode = "relink" -> r.edge \in links
      [] r.mode = "restore" ->
            Judge([id |-> r.entry, kind |-> "Relink", to |-> r.edge.to, props |-> r.edge.props, edge |-> r.edge.id],
                  links) = "Lost"
      [] OTHER -> Array \/ links = {}

RecheckNear(p) ==
    LET r == run[p] IN
    /\ r.pc = "near"
    /\ IF StillApplies(r)
       THEN run' = [run EXCEPT ![p].pc = "far", ![p].rev = rev]
       ELSE IF r.mode = "probe" THEN Stop(p) ELSE run' = [run EXCEPT ![p] = NextPair(r)]
    /\ UNCHANGED <<tenant, journal, entries, counters>>

\* The far end, read again: it must not list the link nor hold another one.
RecheckFar(p) ==
    LET r == run[p] IN
    /\ r.pc = "far"
    /\ IF \/ ~FarArray /\ ~FarFree(r.edge.to)
          \/ r.mode = "relink" /\ r.edge.id \notin onesided
       THEN IF r.mode = "probe" THEN Stop(p) ELSE run' = [run EXCEPT ![p] = NextPair(r)]
       ELSE To(p, IF r.mode = "restore" THEN "create" ELSE "record")
    /\ UNCHANGED <<tenant, journal, entries, counters>>

\* The pair is recorded before its first request.
Record(p) ==
    LET r == run[p] IN
    /\ r.pc = "record"
    /\ journal' = journal \union {Pending(IF r.mode = "relink" THEN "Relink" ELSE "Probe", r.edge)}
    /\ entries' = entries + 1
    /\ run' = [run EXCEPT ![p].pc = IF r.mode = "relink" THEN "remove" ELSE "create", ![p].entry = entries + 1]
    /\ UNCHANGED <<tenant, counters>>

\* Mutant of Remove: the removal of a has-one is not conditional.
RemoveAnyway(p) ==
    LET r == run[p]
        gone == IF Array THEN {e \in links : e.id = r.edge.id} ELSE links IN
    /\ r.pc = "remove"
    /\ Change(links \ gone) /\ owed' = owed \union {What(e) : e \in gone}
    /\ To(p, IF Array THEN "create" ELSE "reread")
    /\ UNCHANGED <<farHeld, edges, tests, journal, entries, counters>>

\* The removal: a has-many names the edge, a has-one the property, if the
\* record is as it was read.  An edge that is gone is an error, which stops the run.
Remove(p) ==
    LET r == run[p]
        gone == IF Array THEN {e \in links : e.id = r.edge.id} ELSE links IN
    /\ r.pc = "remove"
    /\ IF Holds(r) /\ gone # {}
       THEN /\ Change(links \ gone) /\ owed' = owed \union {What(e) : e \in gone}
            /\ To(p, IF Array THEN "create" ELSE "reread")
            /\ UNCHANGED <<farHeld, edges, tests, journal>>
       ELSE /\ journal' = IF Holds(r) THEN journal ELSE Cleared(r.entry)
            /\ IF Holds(r) THEN Stop(p) ELSE run' = [run EXCEPT ![p] = NextPair(r)]
            /\ UNCHANGED tenant
    /\ UNCHANGED <<entries, counters>>

\* A has-one that gained a link in the gap is not overwritten.
Reread(p) ==
    /\ run[p].pc = "reread"
    /\ IF links # {} THEN Stop(p) ELSE run' = [run EXCEPT ![p].pc = "create", ![p].rev = rev]
    /\ UNCHANGED <<tenant, journal, entries, counters>>

\* The creation: refused when a has-one record changed, or when the far end is taken.
Create(p) ==
    LET r == run[p]
        e == Linked(r.edge.to, r.edge.props) IN
    /\ r.pc = "create"
    /\ IF Holds(r) /\ FarFree(r.edge.to)
       THEN /\ Change(Added(e)) /\ edges' = edges + 1
            /\ IF r.mode = "probe"
               THEN tests' = tests \union {e.id} /\ UNCHANGED owed
               ELSE owed' = owed \ {What(e)} /\ UNCHANGED tests
            /\ run' = [run EXCEPT ![p].pc = IF r.mode = "probe" THEN "setEdge" ELSE "confirm", ![p].edge = e]
            /\ UNCHANGED <<farHeld, journal>>
       ELSE /\ journal' = IF r.mode = "probe" /\ ~Holds(r) THEN Cleared(r.entry) ELSE journal
            /\ IF r.mode = "restore" /\ ~Holds(r) THEN run' = [run EXCEPT ![p] = NextPair(r)] ELSE Stop(p)
            /\ UNCHANGED tenant
    /\ UNCHANGED <<entries, counters>>


\* The probe's entry learns the edge its response named; a failure is a warning.
SetEdge(p) ==
    LET r == run[p] IN
    /\ r.pc = "setEdge" /\ To(p, "confirm")
    /\ \/ /\ journal' = {IF j.id = r.entry THEN [j EXCEPT !.edge = r.edge.id] ELSE j : j \in journal}
          /\ UNCHANGED failures
       \/ /\ failures < MaxFailures /\ failures' = failures + 1
          /\ UNCHANGED journal
    /\ UNCHANGED <<tenant, entries, probes, edits>>

\* The confirming read.  A restore takes any link with the properties; a
\* relink and a probe only the edge their response named.
Confirm(p) ==
    LET r == run[p] IN
    /\ r.pc = "confirm"
    /\ CASE r.mode = "relink" -> IF r.edge \in links THEN To(p, "done") ELSE run' = [run EXCEPT ![p] = NextPair(r)]
         [] r.mode = "restore" ->
              IF \E e \in links : What(e) = What(r.edge) THEN To(p, "done") ELSE Stop(p)
         [] OTHER -> IF r.edge \in links THEN To(p, IF Array THEN "unlink" ELSE "held") ELSE Stop(p)
    /\ UNCHANGED <<tenant, journal, entries, counters>>

\* The entry is forgotten once a read showed the pair finished; failing that
\* is a warning, and for a restore an error.
Done(p) ==
    LET r == run[p] IN
    /\ r.pc = "done"
    /\ \/ /\ journal' = Cleared(r.entry) /\ UNCHANGED failures
          /\ IF r.mode = "probe" THEN Stop(p) ELSE run' = [run EXCEPT ![p] = NextPair(r)]
       \/ /\ failures < MaxFailures /\ failures' = failures + 1 /\ UNCHANGED journal
          /\ IF r.mode = "relink" THEN run' = [run EXCEPT ![p] = NextPair(r)] ELSE Stop(p)
    /\ UNCHANGED <<tenant, entries, probes, edits>>

\* A has-one is emptied only while a read shows it holding the test link.
Held(p) ==
    /\ run[p].pc = "held"
    /\ IF run[p].edge \in links THEN run' = [run EXCEPT ![p].pc = "unlink", ![p].rev = rev] ELSE Stop(p)
    /\ UNCHANGED <<tenant, journal, entries, counters>>

\* Mutant of Unlink: the has-one is emptied whatever it holds.
UnlinkAnyway(p) ==
    /\ run[p].pc = "unlink" /\ To(p, "gone")
    /\ Change(IF Array THEN {e \in links : e.id # run[p].edge.id} ELSE {})
    /\ UNCHANGED <<farHeld, edges, owed, tests, journal, entries, counters>>

\* The test link is removed.
Unlink(p) ==
    LET r == run[p]
        gone == IF Array THEN {e \in links : e.id = r.edge.id} ELSE links IN
    /\ r.pc = "unlink"
    /\ IF Holds(r) /\ gone # {}
       THEN Change(links \ gone) /\ To(p, "gone") /\ UNCHANGED <<farHeld, edges, owed, tests>>
       ELSE Stop(p) /\ UNCHANGED tenant
    /\ UNCHANGED <<journal, entries, counters>>

\* A read shows the test link gone.
Gone(p) ==
    /\ run[p].pc = "gone"
    /\ IF run[p].edge \in links THEN Stop(p) ELSE To(p, "done")
    /\ UNCHANGED <<tenant, journal, entries, counters>>

\* A command killed, or stopped by a failed read or request.
Crash(p) ==
    /\ run[p].pc # "idle" /\ failures < MaxFailures
    /\ failures' = failures + 1 /\ Stop(p)
    /\ UNCHANGED <<tenant, journal, entries, probes, edits>>

-----------------------------------------------------------------------------
(* Other writers *)

\* A link to a record that is not linked yet; a has-one is given another link.
OtherAdds ==
    \E t \in Targets, props \in Props :
        /\ edits < MaxEdits /\ edits' = edits + 1
        /\ FarFree(t) /\ ~\E e \in links : e.to = t
        /\ Change(Added(Linked(t, props))) /\ edges' = edges + 1
        /\ owed' = owed \ {[to |-> t, props |-> props]}
        /\ UNCHANGED <<farHeld, tests, journal, run, entries, probes, failures>>

OtherRemoves ==
    \E e \in links :
        /\ edits < MaxEdits /\ edits' = edits + 1
        /\ Change(links \ {e})
        /\ UNCHANGED <<farHeld, edges, owed, tests, journal, run, entries, probes, failures>>

\* A has-one far record is linked to, or released by, another near record.
OtherHolds ==
    \E t \in Targets :
        /\ ~FarArray /\ edits < MaxEdits /\ edits' = edits + 1
        /\ t \in farHeld \/ FarFree(t)
        /\ farHeld' = IF t \in farHeld THEN farHeld \ {t} ELSE farHeld \union {t}
        /\ UNCHANGED <<links, onesided, rev, edges, owed, tests, journal, run, entries, probes, failures>>

Work(p) ==
    \/ Reconcile(p) \/ Forget(p) \/ Scan(p) \/ Candidate(p) \/ Next1(p) \/ RecheckNear(p) \/ RecheckFar(p)
    \/ Record(p) \/ Remove(p) \/ Reread(p) \/ Create(p) \/ SetEdge(p) \/ Confirm(p) \/ Done(p)
    \/ Held(p) \/ Unlink(p) \/ Gone(p)

\* Nothing tells an entry that is being worked on from one that was left over,
\* nor a test link from the one that was removed.
Misjudges(p, j) ==
    /\ run[p].pc = "reconcile" /\ run'[p].pc = "settled" /\ run'[p].entry = j.id /\ j.kind = "Relink"
    /\ \/ \E q \in Procs \ {p} : run[q].entry = j.id
       \/ \A e \in links : e.to = j.to => e.id \in tests

NotesMisjudged ==
    misjudged' = misjudged \union {What(j) : j \in {k \in journal : \E p \in Procs : Misjudges(p, k)}}

Next ==
    /\ \/ \E p \in Procs : (\E mode \in {"relink", "probe"} : Start(p, mode)) \/ Work(p) \/ Crash(p)
       \/ OtherAdds \/ OtherRemoves \/ OtherHolds
    /\ NotesMisjudged

Spec == Init /\ [][Next]_vars

\* The operator agrees to the plan of a relink.
Consents(p) == Scan(p) /\ run'[p].pc = "next"

\* Commands run on, and the operator repeats relink without declining it for ever.
FairSpec ==
    /\ Spec
    /\ \A p \in Procs : WF_vars(Work(p)) /\ WF_vars(Start(p, "relink")) /\ SF_vars(Consents(p))

-----------------------------------------------------------------------------
(* Properties *)

Edge == [to : Targets, props : Props, id : 1..edges]
Entry == [id : 1..entries, kind : {"Relink", "Probe"}, to : Targets, props : Props, edge : 0..edges]

TypeOK ==
    /\ links \subseteq Edge /\ (Array \/ Cardinality(links) <= 1)
    /\ onesided \subseteq {e.id : e \in links} /\ farHeld \subseteq Targets
    /\ journal \subseteq Entry /\ (\A j, k \in journal : j.id = k.id => j = k)
    /\ \A p \in Procs : run[p].restore \subseteq Entry /\ run[p].plan \subseteq Edge /\ run[p].rev <= rev
    /\ owed \union misjudged \subseteq [to : Targets, props : Props] /\ tests \subseteq 1..edges

\* From its removal until it is created again, a link a relink removed is
\* described in the journal, with its properties ("in the recovery journal from
\* before its removal until a read shows it re-created").  Not so one whose
\* entry another command took for settled while the relink was still at it, or
\* because a test link to the same record looked like it (cli.rs, judge).
RemovedIsJournalled ==
    \A o \in owed \ misjudged : \E j \in journal : j.kind = "Relink" /\ j.to = o.to /\ j.props = o.props

\* A test link that is there is named in the journal: by its id, or as one to look at.
TestLinkIsNamed ==
    \A e \in links : e.id \in tests =>
        \E j \in journal : j.kind = "Probe" /\ j.to = e.to /\ j.edge \in {0, e.id}

\* What leaves by a command's step is the link it works on.
TakesItsOwn ==
    run' # run => \A e \in links \ links' : \E p \in Procs : run'[p] # run[p] /\ run[p].edge.id = e.id

\* A command removes or replaces no link but the one it works on.
OnlyItsOwnLink == [][TakesItsOwn]_vars

\* However often runs are interrupted and repeated, no link is created twice.
LinkedOnce == \A e, f \in links : e.to = f.to => e = f

\* Some link was removed and is not there again.
Owing == owed # {}

\* A removed link comes back, whatever stopped the run that removed it.
RemovedComesBack == Owing ~> ~Owing
=============================================================================
