----------------------------- MODULE FileLease -----------------------------
(* AicFileLease (packages/rhino-local/src/aic/file-lease.ts) and its crash    *)
(* journal: what a lease creates on the tenant is named in a local journal    *)
(* before it is written, and the journal goes when everything is deleted      *)
(* again.  Requests fail or lose their answers, the process is killed, other  *)
(* writers take an address of the lease, and the next open deals with the     *)
(* journal it finds.  One process at a time: the lock is LeaseLock's.         *)
EXTENDS Naturals

CONSTANTS
    Graph,       \* scripts, nodes and tree of the leased journey
    Libs,        \* libraries the suite declares
    Session,     \* the session-minter's resources
    Fixtures,    \* managed records that a run seeds
    Takeable,    \* addresses that another writer may take
    MaxFaults,   \* requests that fail or lose their answer
    MaxKills, MaxTaken, MaxRuns

LeaseAssumption ==
    /\ Takeable \subseteq Graph \union Libs \union Session \union Fixtures
    /\ {MaxFaults, MaxKills, MaxTaken, MaxRuns} \subseteq Nat

Resources == Graph \union Libs \union Session \union Fixtures

VARIABLES
    there,     \* what is at each address of the tenant
    journal,   \* the journal file
    lease,     \* the lease in memory
    unanswered,    \* what runs created by a request without an answer (history)
    faults, kills, taken, runs    \* counters

vars == <<there, journal, lease, unanswered, faults, kills, taken, runs>>
counters == <<faults, kills, taken, runs>>

\* "ours": created by the lease.  "over": another writer's, and the lease's PUT
\* has replaced it.  "blank": a library of ours without its source.
Ours == {"ours", "over", "blank"}
NoJournal == [on |-> FALSE, names |-> {}, notOwned |-> {}]

Closed == [pc |-> "closed", planned |-> {}, created |-> {}, session |-> {}, seeded |-> {},
           deleted |-> {}, todo |-> {}, ready |-> {}, journalled |-> FALSE, attempted |-> FALSE,
           bad |-> FALSE, path |-> "none"]

Init ==
    /\ there = [r \in Resources |-> "absent"] /\ journal = NoJournal /\ lease = Closed
    /\ unanswered = {} /\ faults = 0 /\ kills = 0 /\ taken = 0 /\ runs = 0

Present(s) == {r \in s : there[r] # "absent"}
Put(r, c) == there' = [there EXCEPT ![r] = c]
Fault == faults < MaxFaults /\ faults' = faults + 1
Name(s) == journal' = [journal EXCEPT !.names = @ \union s]

-----------------------------------------------------------------------------
(* Libraries are blanked, all of them, and then deleted: at close, after a    *)
(* failed open, and for the journal of an earlier process (path says which).  *)

\* Mutant of BlankSafe: the id is enough.
BlankSafeAny(l) == there[l] # "absent"

\* #tryBlankOwnedLibrary: marker, name and source are the lease's.
BlankSafe(l) == there[l] \in {"ours", "over"}

BlankLibrary(l) ==
    /\ lease.pc = "blank" /\ l \in lease.todo
    /\ \/ /\ ~BlankSafe(l) /\ UNCHANGED <<there, faults>>
          /\ lease' = [lease EXCEPT !.todo = @ \ {l}, !.bad = @ \/ there[l] = "other",
                                    !.ready = IF there[l] = "other" THEN @ ELSE @ \union {l}]
       \/ /\ BlankSafe(l) /\ Put(l, "blank") /\ UNCHANGED faults
          /\ lease' = [lease EXCEPT !.todo = @ \ {l}, !.ready = @ \union {l}]
       \/ /\ BlankSafe(l) /\ Fault
          /\ Put(l, "blank") \/ UNCHANGED there
          /\ lease' = [lease EXCEPT !.todo = @ \ {l}, !.bad = TRUE]
    /\ UNCHANGED <<journal, kills, taken, runs>>

\* #tryDeleteBlankedOwnedLibrary, with the passes of the loop that retries it.
DeleteLib(l) ==
    /\ lease.pc = "blank" /\ lease.todo = {} /\ l \in lease.ready
    /\ \/ /\ there[l] \in {"absent", "blank"} /\ Put(l, "absent") /\ UNCHANGED faults
          /\ lease' = [lease EXCEPT !.ready = @ \ {l}]
       \/ /\ there[l] \notin {"absent", "blank"} /\ UNCHANGED <<there, faults>>
          /\ lease' = [lease EXCEPT !.ready = @ \ {l}, !.bad = TRUE]
       \/ /\ Fault /\ UNCHANGED there
          /\ lease' = [lease EXCEPT !.ready = @ \ {l}, !.bad = TRUE]
    /\ UNCHANGED <<journal, kills, taken, runs>>

LibsDone == lease.pc = "blank" /\ lease.todo = {} /\ lease.ready = {}

\* Mutant of FailedOpenForgets: the journal of a failed open goes.
FailedOpenForgetsAll == lease.journalled

\* #cleanupAfterFailedOpen: a write that was sent may have left something.
FailedOpenForgets == lease.journalled /\ ~lease.attempted

\* What comes after the libraries: the end of #handleOlderJournal, of
\* #cleanupAfterFailedOpen and of close.
Finish ==
    /\ LibsDone
    /\ \/ /\ lease.path = "older" /\ ~lease.bad
          /\ journal' = NoJournal /\ lease' = [Closed EXCEPT !.pc = "plan"]
       \/ lease.path = "older" /\ lease.bad /\ lease' = Closed /\ UNCHANGED journal
       \/ /\ lease.path = "failed" /\ lease' = Closed
          /\ journal' = IF FailedOpenForgets THEN NoJournal ELSE journal
       \/ /\ lease.path = "close" /\ lease' = Closed
          /\ journal' = IF lease.bad THEN journal ELSE NoJournal
    /\ UNCHANGED <<there, counters>>

-----------------------------------------------------------------------------
(* open *)

Open ==
    /\ lease = Closed
    /\ lease' = [Closed EXCEPT !.pc = IF journal.on THEN "older" ELSE "plan"]
    /\ UNCHANGED <<there, journal, counters>>


OlderLibs == (journal.names \intersect Libs) \ journal.notOwned

\* Mutant of Residue: what the journal names is taken to be there.
ResidueNamed == journal.names \ Libs # {} \/ journal.notOwned # {}

Residue == Present(journal.names \ Libs) # {} \/ journal.notOwned # {}

\* #handleOlderJournal: whatever else is still there is reported, never removed.
ProbeOlder ==
    /\ lease.pc = "older"
    /\ \/ /\ lease' = [lease EXCEPT !.pc = "blank", !.path = "older", !.todo = OlderLibs,
                                    !.bad = Residue]
          /\ UNCHANGED faults
       \/ Fault /\ lease' = Closed
    /\ UNCHANGED <<there, journal, kills, taken, runs>>

\* #planLibraries: another's library is used when its source is the same and
\* refused otherwise; one with the marker of a lease is refused.
Plan ==
    /\ lease.pc = "plan"
    /\ \/ /\ \A l \in Libs : there[l] \in {"absent", "other"}
          /\ lease' = [lease EXCEPT !.pc = "journal", !.planned = Libs \ Present(Libs)]
          /\ UNCHANGED faults
       \/ Present(Libs) # {} /\ lease' = Closed /\ UNCHANGED faults
       \/ Fault /\ lease' = Closed
    /\ UNCHANGED <<there, journal, kills, taken, runs>>

WriteJournal ==
    /\ lease.pc = "journal"
    /\ journal' = [on |-> TRUE, names |-> Graph, notOwned |-> {}]
    /\ lease' = [lease EXCEPT !.pc = "libs", !.journalled = TRUE]
    /\ UNCHANGED <<there, counters>>

\* The failed open deletes what it knows to have created, libraries last.
Unwind(l) == [l EXCEPT !.pc = "delete", !.path = "failed"]

\* addJournalOwnedLibrary
Intend(l) ==
    /\ lease.pc = "libs" /\ l \in lease.planned \ journal.names
    /\ lease.planned \intersect journal.names \subseteq lease.created
    /\ Name({l}) /\ UNCHANGED <<there, lease, counters>>

\* The PUT of a library: 201, 200 over another's, an error with or without
\* effect.
CreateLib(l) ==
    /\ lease.pc = "libs" /\ l \in (lease.planned \intersect journal.names) \ lease.created
    /\ \/ /\ there[l] = "absent" /\ Put(l, "ours") /\ UNCHANGED faults
          /\ lease' = [lease EXCEPT !.created = @ \union {l}, !.attempted = TRUE]
       \/ /\ there[l] = "other" /\ Put(l, "over") /\ UNCHANGED faults
          /\ lease' = [lease EXCEPT !.pc = "collided", !.todo = {l}, !.attempted = TRUE]
       \/ /\ Fault /\ lease' = Unwind([lease EXCEPT !.attempted = TRUE])
          /\ \/ UNCHANGED there
             \/ Put(l, IF there[l] = "other" THEN "over" ELSE "ours")
    /\ UNCHANGED <<journal, kills, taken, runs>>

\* markJournalLibraryNotOwned
Collided ==
    /\ lease.pc = "collided"
    /\ journal' = [journal EXCEPT !.notOwned = @ \union lease.todo]
    /\ lease' = Unwind([lease EXCEPT !.todo = {}])
    /\ UNCHANGED <<there, counters>>

\* refuseIfExists for the whole graph, before its first PUT.
CheckGraph ==
    /\ lease.pc = "libs" /\ lease.planned \subseteq lease.created
    /\ \/ /\ Present(Graph) = {} /\ lease' = [lease EXCEPT !.pc = "graph"] /\ UNCHANGED faults
       \/ Present(Graph) # {} /\ lease' = Unwind(lease) /\ UNCHANGED faults
       \/ Fault /\ lease' = Unwind(lease)
    /\ UNCHANGED <<there, journal, kills, taken, runs>>

\* PUT of one resource of the graph: anything but 201 fails the open.
CreateGraph(r) ==
    /\ lease.pc = "graph" /\ r \in Graph \ lease.created
    /\ \/ /\ there[r] = "absent" /\ Put(r, "ours") /\ UNCHANGED faults
          /\ lease' = [lease EXCEPT !.created = @ \union {r}, !.attempted = TRUE]
       \/ /\ there[r] = "other" /\ Put(r, "over") /\ UNCHANGED faults
          /\ lease' = Unwind([lease EXCEPT !.attempted = TRUE])
       \/ /\ Fault /\ lease' = Unwind([lease EXCEPT !.attempted = TRUE])
          /\ \/ UNCHANGED there
             \/ Put(r, IF there[r] = "other" THEN "over" ELSE "ours")
    /\ UNCHANGED <<journal, kills, taken, runs>>

Opened ==
    /\ lease.pc = "graph" /\ Graph \subseteq lease.created
    /\ lease' = [lease EXCEPT !.pc = "open"]
    /\ UNCHANGED <<there, journal, counters>>

-----------------------------------------------------------------------------
(* run *)

\* #runEffects takes the fixture lock, which a fixture that could not be
\* deleted still holds, and names every fixture first.
StartRun ==
    /\ lease.pc = "open" /\ lease.seeded = {} /\ runs < MaxRuns /\ runs' = runs + 1
    /\ Name(Fixtures) /\ lease' = [lease EXCEPT !.pc = "seed", !.todo = Fixtures]
    /\ UNCHANGED <<there, faults, kills, taken>>

\* seedManagedFixtures: a create refuses an id that is taken.
Seed(f) ==
    /\ lease.pc = "seed" /\ f \in lease.todo
    /\ \/ /\ there[f] = "absent" /\ Put(f, "ours") /\ UNCHANGED faults
          /\ lease' = [lease EXCEPT !.todo = @ \ {f}, !.seeded = @ \union {f}]
       \/ /\ there[f] # "absent" /\ lease' = [lease EXCEPT !.pc = "unseed", !.todo = {}]
          /\ UNCHANGED <<there, faults>>
       \/ /\ Fault /\ lease' = [lease EXCEPT !.pc = "unseed", !.todo = {}]
          /\ UNCHANGED there \/ (there[f] = "absent" /\ Put(f, "ours"))
    /\ UNCHANGED <<journal, kills, taken, runs>>

Seeded ==
    /\ lease.pc = "seed" /\ lease.todo = {}
    /\ lease' = [lease EXCEPT !.pc = "mint"]
    /\ UNCHANGED <<there, journal, counters>>

\* #mintSession: the first run that needs a session names and creates its
\* graph; with a session, the subject is replaced and driven.
CheckSession ==
    /\ lease.pc = "mint"
    /\ \/ /\ lease.session = Session /\ lease' = [lease EXCEPT !.pc = "unseed"]
          /\ UNCHANGED <<journal, faults>>
       \/ /\ lease.session # Session /\ Name(Session) /\ UNCHANGED faults
          /\ lease' = [lease EXCEPT !.pc = IF Present(Session) = {} THEN "minting" ELSE "unseed"]
       \/ /\ lease.session # Session /\ Name(Session) /\ Fault
          /\ lease' = [lease EXCEPT !.pc = "unseed"]
    /\ UNCHANGED <<there, kills, taken, runs>>

Mint(s) ==
    /\ lease.pc = "minting" /\ s \in Session \ lease.session
    /\ \/ /\ there[s] = "absent" /\ Put(s, "ours") /\ UNCHANGED faults
          /\ lease' = [lease EXCEPT !.session = @ \union {s}]
       \/ /\ there[s] = "other" /\ Put(s, "over") /\ UNCHANGED faults
          /\ lease' = [lease EXCEPT !.pc = "unseed"]
       \/ /\ Fault /\ lease' = [lease EXCEPT !.pc = "unseed"]
          /\ \/ UNCHANGED there
             \/ Put(s, IF there[s] = "other" THEN "over" ELSE "ours")
    /\ UNCHANGED <<journal, kills, taken, runs>>

Minted ==
    /\ lease.pc = "minting" /\ lease.session = Session
    /\ lease' = [lease EXCEPT !.pc = "unseed"]
    /\ UNCHANGED <<there, journal, counters>>

\* #cleanupManaged: the delete, then the entry of the journal.
Unseed(f) ==
    /\ lease.pc = "unseed" /\ f \in lease.seeded \ lease.deleted
    /\ \/ Put(f, "absent") /\ lease' = [lease EXCEPT !.deleted = @ \union {f}] /\ UNCHANGED faults
       \/ /\ Fault /\ lease' = [lease EXCEPT !.todo = @ \union {f}, !.deleted = @ \union {f},
                                             !.bad = @ \/ lease.path = "close"]
          /\ UNCHANGED there
    /\ UNCHANGED <<journal, kills, taken, runs>>

\* Fixtures that were deleted, and after a run the ones that were not created.
Unnamed == IF lease.path = "close" THEN lease.seeded \ lease.todo
           ELSE Fixtures \ (lease.seeded \intersect lease.todo)

UnseedDone ==
    /\ lease.pc = "unseed" /\ lease.seeded \subseteq lease.deleted
    /\ journal' = [journal EXCEPT !.names = @ \ Unnamed]
    /\ lease' = [lease EXCEPT !.seeded = @ \intersect lease.todo, !.deleted = {}, !.todo = {},
                              !.pc = IF lease.path = "close" THEN "delete" ELSE "open"]
    /\ UNCHANGED <<there, counters>>

\* endTest
EndTest ==
    /\ lease.pc = "open" /\ lease.seeded # {}
    /\ lease' = [lease EXCEPT !.pc = "unseed"]
    /\ UNCHANGED <<there, journal, counters>>

\* The read that confirms a create fails: the resource counts as created.
ConfirmFails ==
    /\ Fault /\ lease.created \union lease.session \union lease.seeded # {}
    /\ \/ lease.pc \in {"libs", "graph"} /\ lease' = Unwind(lease)
       \/ lease.pc \in {"seed", "minting"} /\ lease' = [lease EXCEPT !.pc = "unseed", !.todo = {}]
    /\ UNCHANGED <<there, journal, kills, taken, runs>>

-----------------------------------------------------------------------------
(* close *)

Close ==
    /\ lease.pc = "open"
    /\ lease' = [lease EXCEPT !.pc = "unseed", !.path = "close"]
    /\ UNCHANGED <<there, journal, counters>>

\* deleteCreatedResources of the session's graph and of the lease's.
Doomed == (lease.created \ Libs) \union lease.session

Delete(r) ==
    /\ lease.pc = "delete" /\ r \in Doomed \ lease.deleted
    /\ \/ Put(r, "absent") /\ UNCHANGED faults /\ lease' = [lease EXCEPT !.deleted = @ \union {r}]
       \/ /\ Fault /\ UNCHANGED there
          /\ lease' = [lease EXCEPT !.deleted = @ \union {r}, !.bad = TRUE]
    /\ UNCHANGED <<journal, kills, taken, runs>>

Deleted ==
    /\ lease.pc = "delete" /\ Doomed \subseteq lease.deleted
    /\ lease' = [lease EXCEPT !.pc = "blank", !.todo = lease.created \intersect Libs]
    /\ UNCHANGED <<there, journal, counters>>

-----------------------------------------------------------------------------
(* The world *)

Kill ==
    /\ lease # Closed /\ kills < MaxKills
    /\ kills' = kills + 1 /\ lease' = Closed
    /\ UNCHANGED <<there, journal, faults, taken, runs>>

\* Another writer takes an address the lease would use.
Take(r) ==
    /\ there[r] = "absent" /\ taken < MaxTaken
    /\ taken' = taken + 1 /\ Put(r, "other")
    /\ UNCHANGED <<journal, lease, faults, kills, runs>>

\* An operator removes what a journal names, and a journal that names a
\* library which is not the lease's.
Inspect(r) ==
    /\ lease = Closed /\ r \in Present(journal.names) /\ Put(r, "absent")
    /\ UNCHANGED <<journal, lease, counters>>

DropJournal ==
    /\ lease = Closed /\ journal.notOwned # {} /\ Present(journal.names) = {}
    /\ journal' = NoJournal
    /\ UNCHANGED <<there, lease, counters>>

LeaseStep ==
    \/ Open \/ ProbeOlder \/ Plan \/ WriteJournal \/ Collided \/ CheckGraph \/ Opened
    \/ ConfirmFails
    \/ StartRun \/ Seeded \/ CheckSession \/ Minted \/ UnseedDone \/ EndTest \/ Close \/ Deleted \/ Finish
    \/ \E l \in Libs : BlankLibrary(l) \/ DeleteLib(l) \/ Intend(l) \/ CreateLib(l)
    \/ \E r \in Graph : CreateGraph(r)
    \/ \E s \in Session : Mint(s)
    \/ \E f \in Fixtures : Seed(f) \/ Unseed(f)
    \/ \E r \in Graph \union Session : Delete(r)

Operator == DropJournal \/ \E r \in Resources : Inspect(r)

NotesAnswers ==
    LET OfRuns(t) == {r \in Session \union Fixtures : t[r] \in Ours}
        new == IF faults' # faults THEN OfRuns(there') \ OfRuns(there) ELSE {}
    IN unanswered' = (unanswered \union new) \intersect OfRuns(there')

Next == (LeaseStep \/ Kill \/ Operator \/ \E r \in Takeable : Take(r)) /\ NotesAnswers

Spec == Init /\ [][Next]_vars

\* The suite runs on and is run again; the operator acts on a residue report,
\* also while the suite is opened again and again in between; the tests of a
\* file come to their end.
FairSpec == Spec /\ WF_vars(LeaseStep) /\ SF_vars(Operator) /\ SF_vars(Close)

-----------------------------------------------------------------------------
(* Properties *)

\* Types; what a lease has created or seeded by its own account is named in
\* the journal.
TypeOK ==
    /\ there \in [Resources -> {"absent", "other"} \union Ours]
    /\ journal.on \in BOOLEAN /\ journal.names \subseteq Resources /\ journal.notOwned \subseteq Libs
    /\ lease.pc \in {"closed", "older", "plan", "journal", "libs", "collided", "graph", "open",
                     "seed", "mint", "minting", "unseed", "delete", "blank"}
    /\ lease.created \union lease.session \subseteq journal.names
    /\ lease.pc \notin {"unseed", "delete"} => lease.seeded \subseteq journal.names
    /\ faults \in 0..MaxFaults /\ kills \in 0..MaxKills /\ taken \in 0..MaxTaken /\ runs \in 0..MaxRuns

\* What the lease has left on the tenant is named in its journal, at every
\* moment and after every kill and lost answer ("an identifier-only journal
\* makes stale owned resources discoverable after process death").  Except what
\* a run created by a request whose answer it never had: the run takes a
\* fixture it does not know to be seeded out of the journal (line 456 of the
\* source), and the close deletes the session's resources it knows of (line
\* 596) and then the journal.
CreatedIsJournalled ==
    \A r \in Resources \ unanswered : there[r] \in Ours => r \in journal.names

\* What another writer created is there after a step of the lease.
KeepsOthers ==
    \A r \in Resources :
         lease # Closed /\ there[r] = "other" => there'[r] \in {"other", "over"}

\* A lease never blanks or deletes what another writer created: an address
\* taken by others is at most overwritten by a create in flight.
OthersStay == [][KeepsOthers]_vars

\* A step of the lease leaves the libraries it does not own alone.
KeepsNotOwned ==
    \A l \in journal.notOwned : lease # Closed /\ there[l] # "absent" => there'[l] = there[l]

\* A library that the journal marks as not owned is never blanked, deleted or
\* created again by any later open.
NotOwnedStays == [][KeepsNotOwned]_vars

NothingLeft == ~journal.on

\* The journal is gone again and again: no residue blocks the lease for ever
\* once an operator has acted on the reports.
JournalSettles == []<>NothingLeft
=============================================================================
