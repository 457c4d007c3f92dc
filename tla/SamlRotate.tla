----------------------------- MODULE SamlRotate ------------------------------
(***************************************************************************)
(* `aic saml rotate`: one role of one SAML entity signs with a key pair    *)
(* held in an ESV secret.  The role names an identifier, the identifier's  *)
(* label maps to the secret, and every ENABLED version of the secret is    *)
(* published in the entity's metadata, some time after it was written.     *)
(* The tenant never says which version holds which certificate: `stage`    *)
(* writes that pairing to the install's journal, `complete` reads it.      *)
(*                                                                         *)
(* Several installs, the admin console and `aic esv` write the same        *)
(* tenant, and no write carries a revision.  A command reads, plans, asks  *)
(* the operator, reads again and then writes; it may stop anywhere, and a  *)
(* write may be refused or land with its answer lost.                      *)
(***************************************************************************)
EXTENDS Naturals, Sequences, FiniteSets

CONSTANTS
    Installs,    \* installs of aic, each with its own journal
    Idents,      \* secretIdIdentifiers; each has one signing label
    Secrets,     \* ESV secret ids
    Certs,       \* certificates of the key pairs in hand
    Default,     \* the realm-wide default certificate
    Verbs,       \* the commands in use, of init, stage, complete
    Edits,       \* what the others do, of versions, recreate, chain, delete
    Configured,  \* whether the role starts with a secret of its own
    MaxVersions, \* bound: versions of one secret
    MaxStages,   \* bound: stage commands
    MaxFaults,   \* bound: failed calls and ended processes
    MaxEdits,    \* bound: writes by others
    None

SamlAssumption ==
    /\ Default \notin Certs /\ Configured \in BOOLEAN
    /\ None \notin Idents \union Secrets \union Certs \union {Default}
    /\ Idents # {} /\ Secrets # {} /\ Certs # {}

VARIABLES
    ident,     \* the role's secretIdIdentifier
    other,     \* the identifier another entity names
    mapping,   \* identifier -> the secret its label maps to
    secret,    \* secret -> its versions, oldest first; none if it is absent
    gen,       \* secret -> how often it was deleted and created again
    export,    \* what the metadata publishes: <<version, certificate>>
    journal,   \* install -> its record of a staged rollover
    run,       \* install -> its command in progress
    quiet,     \* installs whose last recheck no other write has followed
    stages, faults, edits

tenant == <<ident, other, mapping, secret, gen>>
bounds == <<stages, faults, edits>>
vars == <<tenant, export, journal, run, quiet, bounds>>

-----------------------------------------------------------------------------
(* The tenant *)

Version == [cert : Certs, on : BOOLEAN]

Alias(id) == IF id = None THEN None ELSE mapping[id]

\* enabled_in: the numbers of the ENABLED versions.
On(s) == {v \in DOMAIN secret[s] : secret[s][v].on}

\* What the role publishes once everything has propagated: the realm default
\* until a label of its own is mapped, nothing through a dangling mapping.
Live ==
    LET s == Alias(ident) IN
    IF s = None THEN {<<0, Default>>}
    ELSE {<<v, secret[s][v].cert>> : v \in On(s)}

\* published_fingerprints
Fingerprints(pub) == {p[2] : p \in pub}

\* survey_consumers and Consumers::exclusive: no other label maps to the
\* secret, claimed or not, and no other entity names the label.
Exclusive(id, s) == other # id /\ \A l \in Idents : mapping[l] = s => l = id

-----------------------------------------------------------------------------
(* What a command remembers *)

Record == [ident : Idents, secret : Secrets, version : 1..MaxVersions,
           cert : Certs, gen : 0..MaxEdits]

Idle == [pc |-> "idle", verb |-> None, ident |-> None, secret |-> None,
         on |-> {}, top |-> 0, fresh |-> {}, pub |-> {}, cert |-> None,
         retain |-> None, version |-> 0, choice |-> None, gen |-> 0,
         from |-> None, todo |-> <<>>, first |-> FALSE]

Steps == {"idle", "plan", "ask", "recheck", "send", "wait", "init_check", "init_write", "init_wait"}

Init ==
    /\ other = None
    /\ gen = [s \in Secrets |-> 0]
    /\ \E id \in Idents, s \in Secrets, c \in Certs :
         /\ ident = IF Configured THEN id ELSE None
         /\ mapping = [l \in Idents |-> IF Configured /\ l = id THEN s ELSE None]
         /\ secret = [t \in Secrets |-> IF Configured /\ t = s THEN <<[cert |-> c, on |-> TRUE]>> ELSE <<>>]
    /\ export = Live
    /\ journal = [i \in Installs |-> None]
    /\ run = [i \in Installs |-> Idle]
    /\ quiet = {}
    /\ stages = 0 /\ faults = 0 /\ edits = 0

Begin(i, verb) == verb \in Verbs /\ run[i].pc = "idle"
End(i) == run' = [run EXCEPT ![i] = Idle]
Leave(i) == End(i) /\ quiet' = quiet \ {i}
Goto(i, pc) == run' = [run EXCEPT ![i].pc = pc]
ReadOnly == UNCHANGED <<tenant, export, journal>>
InBounds == UNCHANGED bounds

\* A write of the tenant ends the quiet of everybody else.
WrittenBy(i) == quiet' = quiet \intersect {i}

-----------------------------------------------------------------------------
(* stage and complete: the plan *)

\* read_state, first half: the entity, the mapping, the secret's versions.
Read(i, verb, cert) ==
    LET s == Alias(ident) IN
    /\ Begin(i, verb)
    /\ IF verb = "stage" THEN stages < MaxStages /\ stages' = stages + 1 ELSE UNCHANGED stages
    /\ run' = [run EXCEPT ![i] = [Idle EXCEPT !.verb = verb, !.cert = cert,
                 !.pc = "plan", !.ident = ident, !.secret = s,
                 !.on = IF s = None THEN {} ELSE On(s),
                 !.top = IF s = None THEN 0 ELSE Len(secret[s])]]
    /\ ReadOnly /\ UNCHANGED <<quiet, faults, edits>>

\* phase, from the versions in hand and the export as it is read now.
Settled(r, pub) == r.secret # None /\ r.top > 0 /\ Cardinality(r.on) = 1 /\ Cardinality(pub) = 1
Staged(r, pub) == r.secret # None /\ r.top > 0 /\ Cardinality(r.on) = 2 /\ Cardinality(pub) = 2

\* plan_stage: only from Settled, and never the certificate already published.
PlanStage(i) ==
    /\ run[i].pc = "plan" /\ run[i].verb = "stage"
    /\ IF /\ Settled(run[i], export)
          /\ run[i].cert \notin Fingerprints(export)
          /\ Exclusive(run[i].ident, run[i].secret)
       THEN run' = [run EXCEPT ![i].pc = "ask", ![i].pub = export]
       ELSE End(i)
    /\ ReadOnly /\ UNCHANGED quiet /\ InBounds

\* usable_pairing: the four facts a record claims still hold.
UsablePairing(i, r, pub) ==
    LET rec == journal[i] IN
    /\ rec # None
    /\ rec.cert \in Fingerprints(pub)
    /\ rec.ident = r.ident /\ rec.secret = r.secret
    /\ rec.version \in r.on

\* Mutant of VersionFromRecord: the oldest ENABLED version goes.
OldestVersion(rec, on, retain) ==
    CHOOSE v \in on : \A w \in on : v <= w

\* version_from_record, for the two ENABLED versions of the Staged phase.
VersionFromRecord(rec, on, retain) ==
    IF rec.cert = retain THEN CHOOSE v \in on : v # rec.version ELSE rec.version

\* Mutant of ChosenVersion: without a record nothing can be completed.
RecordedOnly(usable, rec, on, retain, named) ==
    IF usable THEN VersionFromRecord(rec, on, retain) ELSE 0

\* VersionChoice: the record decides; where there is none, the operator does.
ChosenVersion(usable, rec, on, retain, named) ==
    IF usable THEN VersionFromRecord(rec, on, retain) ELSE named

\* plan_complete, with --retain and --disable-version as the operator gave
\* them: a usable record decides and the flag may only agree with it;
\* without one both flags are needed.  The latest version cannot go.
PlanComplete(i, keep, named) ==
    LET r == run[i]
        usable == UsablePairing(i, r, export)
        retain == IF keep = None /\ usable THEN journal[i].cert ELSE keep
        version == ChosenVersion(usable, journal[i], r.on, retain, named)
        ok == /\ Staged(r, export)
              /\ retain \in Fingerprints(export)
              /\ usable => named \in {0, version}
              /\ version \in r.on
              /\ version # r.top
              /\ Exclusive(r.ident, r.secret)
    IN
    /\ r.pc = "plan" /\ r.verb = "complete"
    /\ IF ok
       THEN run' = [run EXCEPT ![i].pc = "ask", ![i].pub = export,
                      ![i].retain = retain, ![i].version = version,
                      ![i].choice = IF usable THEN "Recorded" ELSE "Named",
                      ![i].gen = IF usable THEN journal[i].gen ELSE 0]
       ELSE End(i)
    /\ ReadOnly /\ UNCHANGED quiet /\ InBounds

-----------------------------------------------------------------------------
(* stage and complete: the recheck behind the prompt, and the write *)

\* recheck, first half: the chain must still end at the planned secret.
Recheck(i) ==
    /\ run[i].pc = "ask" /\ run[i].verb # "init"
    /\ IF Alias(ident) = run[i].secret
       THEN run' = [run EXCEPT ![i].pc = "recheck", ![i].fresh = On(run[i].secret), ![i].ident = ident]
            /\ quiet' = quiet \union {i}
       ELSE Leave(i)
    /\ ReadOnly /\ InBounds

\* Mutant of SurveyedAgain: the plan's survey is good enough.
SurveyedOnce(r) == TRUE

\* The survey of the recheck, about the identifier as it is now.
SurveyedAgain(r) == Exclusive(r.ident, r.secret)

\* Mutant of RolloverWriteOk: only what is published is compared.
PublishedUnchanged(r) == Fingerprints(r.pub) = Fingerprints(export)

\* rollover_write_ok: the same ENABLED versions and the same certificates.
RolloverWriteOk(r) == r.fresh = r.on /\ Fingerprints(r.pub) = Fingerprints(export)

\* rollover_pre_write_ok, from the export and the survey read last.
PreWrite(i) ==
    /\ run[i].pc = "recheck"
    /\ IF SurveyedAgain(run[i]) /\ RolloverWriteOk(run[i])
       THEN Goto(i, "send") /\ UNCHANGED quiet
       ELSE Leave(i)
    /\ ReadOnly /\ InBounds

AddedVersion(s, cert) == [secret EXCEPT ![s] = Append(@, [cert |-> cert, on |-> TRUE])]
WithStatus(s, v, on) == [secret EXCEPT ![s][v].on = on]

\* send_version: the answer names the version that was created.
SendVersion(i) ==
    LET r == run[i] IN
    /\ r.pc = "send" /\ r.verb = "stage"
    /\ IF secret[r.secret] = <<>>
       THEN Leave(i) /\ UNCHANGED secret
       ELSE /\ Len(secret[r.secret]) < MaxVersions
            /\ secret' = AddedVersion(r.secret, r.cert)
            /\ run' = [run EXCEPT ![i].pc = "wait", ![i].version = Len(secret[r.secret]) + 1,
                           ![i].gen = gen[r.secret]]
            /\ WrittenBy(i)
    /\ UNCHANGED <<ident, other, mapping, gen, export, journal>> /\ InBounds

\* send_disable: AIC refuses the latest version and one that does not exist.
SendDisable(i) ==
    LET r == run[i] IN
    /\ r.pc = "send" /\ r.verb = "complete"
    /\ IF r.version < Len(secret[r.secret])
       THEN secret' = WithStatus(r.secret, r.version, FALSE) /\ Goto(i, "wait") /\ WrittenBy(i)
       ELSE Leave(i) /\ UNCHANGED secret
    /\ UNCHANGED <<ident, other, mapping, gen, export, journal>> /\ InBounds

\* The request takes effect and its answer is lost: the command ends.
AnswerLost(i) ==
    LET r == run[i] IN
    /\ r.pc = "send" /\ faults < MaxFaults /\ faults' = faults + 1
    /\ secret[r.secret] # <<>>
    /\ IF r.verb = "stage"
       THEN Len(secret[r.secret]) < MaxVersions /\ secret' = AddedVersion(r.secret, r.cert)
       ELSE r.version < Len(secret[r.secret]) /\ secret' = WithStatus(r.secret, r.version, FALSE)
    /\ End(i) /\ quiet' = {}
    /\ UNCHANGED <<ident, other, mapping, gen, export, journal, stages, edits>>

-----------------------------------------------------------------------------
(* The wait for the export, and the journal *)

\* Mutant of SettledOn: the number of certificates is compared.
CountSettled(pub, expected) == Cardinality(pub) = Cardinality(expected)

\* settled_on: a set comparison.
SettledOn(pub, expected) == Fingerprints(pub) = expected

\* Mutant of RecordOf: the record names the newest version of the secret.
RecordOfNewest(r) ==
    [ident |-> r.ident, secret |-> r.secret, version |-> Len(secret[r.secret]),
     cert |-> r.cert, gen |-> r.gen]

\* The StagedRecord: the version the create answered with.  Its gen is a
\* history value.
RecordOf(r) ==
    [ident |-> r.ident, secret |-> r.secret, version |-> r.version,
     cert |-> r.cert, gen |-> r.gen]

\* confirm_publication and journal::record: only once the export shows both.
StageSettles(i) ==
    LET r == run[i] IN
    /\ r.pc = "wait" /\ r.verb = "stage"
    /\ SettledOn(export, Fingerprints(r.pub) \union {r.cert})
    /\ journal' = [journal EXCEPT ![i] = RecordOf(r)]
    /\ Leave(i)
    /\ UNCHANGED <<tenant, export>> /\ InBounds

\* wait_for_export and journal::clear.
CompleteSettles(i) ==
    /\ run[i].pc = "wait" /\ run[i].verb = "complete"
    /\ SettledOn(export, {run[i].retain})
    /\ journal' = [journal EXCEPT ![i] = None]
    /\ Leave(i)
    /\ UNCHANGED <<tenant, export>> /\ InBounds

\* The export did not settle in time: an error, and the journal as it was.
TimesOut(i) ==
    LET r == run[i]
        expected == IF r.verb = "stage" THEN Fingerprints(r.pub) \union {r.cert} ELSE {r.retain} IN
    /\ r.pc = "wait" /\ ~SettledOn(export, expected)
    /\ Leave(i)
    /\ ReadOnly /\ InBounds

-----------------------------------------------------------------------------
(* init *)

\* Mutant of InitSteps: a role that names its identifier is set up.
InitStepsOnce(setIdent, create, map) ==
    IF setIdent THEN (IF create THEN <<"SetIdentifier", "CreateSecret", "MapLabel">> ELSE <<"SetIdentifier", "MapLabel">>) ELSE <<>>

\* InitPlan::steps
InitSteps(setIdent, create, map) ==
    (IF setIdent THEN <<"SetIdentifier">> ELSE <<>>)
    \o (IF create THEN <<"CreateSecret">> ELSE <<>>)
    \o (IF map THEN <<"MapLabel">> ELSE <<>>)

\* init and plan_init: the role is not repointed, a label mapped elsewhere is
\* not taken over, an existing secret is adopted as it is.
PlanInit(i, id, s, cert) ==
    LET todo == InitSteps(ident = None, secret[s] = <<>>, mapping[id] = None)
        ok == ident \in {None, id} /\ mapping[id] \in {None, s} /\ Exclusive(id, s)
    IN
    /\ Begin(i, "init")
    /\ IF ok /\ todo # <<>>
       THEN run' = [run EXCEPT ![i] = [Idle EXCEPT !.verb = "init", !.pc = "ask", !.ident = id,
                      !.secret = s, !.cert = cert, !.pub = export, !.todo = todo,
                      !.from = ident]]
       ELSE UNCHANGED run
    /\ ReadOnly /\ UNCHANGED quiet /\ InBounds

\* The identifier and the mapping the plan was made from.
PlannedMapping(r) == IF "MapLabel" \in {r.todo[k] : k \in DOMAIN r.todo} THEN None ELSE r.secret

\* init_recheck: target, publication and survey, once, behind the prompt.
InitRecheck(i) ==
    LET r == run[i] IN
    /\ r.pc = "ask" /\ r.verb = "init"
    /\ IF /\ ident = r.from
          /\ mapping[r.ident] = PlannedMapping(r)
          /\ Fingerprints(export) = Fingerprints(r.pub)
          /\ Exclusive(r.ident, r.secret)
       THEN run' = [run EXCEPT ![i].pc = "init_check", ![i].first = TRUE]
            /\ quiet' = quiet \union {i}
       ELSE Leave(i)
    /\ ReadOnly /\ InBounds

\* Mutant of ResurveysBefore: the survey in front of the first write stands.
NeverResurveys(r) == FALSE

\* InitPlan::resurveys_before: the last of several steps activates the chain.
ResurveysBefore(r) == Len(r.todo) = 1 /\ ~r.first

\* What a step reads again just before it writes: identifier_write_ok,
\* mapping_write_ok.
FreshRead(r) ==
    CASE Head(r.todo) = "SetIdentifier" -> ident = r.from
      [] Head(r.todo) = "CreateSecret" -> TRUE
      [] Head(r.todo) = "MapLabel" -> mapping[r.ident] = None

\* run_init_steps, up to the write of the next step.
InitCheck(i) ==
    LET r == run[i] IN
    /\ r.pc = "init_check"
    /\ IF /\ ResurveysBefore(r) => Exclusive(r.ident, r.secret)
          /\ FreshRead(r)
       THEN Goto(i, "init_write") /\ quiet' = IF r.first THEN quiet ELSE quiet \union {i}
       ELSE Leave(i)
    /\ ReadOnly /\ InBounds

\* set_identifier, create_key_secret, map_label.  A create of a secret that
\* exists is refused.
InitEffect(r) ==
    CASE Head(r.todo) = "SetIdentifier" ->
           ident' = r.ident /\ UNCHANGED <<mapping, secret>>
      [] Head(r.todo) = "CreateSecret" ->
           /\ secret[r.secret] = <<>>
           /\ secret' = [secret EXCEPT ![r.secret] = <<[cert |-> r.cert, on |-> TRUE]>>]
           /\ UNCHANGED <<ident, mapping>>
      [] Head(r.todo) = "MapLabel" ->
           mapping' = [mapping EXCEPT ![r.ident] = r.secret] /\ UNCHANGED <<ident, secret>>

\* A completed step; the entity PUT is read back and must be as it was sent.
InitWrite(i) ==
    LET r == run[i] IN
    /\ r.pc = "init_write"
    /\ InitEffect(r)
    /\ run' = [run EXCEPT ![i].todo = Tail(@), ![i].first = FALSE,
                 ![i].pc = IF Len(r.todo) = 1 THEN "init_wait" ELSE "init_check"]
    /\ WrittenBy(i)
    /\ UNCHANGED <<other, gen, export, journal>> /\ InBounds

\* The step's answer is lost, its read-back fails, or the process dies here.
InitWriteLost(i) ==
    /\ run[i].pc = "init_write" /\ faults < MaxFaults /\ faults' = faults + 1
    /\ InitEffect(run[i]) /\ End(i) /\ quiet' = {}
    /\ UNCHANGED <<other, gen, export, journal, stages, edits>>

\* The secret appeared since the plan: the create is refused.
InitCreateRefused(i) ==
    /\ run[i].pc = "init_write" /\ Head(run[i].todo) = "CreateSecret"
    /\ secret[run[i].secret] # <<>>
    /\ Leave(i)
    /\ ReadOnly /\ InBounds

\* The wait of init only reports; it records nothing.
InitWait(i) ==
    /\ run[i].pc = "init_wait"
    /\ Leave(i)
    /\ ReadOnly /\ InBounds

-----------------------------------------------------------------------------
(* Everything else that happens *)

\* The operator declines.
Decline(i) ==
    /\ run[i].pc = "ask"
    /\ Leave(i)
    /\ ReadOnly /\ InBounds

\* A failed read or write without effect, or the end of the process.
Stop(i) ==
    /\ run[i].pc # "idle" /\ faults < MaxFaults /\ faults' = faults + 1
    /\ Leave(i)
    /\ ReadOnly /\ UNCHANGED <<stages, edits>>

\* The metadata catches up with the tenant.
Propagate ==
    /\ export # Live
    /\ export' = Live
    /\ UNCHANGED <<tenant, journal, run, quiet>> /\ InBounds

Edit(kind) ==
    /\ kind \in Edits /\ edits < MaxEdits /\ edits' = edits + 1
    /\ quiet' = {}
    /\ UNCHANGED <<export, run, stages, faults>>

\* `aic esv secret` or the console: add a version, enable or disable one.
EditVersions(s) ==
    /\ Edit("versions") /\ secret[s] # <<>>
    /\ \/ Len(secret[s]) < MaxVersions /\ \E c \in Certs : secret' = AddedVersion(s, c)
       \/ \E v \in DOMAIN secret[s], on \in BOOLEAN :
            /\ secret[s][v].on # on /\ (v = Len(secret[s]) => on)
            /\ secret' = WithStatus(s, v, on)
    /\ UNCHANGED <<ident, other, mapping, gen, journal>>

\* The secret is deleted and created again: numbering starts at 1.
EditRecreate(s, c) ==
    /\ Edit("recreate") /\ secret[s] # <<>>
    /\ secret' = [secret EXCEPT ![s] = <<[cert |-> c, on |-> TRUE]>>]
    /\ gen' = [gen EXCEPT ![s] = @ + 1]
    /\ UNCHANGED <<ident, other, mapping, journal>>

\* A label is mapped or unmapped, another entity takes an identifier, or the
\* role is repointed.
EditChain ==
    /\ Edit("chain")
    /\ \/ \E l \in Idents, s \in Secrets \union {None} :
            mapping' = [mapping EXCEPT ![l] = s] /\ UNCHANGED <<ident, other>>
       \/ other' \in (Idents \union {None}) \ {other} /\ UNCHANGED <<ident, mapping>>
       \/ ident' \in (Idents \union {None}) \ {ident} /\ UNCHANGED <<other, mapping>>
    /\ UNCHANGED <<secret, gen, journal>>

\* `aic saml delete`: the entity is gone, and imported again without an
\* identifier; the install that deletes it clears its records.
EditDelete(i) ==
    /\ Edit("delete") /\ ident # None
    /\ ident' = None
    /\ journal' = [journal EXCEPT ![i] = None]
    /\ UNCHANGED <<other, mapping, secret, gen>>

Command(i) ==
    \/ \E c \in Certs : Read(i, "stage", c)
    \/ Read(i, "complete", None)
    \/ PlanStage(i)
    \/ \E keep \in Certs \union {None}, named \in 0..MaxVersions : PlanComplete(i, keep, named)
    \/ Recheck(i) \/ PreWrite(i)
    \/ SendVersion(i) \/ SendDisable(i) \/ AnswerLost(i)
    \/ StageSettles(i) \/ CompleteSettles(i) \/ TimesOut(i)
    \/ \E id \in Idents, s \in Secrets, c \in Certs : PlanInit(i, id, s, c)
    \/ InitRecheck(i) \/ InitCheck(i) \/ InitWrite(i) \/ InitWriteLost(i)
    \/ InitCreateRefused(i) \/ InitWait(i)
    \/ Decline(i) \/ Stop(i)

Next ==
    \/ \E i \in Installs : Command(i)
    \/ Propagate
    \/ \E s \in Secrets : EditVersions(s) \/ \E c \in Certs : EditRecreate(s, c)
    \/ EditChain
    \/ \E i \in Installs : EditDelete(i)

Spec == Init /\ [][Next]_vars

-----------------------------------------------------------------------------
(* Properties *)

TypeOK ==
    /\ ident \in Idents \union {None} /\ other \in Idents \union {None}
    /\ mapping \in [Idents -> Secrets \union {None}]
    /\ \A s \in Secrets : secret[s] \in Seq(Version) /\ Len(secret[s]) <= MaxVersions
    /\ gen \in [Secrets -> 0..MaxEdits]
    /\ export \subseteq (0..MaxVersions) \X (Certs \union {Default})
    /\ journal \in [Installs -> Record \union {None}]
    /\ \A i \in Installs : run[i].pc \in Steps /\ run[i].on \subseteq 1..MaxVersions
    /\ quiet \subseteq Installs
    /\ stages \in 0..MaxStages /\ faults \in 0..MaxFaults /\ edits \in 0..MaxEdits

\* The certificates a secret publishes.
Held(s) == {secret[s][v].cert : v \in On(s)}

\* A record of the journal tells which version holds which certificate: the
\* version it names holds its certificate, whatever failed or was written by
\* others since, as long as the secret was not deleted and created again.  The
\* numbers then start again at 1, and a record that is older says nothing.
RecordTrue ==
    \A i \in Installs :
        LET rec == journal[i] IN
        rec # None /\ rec.gen = gen[rec.secret] =>
            rec.version \in DOMAIN secret[rec.secret] /\ secret[rec.secret][rec.version].cert = rec.cert

KeepsRetained(i) ==
    LET r == run[i] IN r.retain \in Held(r.secret) => r.retain \in Held(r.secret)'

Disables(i) == SendDisable(i) /\ i \in quiet /\ run[i].choice = "Recorded"

\* The write of a complete keeps the retained certificate published.
DisableKeepsRetained ==
    \A i \in Installs : Disables(i) /\ run[i].gen = gen[run[i].secret] => KeepsRetained(i)

\* A complete that takes the version from its record never stops the
\* publication of the certificate the operator keeps, in either direction,
\* unless somebody writes between its recheck and its write, or the secret was
\* deleted and created again since the stage (see DisableNeverGuesses).
RetainedSurvives == [][DisableKeepsRetained]_vars

\* What usable_pairing is said to see to ("version numbering that restarted at
\* 1 ... Disabling on that basis retires whichever certificate the new version
\* 2 happens to hold, which is the guess the journal exists to replace"): the
\* same of a secret that was created again.  The code does not keep it.
DisableNeverGuesses == \A i \in Installs : Disables(i) => KeepsRetained(i)

\* The write of a stage leaves the published version and its own.
VersionOpensTwo ==
    \A i \in Installs :
         LET r == run[i] IN
         SendVersion(i) /\ secret' # secret /\ i \in quiet =>
             Cardinality(On(r.secret)') = 2 /\ Held(r.secret)' = Held(r.secret) \union {r.cert}

\* A stage opens a window of exactly two versions, the one that was published
\* and its own, unless somebody writes between its recheck and its write.
StageOpensTwo == [][VersionOpensTwo]_vars

\* What a successful complete leaves.
SettlesOnRetained ==
    \A i \in Installs :
         CompleteSettles(i) /\ i \in quiet /\ Cardinality(Fingerprints(run[i].pub)) = 2 =>
             /\ Cardinality(On(run[i].secret)) = 1
             /\ Held(run[i].secret) = {run[i].retain}

\* A complete that reports success leaves one ENABLED version, and it holds
\* the certificate the operator keeps, also where the version was only the
\* operator's claim; unless somebody else wrote since its recheck, or the two
\* versions held the same certificate.
CompletedKeepsRetained == [][SettlesOnRetained]_vars

\* The role resolves a key through the chain.
Active == Alias(ident) # None /\ secret[Alias(ident)] # <<>>

\* A write goes to a secret of this role alone.
SendsToOwn ==
    \A i \in quiet :
         LET r == run[i] IN
         /\ r.pc = "send" /\ secret' # secret /\ run'[i] # r =>
              Exclusive(ident, r.secret) /\ Alias(ident) = r.secret
         /\ r.pc = "init_write" /\ Len(r.todo) = 1 /\ run'[i] # r /\ ~Active /\ Active' =>
              Exclusive(r.ident, r.secret)

\* No command cuts another consumer over: a rollover writes a secret that
\* backs this role alone, and the last step of an init, from which the role
\* resolves its secret, finds the secret its own, unless somebody writes after
\* the last survey.
WritesOwnSecret == [][SendsToOwn]_vars

\* A command runs to its end once it is under way.
Work(i) ==
    \/ PlanStage(i) \/ PreWrite(i) \/ SendVersion(i) \/ SendDisable(i)
    \/ StageSettles(i) \/ CompleteSettles(i) \/ TimesOut(i)
    \/ InitCheck(i) \/ InitWrite(i) \/ InitCreateRefused(i) \/ InitWait(i)

\* The operator runs the command again and, after refusals, with flags the
\* plan accepts.
Accepted(i) ==
    /\ \/ \E keep \in Certs \union {None}, named \in 0..MaxVersions : PlanComplete(i, keep, named)
       \/ \E id \in Idents, s \in Secrets, c \in Certs : PlanInit(i, id, s, c)
    /\ run'[i].pc = "ask"

\* The operator does not decline: the state is read again before a write.
Rechecks(i) == Recheck(i) \/ InitRecheck(i)

\* An operator with an open rollover, or an init that stopped, tries again,
\* and does not decline for ever.  The metadata catches up.
Fairness ==
    /\ WF_vars(Propagate)
    /\ \A i \in Installs : WF_vars(Read(i, "complete", None)) /\ WF_vars(Work(i))
    /\ SF_vars(\E i \in Installs : Accepted(i))
    /\ SF_vars(\E i \in Installs : Rechecks(i))

FairSpec == Spec /\ Fairness

\* Two versions published, and one.
WindowOpen(s) == Cardinality(On(s)) = 2
WindowClosed(s) == Cardinality(On(s)) = 1

\* A rollover that was opened is closed in the end, also when its stage died
\* before the journal was written or a complete before it was cleared.
RolloverCloses == \A s \in Secrets : WindowOpen(s) ~> WindowClosed(s)

\* The role names a secret of its own, usable or not.
Named == ident # None

\* An init that stopped after any of its writes is finished by running it again.
InitFinishes == Named ~> Active

=============================================================================
