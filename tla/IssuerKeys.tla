----------------------------- MODULE IssuerKeys ------------------------------
(***************************************************************************)
(* One Trusted JWT issuer, shared by every install of `aic` that signs for *)
(* the tenant.  Its document holds the public keys (by kid) and the        *)
(* allowed subjects, and is written whole: each operation reads it,        *)
(* computes a body and PUTs it, with no revision to protect the write.     *)
(* Each install keeps one private key record.  Within an install the       *)
(* tenant hold serialises these operations; between installs nothing does. *)
(*                                                                         *)
(* A request may fail with or without having taken effect; a process may   *)
(* die between two steps.  Both end the operation where it stands.  The    *)
(* admin console edits the document at any time.                           *)
(***************************************************************************)
EXTENDS Naturals, FiniteSets

CONSTANTS
    Installs,    \* installs of aic with their own vault
    Kids,        \* key ids still to be generated
    ForeignKids, \* keys in the set that nobody here holds
    Subjects,    \* user ids; an empty entry is Blank
    Blank,
    Production,  \* the tenant's theme
    Verbs,       \* the operations in use, of setup, rotate, remove, subjects
    MaxOps,      \* bound: operations started
    MaxFaults,   \* bound: failed requests and crashes
    MaxConsole,  \* bound: console edits
    None

VARIABLES
    issuer,     \* the document on the tenant, or None
    stored,     \* install -> kid of its private key record, or None
    run,        \* install -> its operation in progress
    used,       \* kids generated so far, with the install and the verb
    expected,   \* installs that were told their key is in place
    others,     \* install -> writes by others since its setup began to publish
    acted,      \* installs that have begun an operation
    ops, faults, console

vars == <<issuer, stored, run, used, expected, others, acted, ops, faults, console>>

AllKids == Kids \union ForeignKids
AllSubjects == Subjects \union {Blank}
Document == [keys : SUBSET AllKids, subjects : SUBSET AllSubjects]

IssuerAssumption ==
    /\ Production \in BOOLEAN
    /\ None \notin AllKids /\ Kids \intersect ForeignKids = {}
    /\ None \notin Document
    /\ Blank \notin Subjects

\* read_or_template: an absent issuer starts from the empty template.
Template == [keys |-> {}, subjects |-> {}]
ReadOrTemplate == IF issuer = None THEN Template ELSE issuer

\* issuer_is_restricted: some entry is not blank.
IsRestricted(subjects) == subjects \ {Blank} # {}

\* ensure_production_write_restricted
WriteAllowed(subjects) == Production => IsRestricted(subjects)

\* subjects_after_add drops blank entries; body_with_key, used when there is
\* nothing to add, keeps the list as it is.
SubjectsAfterAdd(subjects, incoming) == (subjects \ {Blank}) \union incoming
SubjectsAfterRemove(subjects, incoming) == subjects \ ({Blank} \union incoming)

\* Mutant of WithKey: the set is rebuilt around the new key.
WithOnlyKey(doc, kid, incoming) ==
    [keys |-> {kid},
     subjects |-> IF incoming = {} THEN doc.subjects
                  ELSE SubjectsAfterAdd(doc.subjects, incoming)]

\* body_with_key, body_with_key_and_subjects
WithKey(doc, kid, incoming) ==
    [keys |-> doc.keys \union {kid},
     subjects |-> IF incoming = {} THEN doc.subjects
                  ELSE SubjectsAfterAdd(doc.subjects, incoming)]

Idle == [pc |-> "idle", kid |-> None, old |-> None, doc |-> None,
         incoming |-> {}, attempt |-> 0, gaveUp |-> FALSE]

SetupSteps == {"setup_check", "setup_put", "setup_read", "setup_write", "setup_verify"}
RotateSteps == {"rotate_read", "rotate_write", "rotate_put", "retire_read", "retire_write"}
EditSteps == {"remove_read", "remove_write", "add_read", "rm_read", "subjects_write"}
Steps == {"idle"} \union SetupSteps \union RotateSteps \union EditSteps

Init ==
    /\ issuer \in {None} \union [keys : {ForeignKids}, subjects : SUBSET Subjects]
    /\ Production /\ issuer # None => IsRestricted(issuer.subjects)
    /\ stored = [i \in Installs |-> None]
    /\ run = [i \in Installs |-> Idle]
    /\ used = {}
    /\ expected = {}
    /\ others = [i \in Installs |-> 0]
    /\ acted = {} /\ ops = 0 /\ faults = 0 /\ console = 0

Generated == {u[1] : u \in used}

Begin(i, verb) ==
    /\ verb \in Verbs /\ run[i].pc = "idle" /\ ops < MaxOps
    /\ ops' = ops + 1 /\ acted' = acted \union {i}
Goto(i, pc) == run' = [run EXCEPT ![i].pc = pc]
End(i) == run' = [run EXCEPT ![i] = Idle]
Quiet == UNCHANGED <<acted, ops, faults, console>>

\* upsert_issuer: the whole document is replaced.
Upsert(i, body) ==
    /\ issuer' = body
    /\ others' = [j \in Installs |-> IF j = i \/ run[j].pc \notin {"setup_write", "setup_verify", "setup_read"}
                                     THEN others[j] ELSE others[j] + 1]

-----------------------------------------------------------------------------
(* setup *)

\* Mutant of SetupKid: every setup generates a key of its own.
SetupKidFresh(i, kid) == kid \notin Generated

\* The stored record is used again; a first setup generates one.
SetupKid(i, kid) == IF stored[i] = None THEN kid \notin Generated ELSE kid = stored[i]

Setup(i, incoming, kid) ==
    /\ Begin(i, "setup")
    /\ SetupKid(i, kid)
    /\ used' = IF kid \in Generated THEN used ELSE used \union {<<kid, i, "setup">>}
    /\ run' = [run EXCEPT ![i] = [Idle EXCEPT !.kid = kid, !.incoming = incoming,
                 !.pc = IF Production THEN "setup_check" ELSE "setup_put"]]
    /\ UNCHANGED <<issuer, stored, expected, others, faults, console>>

\* The production pre-check, before anything is stored.
SetupCheck(i) ==
    /\ run[i].pc = "setup_check"
    /\ IF WriteAllowed(SubjectsAfterAdd(ReadOrTemplate.subjects, run[i].incoming))
       THEN Goto(i, "setup_put") ELSE End(i)
    /\ UNCHANGED <<issuer, stored, used, expected, others>> /\ Quiet

\* Stored before it is published, so that a retry publishes the same key.
SetupPut(i) ==
    /\ run[i].pc = "setup_put"
    /\ stored' = [stored EXCEPT ![i] = run[i].kid]
    /\ Goto(i, "setup_read")
    /\ others' = [others EXCEPT ![i] = 0]
    /\ UNCHANGED <<issuer, used, expected>> /\ Quiet

\* Mutant of SetupRead: the check before the vault write is the last word.
SetupReadUnchecked(i) ==
    /\ run[i].pc = "setup_read"
    /\ run' = [run EXCEPT ![i].pc = "setup_write", ![i].doc = ReadOrTemplate]
    /\ UNCHANGED <<issuer, stored, used, expected, others>> /\ Quiet

\* The publish closure: read, re-check production, and later write.
SetupRead(i) ==
    /\ run[i].pc = "setup_read"
    /\ IF WriteAllowed(SubjectsAfterAdd(ReadOrTemplate.subjects, run[i].incoming))
       THEN run' = [run EXCEPT ![i].pc = "setup_write", ![i].doc = ReadOrTemplate]
       ELSE End(i)
    /\ UNCHANGED <<issuer, stored, used, expected, others>> /\ Quiet

SetupWrite(i) ==
    /\ run[i].pc = "setup_write"
    /\ Upsert(i, WithKey(run[i].doc, run[i].kid, run[i].incoming))
    /\ run' = [run EXCEPT ![i].pc = "setup_verify", ![i].attempt = @ + 1]
    /\ UNCHANGED <<stored, used, expected>> /\ Quiet

\* Mutant of MaxAttempts: one publish, no second.
OneAttempt == 1

\* publish_and_verify: two attempts.
MaxAttempts == 2

\* key_is_present; an issuer deleted meanwhile is an error.
SetupVerify(i) ==
    /\ run[i].pc = "setup_verify"
    /\ \/ /\ issuer # None /\ run[i].kid \in issuer.keys
          /\ expected' = expected \union {i}
          /\ End(i)
       \/ /\ issuer = None
          /\ End(i) /\ UNCHANGED expected
       \/ /\ issuer # None /\ run[i].kid \notin issuer.keys
          /\ IF run[i].attempt < MaxAttempts
             THEN Goto(i, "setup_read")
             ELSE run' = [run EXCEPT ![i] = [Idle EXCEPT !.gaveUp = TRUE]]
          /\ UNCHANGED expected
    /\ UNCHANGED <<issuer, stored, used, others>> /\ Quiet

-----------------------------------------------------------------------------
(* rotate: publish the new key, store it, retire the old one.              *)

Rotate(i, kid) ==
    /\ Begin(i, "rotate")
    /\ stored[i] # None /\ kid \notin Generated
    /\ used' = used \union {<<kid, i, "rotate">>}
    /\ run' = [run EXCEPT ![i] = [Idle EXCEPT !.pc = "rotate_read", !.kid = kid,
                                     !.old = stored[i]]]
    /\ UNCHANGED <<issuer, stored, expected, others, faults, console>>

\* Mutant of RotateRead: the new key is stored before it is published.
RotateReadStored(i) ==
    /\ run[i].pc = "rotate_read"
    /\ IF WriteAllowed(ReadOrTemplate.subjects)
       THEN /\ stored' = [stored EXCEPT ![i] = run[i].kid]
            /\ run' = [run EXCEPT ![i].pc = "rotate_write", ![i].doc = ReadOrTemplate]
       ELSE End(i) /\ UNCHANGED stored
    /\ UNCHANGED <<issuer, used, expected, others>> /\ Quiet

RotateRead(i) ==
    /\ run[i].pc = "rotate_read"
    /\ IF WriteAllowed(ReadOrTemplate.subjects)
       THEN run' = [run EXCEPT ![i].pc = "rotate_write", ![i].doc = ReadOrTemplate]
       ELSE End(i)
    /\ UNCHANGED <<issuer, stored, used, expected, others>> /\ Quiet

RotateWrite(i) ==
    /\ run[i].pc = "rotate_write"
    /\ Upsert(i, WithKey(run[i].doc, run[i].kid, {}))
    /\ Goto(i, "rotate_put")
    /\ UNCHANGED <<stored, used, expected>> /\ Quiet

RotatePut(i) ==
    /\ run[i].pc = "rotate_put"
    /\ stored' = [stored EXCEPT ![i] = run[i].kid]
    /\ Goto(i, "retire_read")
    /\ UNCHANGED <<issuer, used, expected, others>> /\ Quiet

\* remove_published_key: an absent issuer or kid is an error.
RetireRead(i) ==
    /\ run[i].pc = "retire_read"
    /\ IF issuer # None /\ run[i].old \in ReadOrTemplate.keys
       THEN run' = [run EXCEPT ![i].pc = "retire_write", ![i].doc = issuer]
       ELSE End(i)
    /\ UNCHANGED <<issuer, stored, used, expected, others>> /\ Quiet

\* remove_key_from_issuer, with no production gate: the list is kept.
RetireWrite(i) ==
    /\ run[i].pc = "retire_write"
    /\ Upsert(i, [run[i].doc EXCEPT !.keys = @ \ {run[i].old}])
    /\ End(i)
    /\ UNCHANGED <<stored, used, expected>> /\ Quiet

-----------------------------------------------------------------------------
(* `key remove --force` (and offboarding's unpublish), `subjects add|rm`.   *)

RemoveKey(i, kid) ==
    /\ Begin(i, "remove")
    /\ issuer # None /\ kid \in issuer.keys
    /\ run' = [run EXCEPT ![i] = [Idle EXCEPT !.pc = "remove_read", !.kid = kid]]
    /\ UNCHANGED <<issuer, stored, used, expected, others, faults, console>>

RemoveKeyRead(i) ==
    /\ run[i].pc = "remove_read"
    /\ IF issuer # None /\ run[i].kid \in ReadOrTemplate.keys
       THEN run' = [run EXCEPT ![i].pc = "remove_write", ![i].doc = issuer]
       ELSE End(i)
    /\ UNCHANGED <<issuer, stored, used, expected, others>> /\ Quiet

\* The operator was warned that this ends the install that holds the key.
RemoveKeyWrite(i) ==
    /\ run[i].pc = "remove_write"
    /\ Upsert(i, [run[i].doc EXCEPT !.keys = @ \ {run[i].kid}])
    /\ expected' = {j \in expected : stored[j] # run[i].kid}
    /\ End(i)
    /\ UNCHANGED <<stored, used>> /\ Quiet

EditSubjects(i, pc, incoming) ==
    /\ Begin(i, "subjects")
    /\ run' = [run EXCEPT ![i] = [Idle EXCEPT !.pc = pc, !.incoming = incoming]]
    /\ UNCHANGED <<issuer, stored, used, expected, others, faults, console>>

\* edit_issuer_subjects: one read; no change is no write; production is gated
\* on the list about to be written.
EditSubjectsRead(i) ==
    /\ run[i].pc \in {"add_read", "rm_read"}
    /\ LET after == IF run[i].pc = "add_read"
                    THEN SubjectsAfterAdd(ReadOrTemplate.subjects, run[i].incoming)
                    ELSE SubjectsAfterRemove(ReadOrTemplate.subjects, run[i].incoming) IN
       IF issuer # None /\ after # ReadOrTemplate.subjects /\ WriteAllowed(after)
       THEN run' = [run EXCEPT ![i].pc = "subjects_write",
                               ![i].doc = [ReadOrTemplate EXCEPT !.subjects = after]]
       ELSE End(i)
    /\ UNCHANGED <<issuer, stored, used, expected, others>> /\ Quiet

EditSubjectsWrite(i) ==
    /\ run[i].pc = "subjects_write"
    /\ Upsert(i, run[i].doc)
    /\ End(i)
    /\ UNCHANGED <<stored, used, expected>> /\ Quiet

-----------------------------------------------------------------------------
\* A request fails without effect, the store is refused, or the process dies.
Fails(i) ==
    /\ run[i].pc # "idle"
    /\ faults < MaxFaults /\ faults' = faults + 1
    /\ End(i)
    /\ UNCHANGED <<issuer, stored, used, expected, others, acted, ops, console>>

\* A publishing write took effect but its answer was lost: the operation ends
\* with an error.
AnswerLost(i) ==
    /\ run[i].pc \in {"setup_write", "rotate_write"}
    /\ faults < MaxFaults /\ faults' = faults + 1
    /\ Upsert(i, WithKey(run[i].doc, run[i].kid, run[i].incoming))
    /\ End(i)
    /\ UNCHANGED <<stored, used, expected, acted, ops, console>>

\* The admin console rewrites the subjects or deletes the issuer.
ConsoleEdit ==
    /\ console < MaxConsole /\ console' = console + 1
    /\ issuer # None
    /\ \E s \in SUBSET AllSubjects : issuer' \in {None, [issuer EXCEPT !.subjects = s]}
    /\ expected' = IF issuer' = None THEN {} ELSE expected
    /\ others' = [j \in Installs |-> IF run[j].pc \in {"setup_write", "setup_verify", "setup_read"}
                                     THEN others[j] + 1 ELSE others[j]]
    /\ UNCHANGED <<stored, run, used, acted, ops, faults>>

Next ==
    \/ ConsoleEdit
    \/ \E i \in Installs :
        \/ \E s \in SUBSET Subjects, k \in Kids : Setup(i, s, k)
        \/ \E k \in Kids : Rotate(i, k)
        \/ \E k \in AllKids : RemoveKey(i, k)
        \/ \E pc \in {"add_read", "rm_read"}, s \in SUBSET Subjects : EditSubjects(i, pc, s)
        \/ SetupCheck(i) \/ SetupPut(i) \/ SetupRead(i) \/ SetupWrite(i) \/ SetupVerify(i)
        \/ RotateRead(i) \/ RotateWrite(i) \/ RotatePut(i) \/ RetireRead(i) \/ RetireWrite(i)
        \/ RemoveKeyRead(i) \/ RemoveKeyWrite(i)
        \/ EditSubjectsRead(i) \/ EditSubjectsWrite(i)
        \/ Fails(i) \/ AnswerLost(i)

Spec == Init /\ [][Next]_vars

-----------------------------------------------------------------------------
Operations == [pc : Steps, kid : AllKids \union {None}, old : Kids \union {None},
               doc : Document \union {None}, incoming : SUBSET Subjects,
               attempt : 0..2, gaveUp : BOOLEAN]

TypeOK ==
    /\ issuer \in Document \union {None}
    /\ stored \in [Installs -> Kids \union {None}]
    /\ run \in [Installs -> Operations]
    /\ used \subseteq Kids \X Installs \X {"setup", "rotate"}
    /\ expected \subseteq Installs
    /\ others \in [Installs -> Nat]
    /\ acted \subseteq Installs /\ ops \in Nat /\ faults \in Nat /\ console \in Nat

\* rotate's comment: "every intermediate state leaves a usable install".  An
\* install whose setup succeeded keeps a private key the issuer publishes,
\* through every crash and failed request of setup and rotate, until its
\* operator or the console takes that key away.
UsableInstall ==
    \A i \in expected : issuer # None /\ stored[i] \in issuer.keys

\* A publishing write leaves a production issuer restricted.
PublishesRestricted ==
    \A i \in Installs :
         (Production /\ run[i].pc \in {"setup_write", "rotate_write"} /\ run'[i] # run[i]
            /\ issuer' # issuer) => IsRestricted(issuer'.subjects)

\* No publish of aic lands on a production issuer that mints for every user
\* of the realm, whatever the console did since the command's first check
\* (check_setup_on_production and check_rotate_on_production run again on the
\* document about to be sent).
ProductionPublishRestricted == [][PublishesRestricted]_vars

\* setup gives up ("did not retain kid") only after two writes by others: one
\* lost update is repaired by the second publish.
OneLossRepaired == \A i \in Installs : run[i].gaveUp => others[i] >= 2

\* A setup repeated after any failure publishes the key it stored: a kid that
\* setup generated and the issuer holds is the install's own, unless the
\* install has begun a rotation since (setup stores before it publishes).
NoOrphanFromSetup ==
    \A u \in used : (u[3] = "setup" /\ issuer # None /\ u[1] \in ReadOrTemplate.keys)
        => \/ stored[u[2]] = u[1]
           \/ \E w \in used : w[2] = u[2] /\ w[3] = "rotate"

\* A foreign key leaves the set only when `key remove` names it.
KeepsOthersKeys ==
    \A k \in ForeignKids :
         (issuer # None /\ k \in ReadOrTemplate.keys /\ (issuer' = None \/ k \notin issuer'.keys))
            => \E i \in Installs : run[i].pc = "remove_write" /\ run[i].kid = k

\* One install has worked so far, and the console left the issuer alone.
Alone == console = 0 /\ \A i, j \in acted : i = j

\* While one install works alone, nobody's key leaves the set except the one an
\* operation names: foreign keys stay until `key remove` takes them
\* (merge_jwk_set and remove_from_jwk_set keep every other key).
OthersKeysKept == [][Alone' => KeepsOthersKeys]_vars

\* What installs of aic may rely on of the issuer they share, and what one may
\* that works alone (jwtbearer/ops.rs): a setup gives up only after two writes
\* by others and leaves no orphan, no publish lands on a production issuer that
\* mints for all; alone, an install keeps a published key and everyone else's.
IssuerUsable ==
    /\ [](TypeOK /\ OneLossRepaired /\ NoOrphanFromSetup /\ (Alone => UsableInstall))
    /\ ProductionPublishRestricted
    /\ OthersKeysKept
=============================================================================
