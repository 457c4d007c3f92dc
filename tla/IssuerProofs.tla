----------------------------- MODULE IssuerProofs -----------------------------
(***************************************************************************)
(* For any number of installs, keys, subjects, failures and console edits: *)
(* what setup and rotate leave on the issuer and in the vault goes         *)
(* together, and no publish opens a production issuer to every user.       *)
(***************************************************************************)
EXTENDS IssuerKeys, TLAPS

Publishing == {"setup_read", "setup_write", "setup_verify"}
Adding == {"setup_write", "rotate_write"}
Taking == {"retire_write", "remove_write", "subjects_write"}

MadeBy(kid, i) == \E u \in used : u[1] = kid /\ u[2] = i
Rotated(i) == \E u \in used : u[2] = i /\ u[3] = "rotate"

\* A set of keys has no kid that was never generated, and none of a setup
\* that its install does not hold, unless it rotated since.
KeysKnown(keys) ==
    /\ keys \intersect Kids \subseteq Generated
    /\ \A u \in used : u[3] = "setup" /\ u[1] \in keys => stored[u[2]] = u[1] \/ Rotated(u[2])

\* Kids are generated once, and an install stores only its own.
KeysOwn ==
    /\ \A u, v \in used : u[1] = v[1] => u = v
    /\ \A i \in Installs : stored[i] # None => MadeBy(stored[i], i)
    /\ issuer # None => KeysKnown(issuer.keys)

\* setup stores its kid before it publishes; rotate publishes its kid before
\* it stores it, and retires the one it replaces.
KidOK(i) ==
    /\ run[i].pc \in SetupSteps =>
          /\ run[i].kid \in Kids /\ MadeBy(run[i].kid, i)
          /\ stored[i] # None => stored[i] = run[i].kid
          /\ run[i].pc \in Publishing => stored[i] = run[i].kid
    /\ run[i].pc \in RotateSteps =>
          /\ run[i].kid \in Kids /\ run[i].old \in Kids /\ run[i].kid # run[i].old
          /\ <<run[i].kid, i, "rotate">> \in used /\ run[i].incoming = {}
          /\ stored[i] = IF run[i].pc \in {"retire_read", "retire_write"}
                         THEN run[i].kid ELSE run[i].old

\* The document about to be sent.
DocOK(i) ==
    /\ run[i].pc \in Adding \union Taking => run[i].doc \in Document /\ KeysKnown(run[i].doc.keys)
    /\ run[i].pc = "setup_write" =>
          WriteAllowed(SubjectsAfterAdd(run[i].doc.subjects, run[i].incoming))
    /\ run[i].pc = "rotate_write" => WriteAllowed(run[i].doc.subjects)

\* A publish that setup finds undone was undone by somebody's write.
CountOK(i) ==
    /\ run[i].pc \in {"setup_check", "setup_put"} => run[i].attempt = 0
    /\ run[i].pc \in {"setup_read", "setup_write"} => run[i].attempt <= 1 /\ run[i].attempt <= others[i]
    /\ run[i].pc = "setup_verify" =>
          /\ run[i].attempt \in 1..2 /\ run[i].attempt <= others[i] + 1
          /\ issuer # None /\ run[i].kid \notin issuer.keys => run[i].attempt <= others[i]
    /\ run[i].gaveUp => run[i].pc = "idle" /\ others[i] >= 2

\* Without others, what was read is still there.
CurrentDoc(i) ==
    /\ run[i].pc \in Adding => run[i].doc.keys = ReadOrTemplate.keys
    /\ run[i].pc \in Taking => issuer # None /\ run[i].doc.keys = issuer.keys
    /\ run[i].pc = "rotate_put" => issuer # None /\ run[i].kid \in issuer.keys

OperationOK(i) == KidOK(i) /\ DocOK(i) /\ CountOK(i)

\* An install that began no operation has none, and was told nothing.
ActedOK == \A i \in Installs \ acted : run[i].pc = "idle" /\ i \notin expected

\* The inductive invariant.
IssuerInvariant ==
    /\ TypeOK /\ KeysOwn /\ ActedOK /\ \A i \in Installs : OperationOK(i)
    /\ Alone => UsableInstall /\ \A i \in Installs : CurrentDoc(i)

-----------------------------------------------------------------------------
(* Types *)

(* The fields of a well-typed operation. *)
LEMMA RunTyped ==
  ASSUME TypeOK, NEW i \in Installs
  PROVE  /\ run[i] \in Operations
         /\ run[i].pc \in Steps /\ run[i].kid \in AllKids \union {None}
         /\ run[i].old \in Kids \union {None} /\ run[i].doc \in Document \union {None}
         /\ run[i].incoming \in SUBSET Subjects /\ run[i].attempt \in 0..2
         /\ run[i].gaveUp \in BOOLEAN
<1>1. run[i] \in Operations
  BY DEF TypeOK
<1> QED
  BY <1>1 DEF Operations

(* The documents an operation computes. *)
LEMMA DocumentsTyped ==
  /\ Template \in Document
  /\ TypeOK => ReadOrTemplate \in Document
  /\ \A doc \in Document, kid \in AllKids, incoming \in SUBSET Subjects :
        WithKey(doc, kid, incoming) \in Document
  /\ \A doc \in Document : \A kid : [doc EXCEPT !.keys = doc.keys \ {kid}] \in Document
  /\ \A doc \in Document, s \in SUBSET AllSubjects : [doc EXCEPT !.subjects = s] \in Document
<1>1. Template \in Document
  BY DEF Template, Document
<1>2. TypeOK => ReadOrTemplate \in Document
  BY <1>1 DEF TypeOK, ReadOrTemplate
<1>3. ASSUME NEW doc \in Document, NEW kid \in AllKids, NEW incoming \in SUBSET Subjects
      PROVE  WithKey(doc, kid, incoming) \in Document
  <2> DEFINE after == IF incoming = {} THEN doc.subjects ELSE SubjectsAfterAdd(doc.subjects, incoming)
  <2>1. doc.keys \union {kid} \in SUBSET AllKids /\ doc.subjects \in SUBSET AllSubjects
    BY DEF Document
  <2>2. after \in SUBSET AllSubjects
    BY <2>1 DEF SubjectsAfterAdd, AllSubjects
  <2>3. WithKey(doc, kid, incoming) = [keys |-> doc.keys \union {kid}, subjects |-> after]
    BY DEF WithKey
  <2> HIDE DEF after
  <2> QED
    BY <2>1, <2>2, <2>3 DEF Document
<1>4. \A doc \in Document : \A kid : [doc EXCEPT !.keys = doc.keys \ {kid}] \in Document
  BY DEF Document
<1>5. \A doc \in Document, s \in SUBSET AllSubjects : [doc EXCEPT !.subjects = s] \in Document
  BY DEF Document
<1> QED
  BY <1>1, <1>2, <1>3, <1>4, <1>5

(* An operation that begins, moves on or ends is well-typed. *)
LEMMA MoveTyped ==
  /\ Idle \in Operations
  /\ [Idle EXCEPT !.gaveUp = TRUE] \in Operations
  /\ \A pc \in Steps, kid \in AllKids, incoming \in SUBSET Subjects :
        /\ [Idle EXCEPT !.kid = kid, !.incoming = incoming, !.pc = pc] \in Operations
        /\ [Idle EXCEPT !.pc = pc, !.kid = kid] \in Operations
  /\ \A pc \in Steps, incoming \in SUBSET Subjects :
        [Idle EXCEPT !.pc = pc, !.incoming = incoming] \in Operations
  /\ \A pc \in Steps, kid, old \in Kids : [Idle EXCEPT !.pc = pc, !.kid = kid, !.old = old] \in Operations
  /\ \A r \in Operations, pc \in Steps, doc \in Document, n \in 0..2 :
        /\ [r EXCEPT !.pc = pc] \in Operations
        /\ [r EXCEPT !.pc = pc, !.doc = doc] \in Operations
        /\ [r EXCEPT !.pc = pc, !.attempt = n] \in Operations
<1>1. Idle \in Operations
  BY DEF Idle, Operations, Steps
<1>2. [Idle EXCEPT !.gaveUp = TRUE] \in Operations
  BY <1>1 DEF Operations
<1>3. ASSUME NEW pc \in Steps, NEW kid \in AllKids, NEW incoming \in SUBSET Subjects
      PROVE  /\ [Idle EXCEPT !.kid = kid, !.incoming = incoming, !.pc = pc] \in Operations
             /\ [Idle EXCEPT !.pc = pc, !.kid = kid] \in Operations
  BY <1>1 DEF Operations
<1>6. \A pc \in Steps, incoming \in SUBSET Subjects :
         [Idle EXCEPT !.pc = pc, !.incoming = incoming] \in Operations
  BY <1>1 DEF Operations
<1>4. \A pc \in Steps, kid, old \in Kids : [Idle EXCEPT !.pc = pc, !.kid = kid, !.old = old] \in Operations
  BY <1>1 DEF Operations, AllKids
<1>5. ASSUME NEW r \in Operations, NEW pc \in Steps, NEW doc \in Document, NEW n \in 0..2
      PROVE  /\ [r EXCEPT !.pc = pc] \in Operations
             /\ [r EXCEPT !.pc = pc, !.doc = doc] \in Operations
             /\ [r EXCEPT !.pc = pc, !.attempt = n] \in Operations
  BY DEF Operations
<1> QED
  BY <1>1, <1>2, <1>3, <1>4, <1>5, <1>6

(* No kid is the absence of one. *)
LEMMA IssuerTypes ==
  ASSUME IssuerAssumption
  PROVE  None \notin Kids /\ None \notin AllKids /\ None \notin Document
  BY DEF IssuerAssumption, AllKids

(* What a write leaves in the counters of the others. *)
LEMMA UpsertTyped ==
  ASSUME TypeOK, NEW i \in Installs, NEW body \in Document, Upsert(i, body)
  PROVE  /\ issuer' = body /\ issuer' \in Document \union {None}
         /\ others' \in [Installs -> Nat] /\ others'[i] = others[i]
         /\ \A j \in Installs \ {i} :
               others'[j] = IF run[j].pc \in Publishing THEN others[j] + 1 ELSE others[j]
<1>1. \A j \in Installs : others[j] \in Nat /\ others[j] + 1 \in Nat
  BY DEF TypeOK
<1> QED
  BY <1>1 DEF Upsert, Publishing

-----------------------------------------------------------------------------
(* What a step leaves of the invariant *)

\* Kids are only added, fresh ones, and an install keeps its own or rotates.
Grows ==
    /\ used \subseteq used'
    /\ \A u \in used' : u \in used \/ u[1] \in Kids \ Generated
    /\ \A u \in used : stored[u[2]] = u[1] \/ Rotated(u[2])
                       => stored'[u[2]] = u[1] \/ Rotated(u[2])'

\* Whoever takes a step has begun an operation; others learn nothing from it.
Handled(i) ==
    /\ acted' = acted \union {i} /\ console' = console
    /\ expected' \subseteq expected \union {i}

\* What install j sees of a step of another.
Beside(j) ==
    /\ run'[j] = run[j] /\ stored'[j] = stored[j]
    /\ \/ issuer' = issuer /\ others'[j] = others[j]
       \/ others'[j] = IF run[j].pc \in Publishing THEN others[j] + 1 ELSE others[j]

(* A set of keys known before is known after. *)
LEMMA KnownStays ==
  ASSUME Grows, NEW keys, KeysKnown(keys)
  PROVE  /\ keys \intersect Kids \subseteq Generated'
         /\ \A u \in used' : u[3] = "setup" /\ u[1] \in keys
                              => stored'[u[2]] = u[1] \/ Rotated(u[2])'
<1>1. Generated \subseteq Generated'
  BY DEF Grows, Generated
<1>2. ASSUME NEW u \in used', u[3] = "setup", u[1] \in keys
      PROVE  stored'[u[2]] = u[1] \/ Rotated(u[2])'
  <2>1. u \in used
    BY <1>2 DEF Grows, KeysKnown
  <2> QED
    BY <1>2, <2>1 DEF Grows, KeysKnown
<1> QED
  BY <1>1, <1>2 DEF KeysKnown

(* Nothing grows where nothing changes. *)
LEMMA UnchangedGrows ==
  ASSUME UNCHANGED <<used, stored>>
  PROVE  Grows
  BY DEF Grows, Rotated

(* An install beside the one that moves stays in order. *)
LEMMA BesideKept ==
  ASSUME TypeOK, NEW j \in Installs, OperationOK(j), Grows, Beside(j)
  PROVE  OperationOK(j)'
<1>1. KidOK(j)'
  BY DEF OperationOK, KidOK, Grows, Beside, MadeBy
<1>2. DocOK(j)'
  <2>1. /\ run[j].pc \in Adding \union Taking => run[j].doc \in Document
        /\ run[j].pc = "setup_write" =>
              WriteAllowed(SubjectsAfterAdd(run[j].doc.subjects, run[j].incoming))
        /\ run[j].pc = "rotate_write" => WriteAllowed(run[j].doc.subjects)
    BY DEF OperationOK, DocOK
  <2>2. ASSUME run[j].pc \in Adding \union Taking
        PROVE  KeysKnown(run[j].doc.keys)'
    <3>1. KeysKnown(run[j].doc.keys)
      BY <2>2 DEF OperationOK, DocOK
    <3>2. run'[j] = run[j]
      BY DEF Beside
    <3> QED
      BY <3>1, <3>2, KnownStays DEF KeysKnown
  <2>3. run'[j] = run[j]
    BY DEF Beside
  <2> QED
    BY <2>1, <2>2, <2>3 DEF DocOK, WriteAllowed
<1>3. CountOK(j)'
  <2>1. others[j] \in Nat /\ run[j].attempt \in 0..2
    BY RunTyped DEF TypeOK
  <2> QED
    BY <2>1 DEF OperationOK, CountOK, Beside, Publishing
<1> QED
  BY <1>1, <1>2, <1>3 DEF OperationOK

(* A step of one install keeps the invariant if it keeps its own part. *)
LEMMA StepKeeps ==
  ASSUME IssuerInvariant, NEW i \in Installs, TypeOK', KeysOwn', Grows,
         \A j \in Installs \ {i} : Beside(j), OperationOK(i)', Handled(i),
         Alone => UsableInstall' /\ CurrentDoc(i)'
  PROVE  IssuerInvariant'
<1>1. \A j \in Installs \ {i} : OperationOK(j)'
  BY BesideKept DEF IssuerInvariant
<1>2. Alone' => Alone
  BY DEF Handled, Alone
<1>3. Alone' => \A j \in Installs : CurrentDoc(j)'
  <2> SUFFICES ASSUME Alone', NEW j \in Installs, j # i
               PROVE  CurrentDoc(j)'
    BY <1>2
  <2>1. j \notin acted
    BY DEF Handled, Alone
  <2>2. run'[j].pc = "idle"
    BY <2>1 DEF IssuerInvariant, ActedOK, Beside
  <2> QED
    BY <2>2 DEF CurrentDoc, Adding, Taking
<1>4. ActedOK'
  <2> SUFFICES ASSUME NEW j \in Installs, j \notin acted'
               PROVE  run'[j].pc = "idle" /\ j \notin expected'
    BY DEF ActedOK
  <2>1. j \notin acted /\ j # i
    BY DEF Handled
  <2> QED
    BY <2>1 DEF Handled, IssuerInvariant, ActedOK, Beside
<1> QED
  BY <1>1, <1>2, <1>3, <1>4 DEF IssuerInvariant

\* The steps of an install.
Handles(i) ==
    \/ \E s \in SUBSET Subjects, k \in Kids : Setup(i, s, k)
    \/ \E k \in Kids : Rotate(i, k)
    \/ \E k \in AllKids : RemoveKey(i, k)
    \/ \E pc \in {"add_read", "rm_read"}, s \in SUBSET Subjects : EditSubjects(i, pc, s)
    \/ SetupCheck(i) \/ SetupPut(i) \/ SetupRead(i) \/ SetupWrite(i) \/ SetupVerify(i)
    \/ RotateRead(i) \/ RotateWrite(i) \/ RotatePut(i) \/ RetireRead(i) \/ RetireWrite(i)
    \/ RemoveKeyRead(i) \/ RemoveKeyWrite(i)
    \/ EditSubjectsRead(i) \/ EditSubjectsWrite(i)
    \/ Fails(i) \/ AnswerLost(i)

(* Whoever takes a step has begun an operation, and acts for itself. *)
LEMMA StepHandled ==
  ASSUME ActedOK, NEW i \in Installs, Handles(i)
  PROVE  Handled(i)
<1>1. CASE \/ \E s \in SUBSET Subjects, k \in Kids : Setup(i, s, k)
           \/ \E k \in Kids : Rotate(i, k)
           \/ \E k \in AllKids : RemoveKey(i, k)
           \/ \E pc \in {"add_read", "rm_read"}, s \in SUBSET Subjects : EditSubjects(i, pc, s)
  BY <1>1 DEF Setup, Rotate, RemoveKey, EditSubjects, Begin, Handled
<1>2. ASSUME run[i].pc # "idle", UNCHANGED <<acted, console>>, expected' \subseteq expected \union {i}
      PROVE  Handled(i)
  BY <1>2 DEF ActedOK, Handled
<1>3. CASE SetupCheck(i) \/ SetupPut(i) \/ SetupRead(i) \/ SetupWrite(i) \/ SetupVerify(i)
  BY <1>2, <1>3 DEF SetupCheck, SetupPut, SetupRead, SetupWrite, SetupVerify, Quiet
<1>4. CASE RotateRead(i) \/ RotateWrite(i) \/ RotatePut(i) \/ RetireRead(i) \/ RetireWrite(i)
  BY <1>2, <1>4 DEF RotateRead, RotateWrite, RotatePut, RetireRead, RetireWrite, Quiet
<1>5. CASE RemoveKeyRead(i) \/ RemoveKeyWrite(i) \/ EditSubjectsRead(i) \/ EditSubjectsWrite(i)
  BY <1>2, <1>5 DEF RemoveKeyRead, RemoveKeyWrite, EditSubjectsRead, EditSubjectsWrite, Quiet
<1>6. CASE Fails(i) \/ AnswerLost(i)
  BY <1>2, <1>6 DEF Fails, AnswerLost
<1> QED
  BY <1>1, <1>3, <1>4, <1>5, <1>6 DEF Handles

(* An install that does nothing is in order. *)
LEMMA IdleOK ==
  ASSUME TypeOK', NEW i \in Installs, run'[i] = Idle
  PROVE  OperationOK(i)' /\ CurrentDoc(i)'
<1>1. run'[i].pc = "idle" /\ run'[i].gaveUp = FALSE
  BY DEF Idle
<1> QED
  BY <1>1
  DEF OperationOK, KidOK, DocOK, CountOK, CurrentDoc, SetupSteps, RotateSteps, Adding, Taking

(* A step that touches neither the issuer nor a vault. *)
LEMMA QuietKeeps ==
  ASSUME IssuerInvariant, NEW i \in Installs, TypeOK',
         UNCHANGED <<issuer, stored, used, others>>,
         \A j \in Installs \ {i} : run'[j] = run[j], OperationOK(i)', Handled(i),
         Alone => UsableInstall' /\ CurrentDoc(i)'
  PROVE  IssuerInvariant'
<1>1. Grows
  BY UnchangedGrows
<1>2. KeysOwn'
  BY DEF IssuerInvariant, KeysOwn, KeysKnown, MadeBy, Rotated, Generated
<1>3. \A j \in Installs \ {i} : Beside(j)
  BY DEF Beside
<1> QED
  BY <1>1, <1>2, <1>3, StepKeeps

(* An operation that ends there. *)
LEMMA EndKeeps ==
  ASSUME IssuerInvariant, NEW i \in Installs, End(i), Handled(i),
         UNCHANGED <<issuer, stored, used, expected, others>>,
         ops' \in Nat, faults' \in Nat, console' \in Nat
  PROVE  IssuerInvariant'
<1> USE DEF IssuerInvariant
<1>1. run' = [run EXCEPT ![i] = Idle] /\ run \in [Installs -> Operations]
  BY DEF End, TypeOK
<1>2. TypeOK'
  BY <1>1, MoveTyped DEF TypeOK, Handled
<1>3. run'[i] = Idle /\ \A j \in Installs \ {i} : run'[j] = run[j]
  BY <1>1
<1>4. Alone => UsableInstall'
  BY DEF UsableInstall
<1> QED
  BY <1>2, <1>3, <1>4, IdleOK, QuietKeeps

(* A write of the whole document. *)
LEMMA WriteKeeps ==
  ASSUME IssuerInvariant, NEW i \in Installs, NEW body \in Document, Upsert(i, body), Handled(i),
         UNCHANGED <<stored, used>>, KeysKnown(body.keys),
         \A j \in Installs \ {i} : run'[j] = run[j],
         run' \in [Installs -> Operations], expected' \subseteq expected,
         ops' \in Nat, faults' \in Nat, console' \in Nat,
         TypeOK' => OperationOK(i)',
         Alone => UsableInstall' /\ CurrentDoc(i)'
  PROVE  IssuerInvariant'
<1> USE DEF IssuerInvariant
<1>1. TypeOK'
  BY UpsertTyped DEF TypeOK, Handled
<1>2. Grows
  BY UnchangedGrows
<1>3. KeysOwn'
  <2>1. issuer' = body
    BY DEF Upsert
  <2> QED
    BY <2>1 DEF KeysOwn, KeysKnown, MadeBy, Rotated, Generated
<1>4. \A j \in Installs \ {i} : Beside(j)
  BY UpsertTyped DEF Beside
<1> QED
  BY <1>1, <1>2, <1>3, <1>4, StepKeeps

-----------------------------------------------------------------------------
(* setup *)

(* A step that only moves an operation on, with what it read, is typed. *)
LEMMA MoveOn ==
  ASSUME TypeOK, NEW i \in Installs, NEW r \in Operations, run' = [run EXCEPT ![i] = r], Handled(i),
         UNCHANGED <<issuer, used, expected>>, stored' \in [Installs -> Kids \union {None}],
         others' \in [Installs -> Nat], ops' \in Nat, UNCHANGED <<faults, console>>
  PROVE  TypeOK' /\ run'[i] = r /\ \A j \in Installs \ {i} : run'[j] = run[j]
<1>1. run' \in [Installs -> Operations]
  BY DEF TypeOK
<1> QED
  BY <1>1 DEF TypeOK, Handled

(* A kid nobody has generated is in no set of keys. *)
LEMMA FreshKid ==
  ASSUME IssuerInvariant, NEW i \in Installs, NEW kid \in Kids, kid \notin Generated,
         NEW verb \in {"setup", "rotate"}, used' = used \union {<<kid, i, verb>>},
         UNCHANGED <<issuer, stored>>
  PROVE  /\ Grows /\ KeysOwn' /\ MadeBy(kid, i)' /\ used' \subseteq Kids \X Installs \X {"setup", "rotate"}
         /\ verb = "rotate" => Rotated(i)'
<1> USE DEF IssuerInvariant
<1> DEFINE new == <<kid, i, verb>>
<1>1. new[1] = kid /\ new[2] = i /\ new[3] = verb /\ new \in used'
  OBVIOUS
<1>2. \A u \in used : u[1] # kid
  BY DEF Generated
<1>3. used' \subseteq Kids \X Installs \X {"setup", "rotate"}
  BY DEF TypeOK
<1> HIDE DEF new
<1>4. used' = used \union {new}
  BY DEF new
<1>5. Grows
  BY <1>1, <1>4 DEF Grows, Rotated
<1>6. KeysOwn'
  <2>1. (\A u, v \in used : u[1] = v[1] => u = v)'
    BY <1>1, <1>2, <1>4 DEF KeysOwn
  <2>2. (\A j \in Installs : stored[j] # None => MadeBy(stored[j], j))'
    BY <1>4 DEF KeysOwn, MadeBy
  <2>3. (issuer # None => KeysKnown(issuer.keys))'
    BY <1>5, KnownStays DEF KeysOwn, KeysKnown
  <2> QED
    BY <2>1, <2>2, <2>3 DEF KeysOwn
<1> QED
  BY <1>1, <1>3, <1>5, <1>6 DEF MadeBy, Rotated

LEMMA SetupKeeps ==
  ASSUME IssuerAssumption, IssuerInvariant, NEW i \in Installs, NEW incoming \in SUBSET Subjects,
         NEW kid \in Kids, Setup(i, incoming, kid)
  PROVE  IssuerInvariant'
<1> USE DEF IssuerInvariant
<1>h. Handled(i)
  BY StepHandled DEF Handles
<1> DEFINE pc == IF Production THEN "setup_check" ELSE "setup_put"
           r == [Idle EXCEPT !.kid = kid, !.incoming = incoming, !.pc = pc]
<1>1. /\ run' = [run EXCEPT ![i] = r] /\ UNCHANGED <<issuer, stored, expected, others>>
      /\ SetupKid(i, kid)
      /\ used' = IF kid \in Generated THEN used ELSE used \union {<<kid, i, "setup">>}
  BY DEF Setup
<1>2. r \in Operations
  BY MoveTyped DEF AllKids, Steps, SetupSteps
<1>3. r.pc \in {"setup_check", "setup_put"} /\ r.kid = kid /\ r.attempt = 0 /\ r.gaveUp = FALSE
  BY DEF Idle
<1>4. ops' \in Nat /\ UNCHANGED <<faults, console>>
  BY DEF Setup, Begin, TypeOK
<1> HIDE DEF r
<1>5. run'[i] = r /\ run' \in [Installs -> Operations] /\ \A j \in Installs \ {i} : run'[j] = run[j]
  BY <1>1, <1>2 DEF TypeOK
<1>6. stored[i] # None => stored[i] = kid /\ kid \in Generated
  BY <1>1 DEF SetupKid, KeysOwn, MadeBy, Generated
<1>7. /\ Grows /\ KeysOwn' /\ MadeBy(kid, i)'
      /\ used' \subseteq Kids \X Installs \X {"setup", "rotate"}
  <2>1. CASE kid \in Generated
    <3>1. used' = used /\ stored[i] = kid
      BY <1>1, <2>1 DEF SetupKid
    <3>2. MadeBy(kid, i)
      BY <3>1, <2>1, IssuerTypes DEF KeysOwn
    <3> QED
      BY <1>1, <3>1, <3>2, UnchangedGrows
      DEF KeysOwn, KeysKnown, MadeBy, Rotated, Generated, TypeOK
  <2>2. CASE kid \notin Generated
    BY <1>1, <2>2, FreshKid
  <2> QED
    BY <2>1, <2>2
<1>8. TypeOK'
  BY <1>h, <1>1, <1>4, <1>5, <1>7 DEF TypeOK, Handled
<1>9. OperationOK(i)'
  <2>1. KidOK(i)'
    BY <1>1, <1>3, <1>5, <1>6, <1>7 DEF KidOK, SetupSteps, RotateSteps, Publishing
  <2>2. DocOK(i)'
    BY <1>3, <1>5 DEF DocOK, Adding, Taking
  <2>3. CountOK(i)'
    BY <1>3, <1>5 DEF CountOK
  <2> QED
    BY <2>1, <2>2, <2>3 DEF OperationOK
<1>10. Alone => UsableInstall' /\ CurrentDoc(i)'
  BY <1>1, <1>3, <1>5 DEF UsableInstall, CurrentDoc, Adding, Taking
<1>11. \A j \in Installs \ {i} : Beside(j)
  BY <1>1, <1>5 DEF Beside
<1> QED
  BY <1>7, <1>8, <1>9, <1>10, <1>11, <1>h, StepKeeps

(* setup's checks, its store, its publish and its verification. *)
LEMMA SetupStepsKeep ==
  ASSUME IssuerAssumption, IssuerInvariant, NEW i \in Installs,
         SetupCheck(i) \/ SetupPut(i) \/ SetupRead(i) \/ SetupVerify(i)
  PROVE  IssuerInvariant'
<1> USE DEF IssuerInvariant
<1>h. Handled(i)
  BY StepHandled DEF Handles
<1>0. /\ OperationOK(i) /\ run[i] \in Operations /\ run \in [Installs -> Operations]
      /\ others[i] \in Nat /\ ops \in Nat /\ faults \in Nat /\ console \in Nat
      /\ run[i].attempt \in 0..2
  BY RunTyped DEF TypeOK
<1>1. ASSUME End(i), Quiet, UNCHANGED <<issuer, stored, used, expected, others>>
      PROVE  IssuerInvariant'
  BY <1>0, <1>1, <1>h, EndKeeps DEF Quiet
<1>2. CASE SetupCheck(i)
  <2> DEFINE r == [run[i] EXCEPT !.pc = "setup_put"]
  <2>1. CASE ~WriteAllowed(SubjectsAfterAdd(ReadOrTemplate.subjects, run[i].incoming))
    BY <1>1, <1>2, <2>1 DEF SetupCheck
  <2>2. CASE WriteAllowed(SubjectsAfterAdd(ReadOrTemplate.subjects, run[i].incoming))
    <3>1. /\ run[i].pc = "setup_check" /\ run' = [run EXCEPT ![i] = r]
          /\ UNCHANGED <<issuer, stored, used, expected, others>> /\ Quiet
      BY <1>2, <2>2 DEF SetupCheck, Goto
    <3>2. r \in Operations
      BY <1>0, MoveTyped, DocumentsTyped DEF Steps, SetupSteps
    <3>3. r.pc = "setup_put" /\ r.kid = run[i].kid /\ r.attempt = run[i].attempt /\ r.gaveUp = run[i].gaveUp
      BY <1>0 DEF Operations
    <3> HIDE DEF r
    <3>4. TypeOK' /\ run'[i] = r /\ \A j \in Installs \ {i} : run'[j] = run[j]
      BY <1>0, <3>1, <3>2, <1>h, MoveOn DEF TypeOK, Quiet
    <3>5. KidOK(i)' /\ DocOK(i)' /\ CountOK(i)'
      BY <1>0, <3>1, <3>3, <3>4
      DEF OperationOK, KidOK, DocOK, CountOK, SetupSteps, RotateSteps, Publishing, Adding, Taking, MadeBy
    <3>6. Alone => UsableInstall' /\ CurrentDoc(i)'
      BY <3>1, <3>3, <3>4 DEF UsableInstall, CurrentDoc, Adding, Taking
    <3> QED
      BY <3>1, <3>4, <3>5, <3>6, <1>h, QuietKeeps DEF OperationOK
  <2> QED
    BY <2>1, <2>2
<1>3. CASE SetupPut(i)
  <2> DEFINE r == [run[i] EXCEPT !.pc = "setup_read"]
  <2>1. /\ run[i].pc = "setup_put" /\ run' = [run EXCEPT ![i] = r]
        /\ stored' = [stored EXCEPT ![i] = run[i].kid] /\ others' = [others EXCEPT ![i] = 0]
        /\ UNCHANGED <<issuer, used, expected>> /\ Quiet
    BY <1>3 DEF SetupPut, Goto
  <2>2. r \in Operations
    BY <1>0, MoveTyped, DocumentsTyped DEF Steps, SetupSteps
  <2>3. r.pc = "setup_read" /\ r.kid = run[i].kid /\ r.attempt = run[i].attempt /\ r.gaveUp = run[i].gaveUp
    BY <1>0 DEF Operations
  <2> HIDE DEF r
  <2>4. /\ run[i].kid \in Kids /\ MadeBy(run[i].kid, i) /\ run[i].attempt = 0
        /\ stored[i] # None => stored[i] = run[i].kid
    BY <1>0, <2>1 DEF OperationOK, KidOK, CountOK, SetupSteps
  <2>5. stored' \in [Installs -> Kids \union {None}] /\ others' \in [Installs -> Nat]
    BY <2>1, <2>4 DEF TypeOK
  <2>6. TypeOK' /\ run'[i] = r /\ \A j \in Installs \ {i} : run'[j] = run[j]
    BY <1>0, <2>1, <2>2, <2>5, <1>h, MoveOn DEF Quiet
  <2>7. stored'[i] = run[i].kid /\ \A j \in Installs \ {i} : stored'[j] = stored[j] /\ others'[j] = others[j]
    BY <2>1 DEF TypeOK
  <2>8. Grows
    <3>1. \A u \in used : u[1] \in Kids /\ u[2] \in Installs
      BY DEF TypeOK
    <3>2. \A u \in used : stored[u[2]] = u[1] => stored'[u[2]] = u[1]
      BY <2>4, <2>7, <3>1, IssuerTypes
    <3> QED
      BY <2>1, <3>2 DEF Grows, Rotated
  <2>9. KeysOwn'
    <3>1. (\A j \in Installs : stored[j] # None => MadeBy(stored[j], j))'
      BY <2>1, <2>4, <2>7 DEF KeysOwn, MadeBy
    <3>2. (issuer # None => KeysKnown(issuer.keys))'
      BY <2>1, <2>8, KnownStays DEF KeysOwn, KeysKnown
    <3> QED
      BY <2>1, <3>1, <3>2 DEF KeysOwn
  <2>10. OperationOK(i)'
    <3>1. KidOK(i)' /\ DocOK(i)'
      BY <2>1, <2>3, <2>4, <2>6, <2>7
      DEF KidOK, DocOK, SetupSteps, RotateSteps, Adding, Taking, MadeBy
    <3>2. CountOK(i)'
      <4>1. run[i].gaveUp => FALSE
        BY <1>0, <2>1 DEF OperationOK, CountOK
      <4>2. others'[i] = 0
        BY <2>1 DEF TypeOK
      <4> QED
        BY <2>3, <2>4, <2>6, <4>1, <4>2 DEF CountOK
    <3> QED
      BY <3>1, <3>2 DEF OperationOK
  <2>11. Alone => UsableInstall' /\ CurrentDoc(i)'
    <3>1. \A j \in expected : issuer # None /\ stored[j] \in issuer.keys => stored'[j] = stored[j]
      <4>1. issuer # None => None \notin issuer.keys
        BY IssuerTypes DEF TypeOK, Document
      <4> QED
        BY <2>4, <2>7, <4>1 DEF TypeOK
    <3> QED
      BY <2>1, <2>3, <2>6, <3>1 DEF UsableInstall, CurrentDoc, Adding, Taking
  <2>12. \A j \in Installs \ {i} : Beside(j)
    BY <2>1, <2>6, <2>7 DEF Beside
  <2> QED
    BY <2>6, <2>8, <2>9, <2>10, <2>11, <2>12, <1>h, StepKeeps
<1>4. CASE SetupRead(i)
  <2> DEFINE r == [run[i] EXCEPT !.pc = "setup_write", !.doc = ReadOrTemplate]
  <2>1. CASE ~WriteAllowed(SubjectsAfterAdd(ReadOrTemplate.subjects, run[i].incoming))
    BY <1>1, <1>4, <2>1 DEF SetupRead
  <2>2. CASE WriteAllowed(SubjectsAfterAdd(ReadOrTemplate.subjects, run[i].incoming))
    <3>1. /\ run[i].pc = "setup_read" /\ run' = [run EXCEPT ![i] = r]
          /\ UNCHANGED <<issuer, stored, used, expected, others>> /\ Quiet
      BY <1>4, <2>2 DEF SetupRead
    <3>2. r \in Operations
      BY <1>0, MoveTyped, DocumentsTyped DEF Steps, SetupSteps
    <3>3. /\ r.pc = "setup_write" /\ r.kid = run[i].kid /\ r.attempt = run[i].attempt
          /\ r.gaveUp = run[i].gaveUp /\ r.doc = ReadOrTemplate /\ r.incoming = run[i].incoming
      BY <1>0 DEF Operations
    <3> HIDE DEF r
    <3>4. TypeOK' /\ run'[i] = r /\ \A j \in Installs \ {i} : run'[j] = run[j]
      BY <1>0, <3>1, <3>2, <1>h, MoveOn DEF TypeOK, Quiet
    <3>5. KidOK(i)' /\ CountOK(i)'
      BY <1>0, <3>1, <3>3, <3>4
      DEF OperationOK, KidOK, CountOK, SetupSteps, RotateSteps, Publishing, MadeBy
    <3>6. DocOK(i)'
      <4>1. KeysKnown(ReadOrTemplate.keys)
        BY DEF ReadOrTemplate, Template, KeysKnown, KeysOwn
      <4>2. KeysKnown(run[i].doc.keys)'
        BY <3>1, <3>3, <3>4, <4>1 DEF KeysKnown, Rotated, Generated
      <4> QED
        BY <2>2, <3>3, <3>4, <4>2, DocumentsTyped
        DEF DocOK, WriteAllowed, SubjectsAfterAdd, IsRestricted
    <3>7. Alone => UsableInstall' /\ CurrentDoc(i)'
      BY <3>1, <3>3, <3>4 DEF UsableInstall, CurrentDoc, Adding, Taking, ReadOrTemplate
    <3> QED
      BY <3>1, <3>4, <3>5, <3>6, <3>7, <1>h, QuietKeeps DEF OperationOK
  <2> QED
    BY <2>1, <2>2
<1>5. CASE SetupVerify(i)
  <2>1. /\ run[i].pc = "setup_verify" /\ Quiet /\ UNCHANGED <<issuer, stored, used, others>>
    BY <1>5 DEF SetupVerify
  <2>2. CASE issuer # None /\ run[i].kid \in issuer.keys /\ expected' = expected \union {i} /\ End(i)
    <3>1. TypeOK' /\ run'[i] = Idle /\ \A j \in Installs \ {i} : run'[j] = run[j]
      BY <1>0, <2>1, <2>2, MoveTyped DEF TypeOK, End, Quiet
    <3>2. stored[i] = run[i].kid
      BY <1>0, <2>1 DEF OperationOK, KidOK, SetupSteps, Publishing
    <3>3. Alone => UsableInstall'
      BY <2>1, <2>2, <3>2 DEF UsableInstall
    <3> QED
      BY <2>1, <3>1, <3>3, IdleOK, <1>h, QuietKeeps
  <2>3. CASE End(i) /\ UNCHANGED expected
    BY <1>1, <2>1, <2>3
  <2>4. CASE /\ issuer # None /\ run[i].kid \notin issuer.keys /\ run[i].attempt < MaxAttempts
             /\ Goto(i, "setup_read") /\ UNCHANGED expected
    <3> DEFINE r == [run[i] EXCEPT !.pc = "setup_read"]
    <3>1. run' = [run EXCEPT ![i] = r]
      BY <2>4 DEF Goto
    <3>2. r \in Operations
      BY <1>0, MoveTyped, DocumentsTyped DEF Steps, SetupSteps
    <3>3. r.pc = "setup_read" /\ r.kid = run[i].kid /\ r.attempt = run[i].attempt /\ r.gaveUp = run[i].gaveUp
      BY <1>0 DEF Operations
    <3> HIDE DEF r
    <3>4. TypeOK' /\ run'[i] = r /\ \A j \in Installs \ {i} : run'[j] = run[j]
      BY <1>0, <2>1, <2>4, <3>1, <3>2, <1>h, MoveOn DEF TypeOK, Quiet
    <3>5. KidOK(i)' /\ DocOK(i)'
      BY <1>0, <2>1, <3>3, <3>4
      DEF OperationOK, KidOK, DocOK, SetupSteps, RotateSteps, Publishing, Adding, Taking, MadeBy
    <3>6. CountOK(i)'
      BY <1>0, <2>1, <2>4, <3>3, <3>4 DEF OperationOK, CountOK, MaxAttempts
    <3>7. Alone => UsableInstall' /\ CurrentDoc(i)'
      BY <2>1, <2>4, <3>3, <3>4 DEF UsableInstall, CurrentDoc, Adding, Taking
    <3> QED
      BY <2>1, <3>4, <3>5, <3>6, <3>7, <1>h, QuietKeeps DEF OperationOK
  <2>5. CASE /\ issuer # None /\ run[i].kid \notin issuer.keys /\ ~(run[i].attempt < MaxAttempts)
             /\ run' = [run EXCEPT ![i] = [Idle EXCEPT !.gaveUp = TRUE]] /\ UNCHANGED expected
    <3> DEFINE r == [Idle EXCEPT !.gaveUp = TRUE]
    <3>1. r \in Operations /\ r.pc = "idle"
      BY MoveTyped DEF Idle
    <3> HIDE DEF r
    <3>2. run' = [run EXCEPT ![i] = r]
      BY <2>5 DEF r
    <3>3. TypeOK' /\ run'[i] = r /\ \A j \in Installs \ {i} : run'[j] = run[j]
      BY <1>0, <2>1, <2>5, <3>1, <3>2, <1>h, MoveOn DEF TypeOK, Quiet
    <3>4. others'[i] >= 2
      BY <1>0, <2>1, <2>5 DEF OperationOK, CountOK, MaxAttempts
    <3>5. KidOK(i)' /\ DocOK(i)' /\ CountOK(i)'
      BY <3>1, <3>3, <3>4 DEF KidOK, DocOK, CountOK, SetupSteps, RotateSteps, Adding, Taking
    <3>6. Alone => UsableInstall' /\ CurrentDoc(i)'
      BY <2>1, <2>5, <3>1, <3>3 DEF UsableInstall, CurrentDoc, Adding, Taking
    <3> QED
      BY <2>1, <3>3, <3>5, <3>6, <1>h, QuietKeeps DEF OperationOK
  <2> QED
    BY <1>5, <2>2, <2>3, <2>4, <2>5 DEF SetupVerify
<1> QED
  BY <1>2, <1>3, <1>4, <1>5

-----------------------------------------------------------------------------
(* The writes of the document *)

(* A publish adds a kid that the install holds, or has rotated to. *)
LEMMA AddedKnown ==
  ASSUME IssuerInvariant, NEW i \in Installs, run[i].pc \in Adding, NEW incoming
  PROVE  KeysKnown(WithKey(run[i].doc, run[i].kid, incoming).keys)
<1> USE DEF IssuerInvariant
<1> DEFINE kid == run[i].kid
           keys == run[i].doc.keys
<1>1. WithKey(run[i].doc, run[i].kid, incoming).keys = keys \union {kid}
  BY DEF WithKey
<1>2. KeysKnown(keys)
  BY DEF OperationOK, DocOK
<1>3. MadeBy(kid, i) /\ kid \in Generated
  <2>1. MadeBy(kid, i)
    <3>1. CASE run[i].pc = "setup_write"
      BY <3>1 DEF OperationOK, KidOK, SetupSteps
    <3>2. CASE run[i].pc = "rotate_write"
      <4>1. <<kid, i, "rotate">> \in used
        BY <3>2 DEF OperationOK, KidOK, RotateSteps
      <4> QED
        BY <4>1 DEF MadeBy
    <3> QED
      BY <3>1, <3>2 DEF Adding
  <2> QED
    BY <2>1 DEF MadeBy, Generated
<1>4. ASSUME NEW u \in used, u[3] = "setup", u[1] = kid
      PROVE  stored[u[2]] = u[1]
  <2>1. u[2] = i
    BY <1>3, <1>4 DEF MadeBy, KeysOwn
  <2>2. CASE run[i].pc = "setup_write"
    BY <1>4, <2>1, <2>2 DEF OperationOK, KidOK, SetupSteps, Publishing
  <2>3. CASE run[i].pc = "rotate_write"
    <3>1. <<kid, i, "rotate">> \in used
      BY <2>3 DEF OperationOK, KidOK, RotateSteps
    <3>2. u = <<kid, i, "rotate">>
      BY <1>4, <3>1 DEF KeysOwn
    <3> QED
      BY <1>4, <3>2
  <2> QED
    BY <2>2, <2>3 DEF Adding
<1> QED
  BY <1>1, <1>2, <1>3, <1>4 DEF KeysKnown

(* A write that only takes keys away adds none. *)
LEMMA FewerKnown ==
  ASSUME NEW keys, KeysKnown(keys), NEW fewer, fewer \subseteq keys
  PROVE  KeysKnown(fewer)
  BY DEF KeysKnown

LEMMA SetupWriteKeeps ==
  ASSUME IssuerAssumption, IssuerInvariant, NEW i \in Installs, SetupWrite(i)
  PROVE  IssuerInvariant'
<1> USE DEF IssuerInvariant
<1>h. Handled(i)
  BY StepHandled DEF Handles
<1> DEFINE body == WithKey(run[i].doc, run[i].kid, run[i].incoming)
           r == [run[i] EXCEPT !.pc = "setup_verify", !.attempt = run[i].attempt + 1]
<1>0. /\ OperationOK(i) /\ run[i] \in Operations /\ run \in [Installs -> Operations]
      /\ others[i] \in Nat /\ run[i].attempt \in 0..2 /\ run[i].incoming \in SUBSET Subjects
  BY RunTyped DEF TypeOK
<1>1. /\ run[i].pc = "setup_write" /\ Upsert(i, body) /\ UNCHANGED <<stored, used, expected>> /\ Quiet
      /\ run' = [run EXCEPT ![i] = r]
  BY <1>0 DEF SetupWrite
<1>2. /\ run[i].kid \in Kids /\ MadeBy(run[i].kid, i) /\ stored[i] = run[i].kid
      /\ run[i].doc \in Document /\ run[i].attempt <= 1 /\ run[i].attempt <= others[i]
      /\ ~run[i].gaveUp
  BY <1>0, <1>1 DEF OperationOK, KidOK, DocOK, CountOK, SetupSteps, Publishing, Adding
<1>3. body \in Document /\ KeysKnown(body.keys) /\ body.keys = run[i].doc.keys \union {run[i].kid}
  <2>1. body \in Document
    BY <1>0, <1>2, DocumentsTyped DEF AllKids
  <2>2. KeysKnown(body.keys)
    BY <1>1, AddedKnown DEF Adding
  <2> QED
    BY <2>1, <2>2 DEF WithKey
<1>4. r \in Operations
  <2>1. run[i].attempt + 1 \in 0..2
    BY <1>0, <1>2
  <2> QED
    BY <1>0, <1>2, <2>1, MoveTyped DEF Steps, SetupSteps
<1>5. r.pc = "setup_verify" /\ r.kid = run[i].kid /\ r.attempt = run[i].attempt + 1 /\ r.gaveUp = run[i].gaveUp
  BY <1>0 DEF Operations
<1>6. others'[i] = others[i] /\ issuer' = body
  BY <1>1, <1>3, UpsertTyped
<1> HIDE DEF r, body
<1>7. run'[i] = r /\ run' \in [Installs -> Operations] /\ \A j \in Installs \ {i} : run'[j] = run[j]
  BY <1>0, <1>1, <1>4
<1>8. OperationOK(i)'
  <2>1. KidOK(i)' /\ DocOK(i)'
    BY <1>1, <1>2, <1>5, <1>7
    DEF KidOK, DocOK, SetupSteps, RotateSteps, Publishing, Adding, Taking, MadeBy
  <2>2. CountOK(i)'
    BY <1>0, <1>2, <1>3, <1>5, <1>6, <1>7 DEF CountOK
  <2> QED
    BY <2>1, <2>2 DEF OperationOK
<1>9. Alone => UsableInstall' /\ CurrentDoc(i)'
  <2>1. Alone => ReadOrTemplate.keys \subseteq body.keys
    BY <1>1, <1>3 DEF CurrentDoc, Adding
  <2>2. None # body
    BY <1>3, IssuerTypes
  <2> QED
    BY <1>1, <1>5, <1>6, <1>7, <2>1, <2>2 DEF UsableInstall, CurrentDoc, Adding, Taking, ReadOrTemplate
<1>10. ops' \in Nat /\ faults' \in Nat /\ console' \in Nat
  BY <1>1 DEF Quiet, TypeOK
<1> QED
  BY <1>1, <1>3, <1>7, <1>8, <1>9, <1>10, <1>h, WriteKeeps

LEMMA RotateWriteKeeps ==
  ASSUME IssuerAssumption, IssuerInvariant, NEW i \in Installs, RotateWrite(i)
  PROVE  IssuerInvariant'
<1> USE DEF IssuerInvariant
<1>h. Handled(i)
  BY StepHandled DEF Handles
<1> DEFINE body == WithKey(run[i].doc, run[i].kid, {})
           r == [run[i] EXCEPT !.pc = "rotate_put"]
<1>0. /\ OperationOK(i) /\ run[i] \in Operations /\ run \in [Installs -> Operations]
  BY RunTyped DEF TypeOK
<1>1. /\ run[i].pc = "rotate_write" /\ Upsert(i, body) /\ UNCHANGED <<stored, used, expected>> /\ Quiet
      /\ run' = [run EXCEPT ![i] = r]
  BY <1>0 DEF RotateWrite, Goto
<1>2. run[i].kid \in Kids /\ run[i].doc \in Document /\ ~run[i].gaveUp
  BY <1>0, <1>1 DEF OperationOK, KidOK, DocOK, CountOK, RotateSteps, Adding
<1>3. body \in Document /\ KeysKnown(body.keys) /\ body.keys = run[i].doc.keys \union {run[i].kid}
  <2>1. body \in Document
    BY <1>2, DocumentsTyped DEF AllKids
  <2>2. KeysKnown(body.keys)
    BY <1>1, AddedKnown DEF Adding
  <2> QED
    BY <2>1, <2>2 DEF WithKey
<1>4. r \in Operations
  <2>1. 0 \in 0..2
    OBVIOUS
  <2> QED
    BY <1>0, <2>1, MoveTyped, DocumentsTyped DEF Steps, RotateSteps
<1>5. /\ r.pc = "rotate_put" /\ r.kid = run[i].kid /\ r.gaveUp = run[i].gaveUp
      /\ r.old = run[i].old /\ r.incoming = run[i].incoming
  BY <1>0 DEF Operations
<1>6. issuer' = body
  BY <1>1, <1>3, UpsertTyped
<1> HIDE DEF r, body
<1>7. run'[i] = r /\ run' \in [Installs -> Operations] /\ \A j \in Installs \ {i} : run'[j] = run[j]
  BY <1>0, <1>1, <1>4
<1>8. OperationOK(i)'
  <2>1. KidOK(i)' /\ DocOK(i)'
    BY <1>0, <1>1, <1>5, <1>7
    DEF OperationOK, KidOK, DocOK, SetupSteps, RotateSteps, Publishing, Adding, Taking
  <2>2. CountOK(i)'
    BY <1>2, <1>5, <1>7 DEF CountOK
  <2> QED
    BY <2>1, <2>2 DEF OperationOK
<1>9. Alone => UsableInstall' /\ CurrentDoc(i)'
  <2>1. Alone => ReadOrTemplate.keys \subseteq body.keys
    BY <1>1, <1>3 DEF CurrentDoc, Adding
  <2>2. None # body
    BY <1>3, IssuerTypes
  <2> QED
    BY <1>1, <1>3, <1>5, <1>6, <1>7, <2>1, <2>2 DEF UsableInstall, CurrentDoc, Adding, Taking, ReadOrTemplate
<1>10. ops' \in Nat /\ faults' \in Nat /\ console' \in Nat
  BY <1>1 DEF Quiet, TypeOK
<1> QED
  BY <1>1, <1>3, <1>7, <1>8, <1>9, <1>10, <1>h, WriteKeeps

(* A publish whose answer is lost. *)
LEMMA AnswerLostKeeps ==
  ASSUME IssuerAssumption, IssuerInvariant, NEW i \in Installs, AnswerLost(i)
  PROVE  IssuerInvariant'
<1> USE DEF IssuerInvariant
<1>h. Handled(i)
  BY StepHandled DEF Handles
<1> DEFINE body == WithKey(run[i].doc, run[i].kid, run[i].incoming)
<1>0. /\ OperationOK(i) /\ run[i].incoming \in SUBSET Subjects /\ run \in [Installs -> Operations]
  BY RunTyped DEF TypeOK
<1>1. /\ run[i].pc \in Adding /\ Upsert(i, body) /\ UNCHANGED <<stored, used, expected>>
      /\ run' = [run EXCEPT ![i] = Idle] /\ ops' \in Nat /\ faults' \in Nat /\ console' \in Nat
  BY DEF AnswerLost, End, Adding, TypeOK
<1>2. run[i].kid \in Kids /\ run[i].doc \in Document
  BY <1>0, <1>1 DEF OperationOK, KidOK, DocOK, SetupSteps, RotateSteps, Adding
<1>3. body \in Document /\ KeysKnown(body.keys) /\ body.keys = run[i].doc.keys \union {run[i].kid}
  <2>1. body \in Document
    BY <1>0, <1>2, DocumentsTyped DEF AllKids
  <2>2. KeysKnown(body.keys)
    BY <1>1, AddedKnown
  <2> QED
    BY <2>1, <2>2 DEF WithKey
<1>4. issuer' = body
  BY <1>1, <1>3, UpsertTyped
<1> HIDE DEF body
<1>5. run'[i] = Idle /\ run' \in [Installs -> Operations] /\ \A j \in Installs \ {i} : run'[j] = run[j]
  BY <1>0, <1>1, MoveTyped
<1>6. Alone => UsableInstall'
  <2>1. Alone => ReadOrTemplate.keys \subseteq body.keys
    BY <1>1, <1>3 DEF CurrentDoc
  <2>2. None # body
    BY <1>3, IssuerTypes
  <2> QED
    BY <1>1, <1>4, <2>1, <2>2 DEF UsableInstall, ReadOrTemplate
<1>7. TypeOK' => OperationOK(i)' /\ CurrentDoc(i)'
  BY <1>5, IdleOK
<1>8. CurrentDoc(i)'
  BY <1>5 DEF Idle, CurrentDoc, Adding, Taking
<1> QED
  BY <1>1, <1>3, <1>5, <1>6, <1>7, <1>8, <1>h, WriteKeeps

(* The writes that end an operation: retire, key remove and the subjects. *)
LEMMA TakingKeeps ==
  ASSUME IssuerAssumption, IssuerInvariant, NEW i \in Installs,
         RetireWrite(i) \/ RemoveKeyWrite(i) \/ EditSubjectsWrite(i)
  PROVE  IssuerInvariant'
<1> USE DEF IssuerInvariant
<1>h. Handled(i)
  BY StepHandled DEF Handles
<1>0. /\ OperationOK(i) /\ run \in [Installs -> Operations]
      /\ run[i].pc \in Taking /\ run[i].doc \in Document /\ KeysKnown(run[i].doc.keys)
  <2>1. OperationOK(i) /\ run \in [Installs -> Operations] /\ run[i].pc \in Taking
    BY DEF TypeOK, RetireWrite, RemoveKeyWrite, EditSubjectsWrite, Taking
  <2> QED
    BY <2>1 DEF OperationOK, DocOK
<1>1. ASSUME NEW body \in Document, Upsert(i, body), UNCHANGED <<stored, used>>, End(i), Quiet,
             body.keys \subseteq run[i].doc.keys, expected' \subseteq expected,
             Alone => \A j \in expected' : stored[j] \in issuer.keys => stored[j] \in body.keys
      PROVE  IssuerInvariant'
  <2>1. KeysKnown(body.keys)
    BY <1>0, <1>1, FewerKnown
  <2>2. run'[i] = Idle /\ run' \in [Installs -> Operations] /\ \A j \in Installs \ {i} : run'[j] = run[j]
    BY <1>0, <1>1, MoveTyped DEF End
  <2>3. issuer' = body /\ body # None
    BY <1>1, UpsertTyped, IssuerTypes
  <2>4. Alone => UsableInstall'
    BY <1>1, <2>3 DEF UsableInstall
  <2>5. TypeOK' => OperationOK(i)'
    BY <2>2, IdleOK
  <2>6. CurrentDoc(i)'
    BY <2>2 DEF Idle, CurrentDoc, Adding, Taking
  <2>7. ops' \in Nat /\ faults' \in Nat /\ console' \in Nat
    BY <1>1 DEF Quiet, TypeOK
  <2> QED
    BY <1>1, <2>1, <2>2, <2>4, <2>5, <2>6, <2>7, <1>h, WriteKeeps
<1>2. CASE RetireWrite(i)
  <2> DEFINE body == [run[i].doc EXCEPT !.keys = run[i].doc.keys \ {run[i].old}]
  <2>1. body \in Document /\ body.keys = run[i].doc.keys \ {run[i].old}
    BY <1>0, DocumentsTyped DEF Document
  <2>2. /\ run[i].pc = "retire_write" /\ Upsert(i, body) /\ UNCHANGED <<stored, used, expected>>
        /\ End(i) /\ Quiet
    BY <1>2 DEF RetireWrite
  <2>3. stored[i] = run[i].kid /\ run[i].kid # run[i].old
    BY <1>0, <2>2 DEF OperationOK, KidOK, RotateSteps
  <2>4. Alone => run[i].doc.keys = issuer.keys /\ \A j \in expected : j = i
    BY <1>0, <2>2 DEF Alone, CurrentDoc, ActedOK, TypeOK
  <2> HIDE DEF body
  <2>5. Alone => \A j \in expected' : stored[j] \in issuer.keys => stored[j] \in body.keys
    BY <2>1, <2>2, <2>3, <2>4 DEF TypeOK
  <2> QED
    BY <1>1, <2>1, <2>2, <2>5
<1>3. CASE RemoveKeyWrite(i)
  <2> DEFINE body == [run[i].doc EXCEPT !.keys = run[i].doc.keys \ {run[i].kid}]
  <2>1. body \in Document /\ body.keys = run[i].doc.keys \ {run[i].kid}
    BY <1>0, DocumentsTyped DEF Document
  <2>2. /\ Upsert(i, body) /\ UNCHANGED <<stored, used>> /\ End(i) /\ Quiet
        /\ expected' = {j \in expected : stored[j] # run[i].kid}
    BY <1>3 DEF RemoveKeyWrite
  <2>3. Alone => run[i].doc.keys = issuer.keys
    BY <1>0 DEF CurrentDoc
  <2> HIDE DEF body
  <2>4. Alone => \A j \in expected' : stored[j] \in issuer.keys => stored[j] \in body.keys
    BY <2>1, <2>2, <2>3
  <2> QED
    BY <1>1, <2>1, <2>2, <2>4
<1>4. CASE EditSubjectsWrite(i)
  <2>1. Alone => run[i].doc.keys = issuer.keys
    BY <1>0 DEF CurrentDoc
  <2> QED
    BY <1>0, <1>1, <1>4, <2>1 DEF EditSubjectsWrite
<1> QED
  BY <1>2, <1>3, <1>4

-----------------------------------------------------------------------------
(* rotate, key remove, subjects: the steps before a write *)

LEMMA RotateKeeps ==
  ASSUME IssuerAssumption, IssuerInvariant, NEW i \in Installs, NEW kid \in Kids, Rotate(i, kid)
  PROVE  IssuerInvariant'
<1> USE DEF IssuerInvariant
<1>h. Handled(i)
  BY StepHandled DEF Handles
<1> DEFINE r == [Idle EXCEPT !.pc = "rotate_read", !.kid = kid, !.old = stored[i]]
<1>1. /\ run' = [run EXCEPT ![i] = r] /\ UNCHANGED <<issuer, stored, expected, others>>
      /\ stored[i] # None /\ kid \notin Generated /\ used' = used \union {<<kid, i, "rotate">>}
  BY DEF Rotate
<1>2. stored[i] \in Kids /\ stored[i] \in Generated
  BY <1>1 DEF TypeOK, KeysOwn, MadeBy, Generated
<1>3. r \in Operations
  BY <1>2, MoveTyped DEF Steps, RotateSteps
<1>4. /\ r.pc = "rotate_read" /\ r.kid = kid /\ r.old = stored[i] /\ r.incoming = {} /\ r.gaveUp = FALSE
  BY DEF Idle
<1>5. ops' \in Nat /\ UNCHANGED <<faults, console>>
  BY DEF Rotate, Begin, TypeOK
<1> HIDE DEF r
<1>6. run'[i] = r /\ run' \in [Installs -> Operations] /\ \A j \in Installs \ {i} : run'[j] = run[j]
  BY <1>1, <1>3 DEF TypeOK
<1>7. /\ Grows /\ KeysOwn' /\ used' \subseteq Kids \X Installs \X {"setup", "rotate"}
  BY <1>1, FreshKid
<1>8. TypeOK'
  BY <1>h, <1>1, <1>5, <1>6, <1>7 DEF TypeOK, Handled
<1>9. OperationOK(i)'
  <2>1. run'[i].old = stored'[i] /\ run'[i].kid # run'[i].old
    BY <1>1, <1>2, <1>4, <1>6
  <2>2. KidOK(i)'
    BY <1>1, <1>2, <1>4, <1>6, <2>1 DEF KidOK, SetupSteps, RotateSteps
  <2>3. DocOK(i)' /\ CountOK(i)'
    BY <1>4, <1>6 DEF DocOK, CountOK, Adding, Taking
  <2> QED
    BY <2>2, <2>3 DEF OperationOK
<1>10. Alone => UsableInstall' /\ CurrentDoc(i)'
  BY <1>1, <1>4, <1>6 DEF UsableInstall, CurrentDoc, Adding, Taking
<1>11. \A j \in Installs \ {i} : Beside(j)
  BY <1>1, <1>6 DEF Beside
<1> QED
  BY <1>7, <1>8, <1>9, <1>10, <1>11, <1>h, StepKeeps

LEMMA RotateStepsKeep ==
  ASSUME IssuerAssumption, IssuerInvariant, NEW i \in Installs,
         RotateRead(i) \/ RotatePut(i) \/ RetireRead(i)
  PROVE  IssuerInvariant'
<1> USE DEF IssuerInvariant
<1>h. Handled(i)
  BY StepHandled DEF Handles
<1>0. /\ OperationOK(i) /\ run[i] \in Operations /\ run \in [Installs -> Operations]
      /\ ops \in Nat /\ faults \in Nat /\ console \in Nat /\ 0 \in 0..2
  BY RunTyped DEF TypeOK
<1>1. ASSUME End(i), Quiet, UNCHANGED <<issuer, stored, used, expected, others>>
      PROVE  IssuerInvariant'
  BY <1>0, <1>1, <1>h, EndKeeps DEF Quiet
<1>2. CASE RotateRead(i)
  <2> DEFINE r == [run[i] EXCEPT !.pc = "rotate_write", !.doc = ReadOrTemplate]
  <2>1. CASE ~WriteAllowed(ReadOrTemplate.subjects)
    BY <1>1, <1>2, <2>1 DEF RotateRead
  <2>2. CASE WriteAllowed(ReadOrTemplate.subjects)
    <3>1. /\ run[i].pc = "rotate_read" /\ run' = [run EXCEPT ![i] = r]
          /\ UNCHANGED <<issuer, stored, used, expected, others>> /\ Quiet
      BY <1>2, <2>2 DEF RotateRead
    <3>2. r \in Operations
      BY <1>0, MoveTyped, DocumentsTyped DEF Steps, RotateSteps
    <3>3. /\ r.pc = "rotate_write" /\ r.kid = run[i].kid /\ r.old = run[i].old
          /\ r.gaveUp = run[i].gaveUp /\ r.doc = ReadOrTemplate /\ r.incoming = run[i].incoming
      BY <1>0 DEF Operations
    <3> HIDE DEF r
    <3>4. TypeOK' /\ run'[i] = r /\ \A j \in Installs \ {i} : run'[j] = run[j]
      BY <1>0, <3>1, <3>2, <1>h, MoveOn DEF TypeOK, Quiet
    <3>5. KidOK(i)' /\ CountOK(i)'
      BY <1>0, <3>1, <3>3, <3>4 DEF OperationOK, KidOK, CountOK, SetupSteps, RotateSteps
    <3>6. DocOK(i)'
      <4>1. KeysKnown(ReadOrTemplate.keys)
        BY DEF ReadOrTemplate, Template, KeysKnown, KeysOwn
      <4>2. KeysKnown(run[i].doc.keys)'
        BY <3>1, <3>3, <3>4, <4>1 DEF KeysKnown, Rotated, Generated
      <4> QED
        BY <2>2, <3>3, <3>4, <4>2, DocumentsTyped DEF DocOK, WriteAllowed, IsRestricted
    <3>7. Alone => UsableInstall' /\ CurrentDoc(i)'
      BY <3>1, <3>3, <3>4 DEF UsableInstall, CurrentDoc, Adding, Taking, ReadOrTemplate
    <3> QED
      BY <3>1, <3>4, <3>5, <3>6, <3>7, <1>h, QuietKeeps DEF OperationOK
  <2> QED
    BY <2>1, <2>2
<1>3. CASE RotatePut(i)
  <2> DEFINE r == [run[i] EXCEPT !.pc = "retire_read"]
  <2>1. /\ run[i].pc = "rotate_put" /\ run' = [run EXCEPT ![i] = r]
        /\ stored' = [stored EXCEPT ![i] = run[i].kid]
        /\ UNCHANGED <<issuer, used, expected, others>> /\ Quiet
    BY <1>3 DEF RotatePut, Goto
  <2>2. r \in Operations
    BY <1>0, MoveTyped, DocumentsTyped DEF Steps, RotateSteps
  <2>3. /\ r.pc = "retire_read" /\ r.kid = run[i].kid /\ r.old = run[i].old
        /\ r.incoming = run[i].incoming /\ r.gaveUp = run[i].gaveUp
    BY <1>0 DEF Operations
  <2> HIDE DEF r
  <2>4. run[i].kid \in Kids /\ <<run[i].kid, i, "rotate">> \in used
    BY <1>0, <2>1 DEF OperationOK, KidOK, RotateSteps
  <2>5. stored' \in [Installs -> Kids \union {None}]
    BY <2>1, <2>4 DEF TypeOK
  <2>6. TypeOK' /\ run'[i] = r /\ \A j \in Installs \ {i} : run'[j] = run[j]
    BY <1>0, <2>1, <2>2, <2>5, <1>h, MoveOn DEF Quiet, TypeOK
  <2>7. stored'[i] = run[i].kid /\ \A j \in Installs \ {i} : stored'[j] = stored[j]
    BY <2>1 DEF TypeOK
  <2>8. Rotated(i) /\ MadeBy(run[i].kid, i)
    BY <2>4 DEF Rotated, MadeBy
  <2>9. Grows
    <3>1. \A u \in used : u[2] \in Installs
      BY DEF TypeOK
    <3>2. \A u \in used : stored[u[2]] = u[1] => stored'[u[2]] = u[1] \/ Rotated(u[2])
      BY <2>7, <2>8, <3>1
    <3> QED
      BY <2>1, <3>2 DEF Grows, Rotated
  <2>10. KeysOwn'
    <3>1. (\A j \in Installs : stored[j] # None => MadeBy(stored[j], j))'
      BY <2>1, <2>7, <2>8 DEF KeysOwn, MadeBy
    <3>2. (issuer # None => KeysKnown(issuer.keys))'
      BY <2>1, <2>9, KnownStays DEF KeysOwn, KeysKnown
    <3> QED
      BY <2>1, <3>1, <3>2 DEF KeysOwn
  <2>11. OperationOK(i)'
    <3>1. KidOK(i)'
      BY <1>0, <2>1, <2>3, <2>6, <2>7 DEF OperationOK, KidOK, SetupSteps, RotateSteps
    <3>2. DocOK(i)' /\ CountOK(i)'
      BY <1>0, <2>1, <2>3, <2>6 DEF OperationOK, DocOK, CountOK, Adding, Taking
    <3> QED
      BY <3>1, <3>2 DEF OperationOK
  <2>12. Alone => UsableInstall' /\ CurrentDoc(i)'
    BY <2>1, <2>3, <2>6, <2>7 DEF TypeOK, UsableInstall, CurrentDoc, Adding, Taking
  <2>13. \A j \in Installs \ {i} : Beside(j)
    BY <2>1, <2>6, <2>7 DEF Beside
  <2> QED
    BY <2>6, <2>9, <2>10, <2>11, <2>12, <2>13, <1>h, StepKeeps
<1>4. CASE RetireRead(i)
  <2> DEFINE r == [run[i] EXCEPT !.pc = "retire_write", !.doc = issuer]
  <2>1. CASE ~(issuer # None /\ run[i].old \in ReadOrTemplate.keys)
    BY <1>1, <1>4, <2>1 DEF RetireRead
  <2>2. CASE issuer # None /\ run[i].old \in ReadOrTemplate.keys
    <3>1. /\ run[i].pc = "retire_read" /\ run' = [run EXCEPT ![i] = r] /\ issuer \in Document
          /\ UNCHANGED <<issuer, stored, used, expected, others>> /\ Quiet
      BY <1>4, <2>2 DEF RetireRead, TypeOK
    <3>2. r \in Operations
      BY <1>0, <3>1, MoveTyped DEF Steps, RotateSteps
    <3>3. /\ r.pc = "retire_write" /\ r.kid = run[i].kid /\ r.old = run[i].old
          /\ r.gaveUp = run[i].gaveUp /\ r.doc = issuer /\ r.incoming = run[i].incoming
      BY <1>0 DEF Operations
    <3> HIDE DEF r
    <3>4. TypeOK' /\ run'[i] = r /\ \A j \in Installs \ {i} : run'[j] = run[j]
      BY <1>0, <3>1, <3>2, <1>h, MoveOn DEF TypeOK, Quiet
    <3>5. KidOK(i)' /\ CountOK(i)'
      BY <1>0, <3>1, <3>3, <3>4 DEF OperationOK, KidOK, CountOK, SetupSteps, RotateSteps
    <3>6. DocOK(i)'
      <4>1. KeysKnown(run[i].doc.keys)'
        BY <2>2, <3>1, <3>3, <3>4 DEF KeysOwn, KeysKnown, Rotated, Generated
      <4> QED
        BY <3>1, <3>3, <3>4, <4>1 DEF DocOK
    <3>7. Alone => UsableInstall' /\ CurrentDoc(i)'
      BY <2>2, <3>1, <3>3, <3>4 DEF UsableInstall, CurrentDoc, Adding, Taking
    <3> QED
      BY <3>1, <3>4, <3>5, <3>6, <3>7, <1>h, QuietKeeps DEF OperationOK
  <2> QED
    BY <2>1, <2>2
<1> QED
  BY <1>2, <1>3, <1>4

LEMMA EditKeeps ==
  ASSUME IssuerAssumption, IssuerInvariant, NEW i \in Installs,
         \/ \E kid \in AllKids : RemoveKey(i, kid)
         \/ \E pc \in {"add_read", "rm_read"}, s \in SUBSET Subjects : EditSubjects(i, pc, s)
         \/ RemoveKeyRead(i) \/ EditSubjectsRead(i)
  PROVE  IssuerInvariant'
<1> USE DEF IssuerInvariant
<1>h. Handled(i)
  BY StepHandled DEF Handles
<1>0. /\ OperationOK(i) /\ run[i] \in Operations /\ run \in [Installs -> Operations]
      /\ ops \in Nat /\ faults \in Nat /\ console \in Nat /\ 0 \in 0..2
      /\ run[i].incoming \in SUBSET Subjects
  BY RunTyped DEF TypeOK
<1>1. ASSUME End(i), Quiet, UNCHANGED <<issuer, stored, used, expected, others>>
      PROVE  IssuerInvariant'
  BY <1>0, <1>1, <1>h, EndKeeps DEF Quiet
<1>2. ASSUME NEW r \in Operations, r.pc \in {"remove_read", "add_read", "rm_read"}, ~r.gaveUp,
             run' = [run EXCEPT ![i] = r], UNCHANGED <<issuer, stored, used, expected, others>>,
             ops' = ops + 1, UNCHANGED <<faults, console>>
      PROVE  IssuerInvariant'
  <2>1. TypeOK' /\ run'[i] = r /\ \A j \in Installs \ {i} : run'[j] = run[j]
    <3>1. ops' \in Nat /\ stored' \in [Installs -> Kids \union {None}] /\ others' \in [Installs -> Nat]
      BY <1>0, <1>2 DEF TypeOK
    <3> QED
      BY <1>h, <1>2, <3>1, MoveOn
  <2>2. KidOK(i)' /\ DocOK(i)' /\ CountOK(i)'
    BY <1>2, <2>1 DEF KidOK, DocOK, CountOK, SetupSteps, RotateSteps, Adding, Taking
  <2>3. Alone => UsableInstall' /\ CurrentDoc(i)'
    BY <1>2, <2>1 DEF UsableInstall, CurrentDoc, Adding, Taking
  <2> QED
    BY <1>2, <2>1, <2>2, <2>3, <1>h, QuietKeeps DEF OperationOK
<1>3. ASSUME NEW doc \in Document, NEW pc \in {"remove_write", "subjects_write"},
             run[i].pc # "idle", run' = [run EXCEPT ![i].pc = pc, ![i].doc = doc],
             issuer # None, doc.keys = issuer.keys,
             UNCHANGED <<issuer, stored, used, expected, others>>, Quiet
      PROVE  IssuerInvariant'
  <2> DEFINE r == [run[i] EXCEPT !.pc = pc, !.doc = doc]
  <2>1. r \in Operations /\ run' = [run EXCEPT ![i] = r]
    BY <1>0, <1>3, MoveTyped DEF Steps, EditSteps
  <2>2. r.pc = pc /\ r.doc = doc /\ r.gaveUp = run[i].gaveUp
    BY <1>0 DEF Operations
  <2> HIDE DEF r
  <2>3. TypeOK' /\ run'[i] = r /\ \A j \in Installs \ {i} : run'[j] = run[j]
    BY <1>0, <1>3, <2>1, <1>h, MoveOn DEF TypeOK, Quiet
  <2>4. KidOK(i)' /\ CountOK(i)'
    BY <1>0, <1>3, <2>2, <2>3 DEF OperationOK, KidOK, CountOK, SetupSteps, RotateSteps
  <2>5. DocOK(i)'
    <3>1. KeysKnown(run[i].doc.keys)'
      BY <1>3, <2>2, <2>3 DEF KeysOwn, KeysKnown, Rotated, Generated
    <3> QED
      BY <1>3, <2>2, <2>3, <3>1 DEF DocOK
  <2>6. Alone => UsableInstall' /\ CurrentDoc(i)'
    BY <1>3, <2>2, <2>3 DEF UsableInstall, CurrentDoc, Adding, Taking
  <2> QED
    BY <1>3, <2>3, <2>4, <2>5, <2>6, <1>h, QuietKeeps DEF OperationOK
<1>4. ASSUME NEW kid \in AllKids, RemoveKey(i, kid) PROVE IssuerInvariant'
  <2> DEFINE r == [Idle EXCEPT !.pc = "remove_read", !.kid = kid]
  <2>1. r \in Operations /\ r.pc = "remove_read" /\ ~r.gaveUp
    BY MoveTyped DEF Idle, Steps, EditSteps
  <2> QED
    BY <1>2, <1>4, <2>1 DEF RemoveKey, Begin
<1>5. ASSUME NEW pc \in {"add_read", "rm_read"}, NEW s \in SUBSET Subjects, EditSubjects(i, pc, s)
      PROVE  IssuerInvariant'
  <2> DEFINE r == [Idle EXCEPT !.pc = pc, !.incoming = s]
  <2>1. r \in Operations
    BY MoveTyped DEF Steps, EditSteps
  <2>2. r.pc \in {"add_read", "rm_read"} /\ ~r.gaveUp
    BY DEF Idle
  <2>3. run' = [run EXCEPT ![i] = r]
    BY <1>5 DEF EditSubjects
  <2> HIDE DEF r
  <2> QED
    BY <1>2, <1>5, <2>1, <2>2, <2>3 DEF EditSubjects, Begin
<1>6. CASE RemoveKeyRead(i)
  <2>1. CASE ~(issuer # None /\ run[i].kid \in ReadOrTemplate.keys)
    BY <1>1, <1>6, <2>1 DEF RemoveKeyRead
  <2>2. CASE issuer # None /\ run[i].kid \in ReadOrTemplate.keys
    <3>1. issuer \in Document
      BY <2>2 DEF TypeOK
    <3> QED
      BY <1>3, <1>6, <2>2, <3>1 DEF RemoveKeyRead
  <2> QED
    BY <2>1, <2>2
<1>7. CASE EditSubjectsRead(i)
  <2> DEFINE after == IF run[i].pc = "add_read"
                      THEN SubjectsAfterAdd(ReadOrTemplate.subjects, run[i].incoming)
                      ELSE SubjectsAfterRemove(ReadOrTemplate.subjects, run[i].incoming)
             doc == [ReadOrTemplate EXCEPT !.subjects = after]
  <2>1. CASE ~(issuer # None /\ after # ReadOrTemplate.subjects /\ WriteAllowed(after))
    BY <1>1, <1>7, <2>1 DEF EditSubjectsRead
  <2>2. CASE issuer # None /\ after # ReadOrTemplate.subjects /\ WriteAllowed(after)
    <3>1. ReadOrTemplate \in Document /\ ReadOrTemplate.subjects \in SUBSET AllSubjects
      BY DocumentsTyped DEF Document
    <3>2. after \in SUBSET AllSubjects
      BY <1>0, <3>1 DEF SubjectsAfterAdd, SubjectsAfterRemove, AllSubjects
    <3>3. /\ run[i].pc \in {"add_read", "rm_read"}
          /\ run' = [run EXCEPT ![i].pc = "subjects_write", ![i].doc = doc]
          /\ UNCHANGED <<issuer, stored, used, expected, others>> /\ Quiet
      BY <1>7, <2>2 DEF EditSubjectsRead
    <3> HIDE DEF after
    <3>4. doc \in Document
      BY <3>1, <3>2, DocumentsTyped
    <3>5. doc.keys = ReadOrTemplate.keys
      BY <3>1 DEF Document
    <3>6. doc.keys = issuer.keys
      BY <2>2, <3>5 DEF ReadOrTemplate
    <3> HIDE DEF doc
    <3> QED
      BY <1>3, <2>2, <3>3, <3>4, <3>6
  <2> QED
    BY <2>1, <2>2
<1> QED
  BY <1>4, <1>5, <1>6, <1>7

-----------------------------------------------------------------------------
(* The invariant *)

LEMMA ConsoleKeeps ==
  ASSUME IssuerAssumption, IssuerInvariant, ConsoleEdit
  PROVE  IssuerInvariant'
<1> USE DEF IssuerInvariant
<1>1. /\ issuer # None /\ UNCHANGED <<stored, run, used, acted, ops, faults>> /\ console < MaxConsole
      /\ console' = console + 1
      /\ others' = [j \in Installs |-> IF run[j].pc \in {"setup_write", "setup_verify", "setup_read"}
                                       THEN others[j] + 1 ELSE others[j]]
      /\ expected' = IF issuer' = None THEN {} ELSE expected
  BY DEF ConsoleEdit
<1>2. PICK s \in SUBSET AllSubjects : issuer' \in {None, [issuer EXCEPT !.subjects = s]}
  BY DEF ConsoleEdit
<1>3. issuer \in Document
  BY <1>1 DEF TypeOK
<1>4. [issuer EXCEPT !.subjects = s] \in Document /\ [issuer EXCEPT !.subjects = s].keys = issuer.keys
  BY <1>3, DocumentsTyped DEF Document
<1>5. issuer' \in Document \union {None} /\ (issuer' # None => issuer'.keys = issuer.keys)
  BY <1>2, <1>4
<1>6. ~Alone' /\ ActedOK'
  <2>1. ~Alone'
    BY <1>1 DEF Alone, TypeOK
  <2>2. expected' \subseteq expected
    BY <1>1
  <2> QED
    BY <1>1, <2>1, <2>2 DEF ActedOK
<1>7. TypeOK'
  BY <1>1, <1>5 DEF TypeOK
<1>8. Grows
  BY <1>1, UnchangedGrows
<1>9. KeysOwn'
  BY <1>1, <1>5 DEF KeysOwn, KeysKnown, MadeBy, Rotated, Generated
<1>10. \A j \in Installs : Beside(j)
  BY <1>1 DEF Beside, Publishing
<1>11. \A j \in Installs : OperationOK(j)'
  BY <1>8, <1>10, BesideKept
<1> QED
  BY <1>6, <1>7, <1>9, <1>11

(* Every step of the installs and the console keeps the invariant. *)
LEMMA StepKeepsInvariant ==
  ASSUME IssuerAssumption, IssuerInvariant, [Next]_vars
  PROVE  IssuerInvariant'
<1>1. CASE ConsoleEdit
  BY <1>1, ConsoleKeeps
<1>2. CASE UNCHANGED vars
  BY <1>2
  DEF vars, IssuerInvariant, TypeOK, KeysOwn, OperationOK, KidOK, DocOK, CountOK, CurrentDoc,
      UsableInstall, KeysKnown, MadeBy, Rotated, Generated, ReadOrTemplate, Alone, ActedOK
<1>3. ASSUME NEW i \in Installs, NEW s \in SUBSET Subjects, NEW k \in Kids, Setup(i, s, k)
      PROVE  IssuerInvariant'
  BY <1>3, SetupKeeps
<1>4. ASSUME NEW i \in Installs, NEW k \in Kids, Rotate(i, k) PROVE IssuerInvariant'
  BY <1>4, RotateKeeps
<1>5. ASSUME NEW i \in Installs,
             \/ \E kid \in AllKids : RemoveKey(i, kid)
             \/ \E pc \in {"add_read", "rm_read"}, s \in SUBSET Subjects : EditSubjects(i, pc, s)
             \/ RemoveKeyRead(i) \/ EditSubjectsRead(i)
      PROVE  IssuerInvariant'
  BY <1>5, EditKeeps
<1>6. ASSUME NEW i \in Installs, SetupCheck(i) \/ SetupPut(i) \/ SetupRead(i) \/ SetupVerify(i)
      PROVE  IssuerInvariant'
  BY <1>6, SetupStepsKeep
<1>7. ASSUME NEW i \in Installs, SetupWrite(i) \/ RotateWrite(i) \/ AnswerLost(i)
      PROVE  IssuerInvariant'
  BY <1>7, SetupWriteKeeps, RotateWriteKeeps, AnswerLostKeeps
<1>8. ASSUME NEW i \in Installs, RotateRead(i) \/ RotatePut(i) \/ RetireRead(i)
      PROVE  IssuerInvariant'
  BY <1>8, RotateStepsKeep
<1>9. ASSUME NEW i \in Installs, RetireWrite(i) \/ RemoveKeyWrite(i) \/ EditSubjectsWrite(i)
      PROVE  IssuerInvariant'
  BY <1>9, TakingKeeps
<1>10. ASSUME NEW i \in Installs, Fails(i) PROVE IssuerInvariant'
  <2>h. Handled(i)
    BY <1>10, StepHandled DEF Handles, IssuerInvariant
  <2>1. ops' \in Nat /\ faults' \in Nat /\ console' \in Nat
    BY <1>10 DEF Fails, IssuerInvariant, TypeOK
  <2> QED
    BY <1>10, <2>h, <2>1, EndKeeps DEF Fails
<1> QED
  BY <1>1, <1>2, <1>3, <1>4, <1>5, <1>6, <1>7, <1>8, <1>9, <1>10 DEF Next

(* It holds of an issuer that has only keys of others, and of new installs. *)
LEMMA InitInvariant ==
  ASSUME IssuerAssumption, Init
  PROVE  IssuerInvariant
<1>1. issuer \in Document \union {None} /\ (issuer # None => issuer.keys = ForeignKids)
  BY DEF Init, Document, AllKids, AllSubjects
<1>2. run \in [Installs -> Operations] /\ \A i \in Installs : run[i] = Idle
  BY MoveTyped DEF Init
<1>3. TypeOK
  BY <1>1, <1>2 DEF Init, TypeOK
<1>4. KeysOwn
  BY <1>1 DEF Init, KeysOwn, KeysKnown, IssuerAssumption
<1>5. \A i \in Installs : run[i].pc = "idle" /\ run[i].gaveUp = FALSE
  BY <1>2 DEF Idle
<1>6. \A i \in Installs : OperationOK(i) /\ CurrentDoc(i)
  BY <1>5
  DEF OperationOK, KidOK, DocOK, CountOK, CurrentDoc, SetupSteps, RotateSteps, Adding, Taking
<1>7. UsableInstall /\ ActedOK
  BY <1>5 DEF Init, UsableInstall, ActedOK
<1> QED
  BY <1>3, <1>4, <1>6, <1>7 DEF IssuerInvariant

-----------------------------------------------------------------------------
(* What follows for a step *)

WritesKey(i) == SetupWrite(i) \/ RotateWrite(i) \/ AnswerLost(i)
WritesLess(i) == RetireWrite(i) \/ RemoveKeyWrite(i) \/ EditSubjectsWrite(i)

(* Who writes the document. *)
LEMMA Writers ==
  ASSUME Next
  PROVE  ConsoleEdit \/ issuer' = issuer \/ \E i \in Installs : WritesKey(i) \/ WritesLess(i)
<1>1. ASSUME NEW i \in Installs,
             \/ \E s \in SUBSET Subjects, k \in Kids : Setup(i, s, k)
             \/ \E k \in Kids : Rotate(i, k)
             \/ \E k \in AllKids : RemoveKey(i, k)
             \/ \E pc \in {"add_read", "rm_read"}, s \in SUBSET Subjects : EditSubjects(i, pc, s)
      PROVE  issuer' = issuer
  BY <1>1 DEF Setup, Rotate, RemoveKey, EditSubjects
<1>2. ASSUME NEW i \in Installs,
             SetupCheck(i) \/ SetupPut(i) \/ SetupRead(i) \/ SetupVerify(i)
      PROVE  issuer' = issuer
  BY <1>2 DEF SetupCheck, SetupPut, SetupRead, SetupVerify
<1>3. ASSUME NEW i \in Installs, RotateRead(i) \/ RotatePut(i) \/ RetireRead(i)
      PROVE  issuer' = issuer
  BY <1>3 DEF RotateRead, RotatePut, RetireRead
<1>4. ASSUME NEW i \in Installs, RemoveKeyRead(i) \/ EditSubjectsRead(i) \/ Fails(i)
      PROVE  issuer' = issuer
  BY <1>4 DEF RemoveKeyRead, EditSubjectsRead, Fails
<1> QED
  BY <1>1, <1>2, <1>3, <1>4 DEF Next, WritesKey, WritesLess

(* A write moves on the operation of the install that sends it, and no other. *)
LEMMA WriterAlone ==
  ASSUME TypeOK, NEW i \in Installs, WritesKey(i) \/ WritesLess(i)
  PROVE  \A j \in Installs \ {i} : run'[j] = run[j]
<1>1. CASE SetupWrite(i)
  BY <1>1 DEF SetupWrite, TypeOK
<1>2. CASE RotateWrite(i)
  BY <1>2 DEF RotateWrite, Goto, TypeOK
<1>3. CASE AnswerLost(i)
  BY <1>3 DEF AnswerLost, End, TypeOK
<1>4. CASE WritesLess(i)
  BY <1>4 DEF WritesLess, RetireWrite, RemoveKeyWrite, EditSubjectsWrite, End, TypeOK
<1> QED
  BY <1>1, <1>2, <1>3, <1>4 DEF WritesKey

(* What a publish sends: the key added to the document that was read and    *)
(* found fit for production.                                               *)
LEMMA PublishSends ==
  ASSUME IssuerAssumption, IssuerInvariant, NEW i \in Installs, WritesKey(i)
  PROVE  /\ run[i].pc \in Adding
         /\ issuer' \in Document /\ issuer'.keys = run[i].doc.keys \union {run[i].kid}
         /\ WriteAllowed(issuer'.subjects)
<1> DEFINE doc == run[i].doc
           incoming == run[i].incoming
<1>1. run[i].pc \in Adding
  BY DEF WritesKey, SetupWrite, RotateWrite, AnswerLost, Adding
<1>2. doc \in Document /\ incoming \in SUBSET Subjects /\ run[i].kid \in AllKids
  BY <1>1, RunTyped
  DEF IssuerInvariant, OperationOK, DocOK, KidOK, Adding, SetupSteps, RotateSteps, AllKids
<1>3. run[i].pc = "rotate_write" => incoming = {} /\ WriteAllowed(doc.subjects)
  BY DEF IssuerInvariant, OperationOK, DocOK, KidOK, RotateSteps
<1>4. run[i].pc = "setup_write" => WriteAllowed(SubjectsAfterAdd(doc.subjects, incoming))
  BY DEF IssuerInvariant, OperationOK, DocOK
<1>5. issuer' = WithKey(doc, run[i].kid, incoming)
  BY <1>3 DEF WritesKey, SetupWrite, RotateWrite, AnswerLost, Upsert
<1>6. issuer' \in Document
  BY <1>2, <1>5, DocumentsTyped
<1>7. /\ issuer'.keys = doc.keys \union {run[i].kid}
      /\ issuer'.subjects = IF incoming = {} THEN doc.subjects
                            ELSE SubjectsAfterAdd(doc.subjects, incoming)
  BY <1>5 DEF WithKey
<1>8. WriteAllowed(issuer'.subjects)
  BY <1>1, <1>3, <1>4, <1>7
  DEF Adding, WriteAllowed, IsRestricted, SubjectsAfterAdd
<1> QED
  BY <1>1, <1>6, <1>7, <1>8

(* A publish leaves a production issuer restricted. *)
LEMMA RestrictedFollows ==
  ASSUME IssuerAssumption, IssuerInvariant, [Next]_vars
  PROVE  PublishesRestricted
<1> SUFFICES ASSUME NEW i \in Installs, Production, run[i].pc \in Adding,
                    run'[i] # run[i], issuer' # issuer
             PROVE  IsRestricted(issuer'.subjects)
  BY DEF PublishesRestricted, Adding
<1>1. Next
  BY DEF vars
<1>2. ~ConsoleEdit
  BY DEF ConsoleEdit
<1>3. PICK j \in Installs : WritesKey(j) \/ WritesLess(j)
  BY <1>1, <1>2, Writers
<1>4. j = i
  BY <1>3, WriterAlone DEF IssuerInvariant
<1>5. WritesKey(i)
  BY <1>3, <1>4 DEF WritesLess, RetireWrite, RemoveKeyWrite, EditSubjectsWrite, Adding
<1> QED
  BY <1>5, PublishSends DEF WriteAllowed

(* The only install takes no key of others from the issuer unless told to. *)
LEMMA OthersKeysFollow ==
  ASSUME Alone', IssuerAssumption, IssuerInvariant, [Next]_vars
  PROVE  KeepsOthersKeys
<1> SUFFICES ASSUME NEW k \in ForeignKids, issuer # None, k \in issuer.keys,
                    issuer' = None \/ k \notin issuer'.keys
             PROVE  \E i \in Installs : run[i].pc = "remove_write" /\ run[i].kid = k
  BY DEF KeepsOthersKeys, ReadOrTemplate
<1>1. Next
  BY DEF vars
<1>2. ~ConsoleEdit
  BY DEF ConsoleEdit, Alone, IssuerInvariant, TypeOK
<1>3. PICK i \in Installs : WritesKey(i) \/ WritesLess(i)
  BY <1>1, <1>2, Writers
<1>4. CurrentDoc(i) /\ OperationOK(i)
  <2>1. Handled(i)
    BY <1>3, StepHandled DEF WritesKey, WritesLess, Handles, IssuerInvariant
  <2>2. Alone
    BY <2>1 DEF Alone, Handled
  <2> QED
    BY <2>2 DEF IssuerInvariant
<1>5. ASSUME WritesKey(i) PROVE FALSE
  <2>1. /\ run[i].pc \in Adding
        /\ issuer' \in Document /\ issuer'.keys = run[i].doc.keys \union {run[i].kid}
    BY <1>5, PublishSends
  <2>2. run[i].doc.keys = issuer.keys
    BY <1>4, <2>1 DEF CurrentDoc, ReadOrTemplate
  <2> QED
    BY <2>1, <2>2, IssuerTypes
<1>6. ASSUME WritesLess(i)
      PROVE  run[i].pc = "remove_write" /\ run[i].kid = k
  <2>1. run[i].pc \in Taking
    BY <1>6 DEF WritesLess, RetireWrite, RemoveKeyWrite, EditSubjectsWrite, Taking
  <2>2. run[i].doc \in Document /\ run[i].doc.keys = issuer.keys
    BY <1>4, <2>1 DEF CurrentDoc, OperationOK, DocOK
  <2>3. CASE RetireWrite(i)
    <3>1. issuer' = [run[i].doc EXCEPT !.keys = run[i].doc.keys \ {run[i].old}]
      BY <2>3 DEF RetireWrite, Upsert
    <3>2. issuer' \in Document /\ issuer'.keys = run[i].doc.keys \ {run[i].old}
      BY <2>2, <3>1, DocumentsTyped DEF Document
    <3>3. run[i].old \in Kids
      BY <1>4, <2>3 DEF RetireWrite, OperationOK, KidOK, RotateSteps
    <3> QED
      BY <2>2, <3>2, <3>3, IssuerTypes DEF IssuerAssumption
  <2>4. CASE RemoveKeyWrite(i)
    <3>1. issuer' = [run[i].doc EXCEPT !.keys = run[i].doc.keys \ {run[i].kid}]
      BY <2>4 DEF RemoveKeyWrite, Upsert
    <3>2. issuer' \in Document /\ issuer'.keys = run[i].doc.keys \ {run[i].kid}
      BY <2>2, <3>1, DocumentsTyped DEF Document
    <3> QED
      BY <2>2, <2>4, <3>2, IssuerTypes DEF RemoveKeyWrite
  <2>5. CASE EditSubjectsWrite(i)
    <3>1. issuer' = run[i].doc
      BY <2>5 DEF EditSubjectsWrite, Upsert
    <3> QED
      BY <2>2, <3>1, IssuerTypes
  <2> QED
    BY <1>6, <2>3, <2>4, <2>5 DEF WritesLess
<1> QED
  BY <1>3, <1>5, <1>6

(* What the invariant says of a state. *)
LEMMA InvariantSays ==
  ASSUME IssuerInvariant
  PROVE  /\ TypeOK /\ OneLossRepaired /\ NoOrphanFromSetup
         /\ Alone => UsableInstall
<1>1. OneLossRepaired
  BY DEF IssuerInvariant, OperationOK, CountOK, OneLossRepaired
<1>2. NoOrphanFromSetup
  BY DEF IssuerInvariant, KeysOwn, KeysKnown, Rotated, NoOrphanFromSetup, ReadOrTemplate
<1> QED
  BY <1>1, <1>2 DEF IssuerInvariant

-----------------------------------------------------------------------------
(* Theorems *)

(* The invariant holds of every state the installs and the console reach. *)
THEOREM IssuerInvariantHolds ==
  ASSUME IssuerAssumption
  PROVE  Spec => []IssuerInvariant
<1>1. Init => IssuerInvariant
  BY InitInvariant
<1>2. IssuerInvariant /\ [Next]_vars => IssuerInvariant'
  BY StepKeepsInvariant
<1> QED
  BY <1>1, <1>2, PTL DEF Spec

(* One lost update is repaired by the second publish, a repeated setup      *)
(* publishes the key it stored, a publish leaves a production issuer        *)
(* restricted (setup, rotate and the checks on the document about to be     *)
(* sent); and while one install works alone, what it was told to be in      *)
(* place stays there, and no key of others leaves the set unless `key       *)
(* remove` names it.                                                        *)
THEOREM IssuerStaysUsable ==
  ASSUME IssuerAssumption
  PROVE  Spec => IssuerUsable
<1>1. IssuerInvariant => /\ TypeOK /\ OneLossRepaired /\ NoOrphanFromSetup
                         /\ Alone => UsableInstall
  BY InvariantSays
<1>2. IssuerInvariant /\ [Next]_vars => PublishesRestricted /\ (Alone' => KeepsOthersKeys)
  BY RestrictedFollows, OthersKeysFollow
<1>3. Spec => [](TypeOK /\ OneLossRepaired /\ NoOrphanFromSetup /\ (Alone => UsableInstall))
  BY <1>1, IssuerInvariantHolds, PTL
<1>4. Spec => ProductionPublishRestricted
  BY <1>2, IssuerInvariantHolds, PTL DEF Spec, ProductionPublishRestricted
<1>5. Spec => OthersKeysKept
  BY <1>2, IssuerInvariantHolds, PTL DEF Spec, OthersKeysKept
<1> QED
  BY <1>3, <1>4, <1>5 DEF IssuerUsable
=============================================================================
