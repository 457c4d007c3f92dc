------------------------------ MODULE MCChanges ------------------------------
(***************************************************************************)
(* Changes of the tenant that take several requests and must be carried    *)
(* through: a certificate rollover, a conversion of a pair of              *)
(* relationships, the repair of one-sided links, the promotions of a pair  *)
(* of environments.  A behavior follows one of these instances, in         *)
(* Followed; promotions have their own variables and rest while another is *)
(* followed, the others use x1, x2, ...                                    *)
(*   "rollover"   two installs, versions written by others, a secret       *)
(*                deleted and created again;                               *)
(*   "recreated"  one install whose secret is created again between its    *)
(*                commands, with other versions;                           *)
(*   "chain"      the chain from role to secret moves under the commands;  *)
(*   "conversion" two processes with one capture, a lost declaration;      *)
(*   "late"       the same where a configuration write may land late;      *)
(*   "one"        has-one links, two processes and another writer;         *)
(*   "onefail"    has-one links, two processes and a failure;              *)
(*   "lone"       has-one links, one process, other writers and failures;  *)
(*   "many"       has-many links and other writers;                        *)
(*   "probes"     has-many links and test links;                           *)
(*   "together"   the same, two processes;                                 *)
(*   "pair"       two operators who promote on one pair of environments.   *)
(* What must happen in the end is checked in MCLive.                       *)
(***************************************************************************)
EXTENDS Promotion, TLC

CONSTANTS Followed, Default,
          proc1, proc2, ident1, ident2, secret1, cert1, cert2, cert3,
          link1, link2, far1, far2, bare, role

VARIABLES
    follow, \* the instance this behavior is about
    x1, x2, x3, x4, x5, x6, x7, x8, x9, x10, x11, x12, x13, x14

slots == <<x1, x2, x3, x4, x5, x6, x7, x8, x9, x10, x11, x12, x13, x14>>
all == <<follow, vars, slots>>

\* proc1 and proc2 are the operators, installs or processes of each instance,
\* cert1 and cert2 also the promotionIds of a pair.
Symmetry == Permutations({proc1, proc2}) \union Permutations({cert1, cert2})
              \union Permutations({link1, link2})

Rollover == INSTANCE SamlRotate WITH
    Installs <- {proc1, proc2}, Idents <- {ident1}, Secrets <- {secret1},
    Certs <- {cert1, cert2}, Verbs <- {"stage", "complete"},
    Edits <- {"versions", "recreate"}, Configured <- TRUE, MaxVersions <- 3,
    MaxStages <- 2, MaxFaults <- 0, MaxEdits <- 1,
    ident <- x1, other <- x2, mapping <- x3, secret <- x4, gen <- x5,
    export <- x6, journal <- x7, run <- x8, quiet <- x9, stages <- x10,
    faults <- x11, edits <- x12

Recreated == INSTANCE SamlRotate WITH
    Installs <- {proc1}, Idents <- {ident1}, Secrets <- {secret1},
    Certs <- {cert1, cert2}, Verbs <- {"stage", "complete"},
    Edits <- {"versions", "recreate"}, Configured <- TRUE, MaxVersions <- 2,
    MaxStages <- 1, MaxFaults <- 0, MaxEdits <- 2,
    ident <- x1, other <- x2, mapping <- x3, secret <- x4, gen <- x5,
    export <- x6, journal <- x7, run <- x8, quiet <- x9, stages <- x10,
    faults <- x11, edits <- x12

Chain == INSTANCE SamlRotate WITH
    Installs <- {proc1, proc2}, Idents <- {ident1, ident2},
    Secrets <- {secret1}, Certs <- {cert1, cert2},
    Verbs <- {"init", "stage", "complete"},
    Edits <- {"chain", "delete", "recreate"}, Configured <- FALSE,
    MaxVersions <- 2, MaxStages <- 1, MaxFaults <- 0, MaxEdits <- 1,
    ident <- x1, other <- x2, mapping <- x3, secret <- x4, gen <- x5,
    export <- x6, journal <- x7, run <- x8, quiet <- x9, stages <- x10,
    faults <- x11, edits <- x12

Converting == INSTANCE Conversion WITH
    Procs <- {proc1, proc2}, Links <- {link1, link2},
    Orphans <- {link1, link2}, MaxFailures <- 1, MaxTurns <- 1,
    MaxEdits <- 1, MaxQ14 <- 1, LateConfig <- FALSE,
    mapped <- x1, declared <- x2, generic <- x3, column <- x4,
    inflight <- x5, file <- x6, holder <- x7, run <- x8, txn <- x9,
    turns <- x10, failures <- x11, edits <- x12, q14 <- x13

Late == INSTANCE Conversion WITH
    Procs <- {proc1, proc2}, Links <- {link1, link2},
    Orphans <- {link1, link2}, MaxFailures <- 2, MaxTurns <- 1,
    MaxEdits <- 1, MaxQ14 <- 0, LateConfig <- TRUE,
    mapped <- x1, declared <- x2, generic <- x3, column <- x4,
    inflight <- x5, file <- x6, holder <- x7, run <- x8, txn <- x9,
    turns <- x10, failures <- x11, edits <- x12, q14 <- x13

One == INSTANCE LinkRecovery WITH
    Procs <- {proc1, proc2}, Targets <- {far1, far2}, Props <- {bare, role},
    Bare <- bare, Array <- FALSE, FarArray <- FALSE,
    InitialTargets <- {far1}, MaxEdits <- 1, MaxProbes <- 1, MaxFailures <- 0,
    links <- x1, onesided <- x2, farHeld <- x3, rev <- x4, journal <- x5,
    run <- x6, edges <- x7, entries <- x8, probes <- x9, edits <- x10,
    failures <- x11, owed <- x12, tests <- x13, misjudged <- x14

OneFails == INSTANCE LinkRecovery WITH
    Procs <- {proc1, proc2}, Targets <- {far1, far2}, Props <- {bare, role},
    Bare <- bare, Array <- FALSE, FarArray <- FALSE,
    InitialTargets <- {far1}, MaxEdits <- 0, MaxProbes <- 1, MaxFailures <- 1,
    links <- x1, onesided <- x2, farHeld <- x3, rev <- x4, journal <- x5,
    run <- x6, edges <- x7, entries <- x8, probes <- x9, edits <- x10,
    failures <- x11, owed <- x12, tests <- x13, misjudged <- x14

Lone == INSTANCE LinkRecovery WITH
    Procs <- {proc1}, Targets <- {far1, far2}, Props <- {bare, role},
    Bare <- bare, Array <- FALSE, FarArray <- FALSE,
    InitialTargets <- {far1}, MaxEdits <- 2, MaxProbes <- 1, MaxFailures <- 2,
    links <- x1, onesided <- x2, farHeld <- x3, rev <- x4, journal <- x5,
    run <- x6, edges <- x7, entries <- x8, probes <- x9, edits <- x10,
    failures <- x11, owed <- x12, tests <- x13, misjudged <- x14

Many == INSTANCE LinkRecovery WITH
    Procs <- {proc1}, Targets <- {far1, far2}, Props <- {bare, role},
    Bare <- bare, Array <- TRUE, FarArray <- FALSE,
    InitialTargets <- {far1, far2}, MaxEdits <- 2, MaxProbes <- 0,
    MaxFailures <- 1,
    links <- x1, onesided <- x2, farHeld <- x3, rev <- x4, journal <- x5,
    run <- x6, edges <- x7, entries <- x8, probes <- x9, edits <- x10,
    failures <- x11, owed <- x12, tests <- x13, misjudged <- x14

Probes == INSTANCE LinkRecovery WITH
    Procs <- {proc1}, Targets <- {far1, far2}, Props <- {bare, role},
    Bare <- bare, Array <- TRUE, FarArray <- FALSE, InitialTargets <- {far1},
    MaxEdits <- 2, MaxProbes <- 2, MaxFailures <- 1,
    links <- x1, onesided <- x2, farHeld <- x3, rev <- x4, journal <- x5,
    run <- x6, edges <- x7, entries <- x8, probes <- x9, edits <- x10,
    failures <- x11, owed <- x12, tests <- x13, misjudged <- x14

Together == INSTANCE LinkRecovery WITH
    Procs <- {proc1, proc2}, Targets <- {far1}, Props <- {bare, role},
    Bare <- bare, Array <- TRUE, FarArray <- FALSE, InitialTargets <- {far1},
    MaxEdits <- 1, MaxProbes <- 1, MaxFailures <- 0,
    links <- x1, onesided <- x2, farHeld <- x3, rev <- x4, journal <- x5,
    run <- x6, edges <- x7, entries <- x8, probes <- x9, edits <- x10,
    failures <- x11, owed <- x12, tests <- x13, misjudged <- x14

ASSUME InstancesAssumption ==
    /\ PromotionAssumption
    /\ Rollover!SamlAssumption /\ Recreated!SamlAssumption /\ Chain!SamlAssumption
    /\ Converting!ConversionAssumption /\ Late!ConversionAssumption
    /\ One!LinkAssumption /\ OneFails!LinkAssumption /\ Lone!LinkAssumption
    /\ Many!LinkAssumption /\ Probes!LinkAssumption
    /\ Together!LinkAssumption

\* An instance uses the first n of the variables.
Starts(n) ==
    /\ IF n < 1 THEN x1 = None /\ x2 = None /\ x3 = None /\ x4 = None /\ x5 = None /\ x6 = None /\ x7 = None /\ x8 = None /\ x9 = None /\ x10 = None /\ x11 = None /\ x12 = None ELSE TRUE
    /\ IF n < 13 THEN x13 = None ELSE TRUE
    /\ IF n < 14 THEN x14 = None ELSE TRUE

Uses(n) ==
    /\ UNCHANGED follow
    /\ IF n < 1 THEN UNCHANGED <<x1, x2, x3, x4, x5, x6, x7, x8, x9, x10, x11, x12>> ELSE TRUE
    /\ IF n < 13 THEN UNCHANGED x13 ELSE TRUE
    /\ IF n < 14 THEN UNCHANGED x14 ELSE TRUE

MCInit ==
    /\ follow \in Followed
    /\ Init /\ (follow # "pair" => given = {})
    /\ CASE follow = "pair" -> Starts(0)
         [] follow = "rollover" -> Rollover!Init /\ Starts(12)
         [] follow = "recreated" -> Recreated!Init /\ Starts(12)
         [] follow = "chain" -> Chain!Init /\ Starts(12)
         [] follow = "conversion" -> Converting!Init /\ Starts(13)
         [] follow = "late" -> Late!Init /\ Starts(13)
         [] follow = "one" -> One!Init /\ Starts(14)
         [] follow = "onefail" -> OneFails!Init /\ Starts(14)
         [] follow = "lone" -> Lone!Init /\ Starts(14)
         [] follow = "many" -> Many!Init /\ Starts(14)
         [] follow = "together" -> Together!Init /\ Starts(14)
         [] follow = "probes" -> Probes!Init /\ Starts(14)

\* The others of "recreated" write while no command is under way.
BetweenCommands == x12' # x12 => x8[proc1].pc = "idle"

MCNext ==
    \/ follow = "pair" /\ Next /\ Uses(0)
    \/ /\ UNCHANGED vars
       /\ \/ follow = "rollover" /\ Rollover!Next /\ Uses(12)
          \/ follow = "recreated" /\ Recreated!Next /\ BetweenCommands /\ Uses(12)
          \/ follow = "chain" /\ Chain!Next /\ Uses(12)
          \/ follow = "conversion" /\ Converting!Next /\ Uses(13)
          \/ follow = "late" /\ Late!Next /\ Uses(13)
          \/ follow = "one" /\ One!Next /\ Uses(14)
          \/ follow = "onefail" /\ OneFails!Next /\ Uses(14)
          \/ follow = "lone" /\ Lone!Next /\ Uses(14)
          \/ follow = "many" /\ Many!Next /\ Uses(14)
          \/ follow = "together" /\ Together!Next /\ Uses(14)
          \/ follow = "probes" /\ Probes!Next /\ Uses(14)

MCSpec == MCInit /\ [][MCNext]_all

-----------------------------------------------------------------------------
\* saml/rotate.  While a secret is not deleted and created again, the version
\* that a journal record names holds its certificate, and a complete that takes
\* the version from its record keeps the certificate that the operator retains
\* published; a stage opens a window of two versions, the published one and its
\* own; a complete that reports success leaves the retained certificate alone;
\* and no rollover or init writes a secret that another consumer uses.  All but
\* the record: unless somebody writes between the recheck and the write.
RolloverSafe ==
    /\ [](follow = "rollover" => Rollover!TypeOK /\ Rollover!RecordTrue)
    /\ [](follow = "chain" => Chain!TypeOK)
    /\ [][follow = "rollover" =>
             /\ Rollover!DisableKeepsRetained
             /\ Rollover!VersionOpensTwo
             /\ Rollover!SettlesOnRetained]_slots
    /\ [][follow = "chain" => Chain!SendsToOwn]_slots

\* saml/rotate/spec.rs:2116-2123.  Of a secret that was deleted and created
\* again too: a complete that takes the version from the journal's record keeps
\* the certificate that the operator retains published.
RecreatedIsNoPairing == [][follow = "recreated" => Recreated!DisableNeverGuesses]_slots

\* managed/conversion.rs.  The switch hides no link that is not captured; a
\* capture that says it is settled shows exactly the captured links; no link is
\* held twice, although creations may land late; an edge that the column held
\* before the conversion stays.
ConversionSafe ==
    /\ [](follow = "conversion" =>
             /\ Converting!TypeOK
             /\ Converting!HiddenIsCaptured
             /\ Converting!SettledShowsCaptured)
    /\ [](follow = "late" => Late!TypeOK /\ Late!NoDuplicateLink)
    /\ [][follow = "late" => Late!KeepsForeign]_slots

=============================================================================
