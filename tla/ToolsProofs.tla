---------------------------- MODULE ToolsProofs ----------------------------
(***************************************************************************)
(* Proofs about the tools that run before the bridge or beside it and must   *)
(* survive a stop between any two of their writes: the certificate of the    *)
(* setup wizard (Certificate), the upgrade of a config in place (Upgrade)    *)
(* and the migration of an older installation (Migration); about the direct  *)
(* source with its network lock (Probe) and its activity marker (Marker);    *)
(* and about the frame handler of DTLS cameras (Frames).  Each is            *)
(* instantiated with its own constants and variables, so a theorem is about  *)
(* any number of failures, texts, cameras, sessions, requests, sources and   *)
(* frames.                                                                   *)
(***************************************************************************)
EXTENDS Integers, Sequences, FiniteSets, SequenceTheorems, TLAPS

CONSTANTS MaxChanges, MaxFailures                                 \* Certificate
CONSTANTS Texts, None                                             \* Upgrade
CONSTANTS Cameras, Tokens, Owner, Serials, Legacy, Fresh, MaxFaults  \* Migration
CONSTANTS Attempts, Backlog, MaxStrangers                         \* Probe
CONSTANTS Procs, Grace, Delay                                     \* Marker
CONSTANTS Shots, Wrap, Mark, QueueSize, InFlight                  \* Frames

VARIABLES key, cert, good, made, step, up, served, fingerprint, failures, changes
VARIABLES file, bak, named, writing, copied, replaced
VARIABLES source, serial, config, token, auth, marker, used, tool, plan, ok, torn, faults
VARIABLES deny, strict, main, attempt, thread, result, told, listener, queue, conn, locked, code,
          received, output, strangers
VARIABLES mark, age, doing, flows, due, live, verdict, stale, polled, busy, quiet, calm, sure
VARIABLES place, wire, losses, channels, videoTS, audioTS, pending, closed, queued, taken, dropped,
          joined, panicked

Wizard == INSTANCE Certificate WITH MaxFaults <- MaxFailures, faults <- failures
Upgrading == INSTANCE Upgrade WITH config <- file, step <- writing, source <- copied
Migrating == INSTANCE Migration
Source == INSTANCE Probe WITH step <- main
Activity == INSTANCE Marker WITH file <- mark, at <- doing
Handler == INSTANCE Frames
             WITH Marker <- Mark, faults <- losses, output <- pending, received <- taken

(***************************************************************************)
(* The certificate                                                         *)
(***************************************************************************)
WizardAssumption == MaxChanges \in Nat /\ MaxFailures \in Nat

WizardSteps == {"new", "down", "ensure", "make", "key", "cert", "use", "load", "idle"}

PairTypes ==
    /\ made \in Nat /\ {key, cert, served, fingerprint} \subseteq 0..made /\ good \subseteq 1..made
    /\ step \in WizardSteps /\ failures \in 0..MaxFailures /\ changes \in 0..MaxChanges

UpIsFlag == up \in BOOLEAN

\* While a pair is being replaced it is the newest one, the key comes first, and
\* what is about to be used belongs together.
Replacing ==
    /\ step \in {"key", "cert"} => made >= 1
    /\ step = "cert" => key = made
    /\ step \in {"use", "load"} => key = cert /\ cert # 0

\* The newest pair is good and on its way into the two files, or there.
NewestUsed ==
    /\ made \in good
    /\ step \in {"key", "cert"} \/ (key = made /\ cert = made /\ step # "make")

\* Every pair but the newest was made for a change or a failure.
MadeForAReason == made <= changes + failures + (IF NewestUsed THEN 1 ELSE 0)

WizardInv == PairTypes /\ UpIsFlag /\ Replacing /\ MadeForAReason /\ Wizard!ThreadKnows

LEMMA WizardStep ==
    ASSUME WizardAssumption, WizardInv, [Wizard!Next]_(Wizard!vars)
    PROVE  WizardInv'
<1> USE DEF WizardAssumption
<1>0. PairTypes /\ UpIsFlag /\ Replacing /\ MadeForAReason /\ Wizard!ThreadKnows
  BY DEF WizardInv
<1>1. ASSUME Wizard!Install \/ Wizard!Begin PROVE WizardInv'
  <2>1. /\ step \in {"new", "down", "idle"} /\ step' \in {"down", "ensure"}
        /\ UNCHANGED <<key, cert, made, good, up, served, fingerprint, failures, changes>>
    BY <1>1 DEF Wizard!Install, Wizard!Begin, Wizard!Goto, Wizard!files, Wizard!bounds
  <2>2. PairTypes' /\ Replacing'
    BY <1>0, <2>1 DEF PairTypes, Replacing, WizardSteps
  <2>3. MadeForAReason'
    BY <1>0, <2>1 DEF MadeForAReason, NewestUsed, PairTypes
  <2>4. UpIsFlag' /\ Wizard!ThreadKnows'
    BY <1>0, <2>1 DEF UpIsFlag, Wizard!ThreadKnows
  <2>5. QED
    BY <2>2, <2>3, <2>4 DEF WizardInv
<1>2. ASSUME Wizard!Ensure PROVE WizardInv'
  <2>1. /\ step = "ensure" /\ step' = (IF key = cert /\ cert \in good THEN "use" ELSE "make")
        /\ UNCHANGED <<key, cert, made, good, up, served, fingerprint, failures, changes>>
    BY <1>2 DEF Wizard!Ensure, Wizard!Goto, Wizard!Valid, Wizard!files, Wizard!bounds
  <2>2. PairTypes' /\ Replacing'
    BY <1>0, <2>1 DEF PairTypes, Replacing, WizardSteps
  <2>3. MadeForAReason'
    BY <1>0, <2>1 DEF MadeForAReason, NewestUsed, PairTypes
  <2>4. UpIsFlag' /\ Wizard!ThreadKnows'
    BY <1>0, <2>1 DEF UpIsFlag, Wizard!ThreadKnows
  <2>5. QED
    BY <2>2, <2>3, <2>4 DEF WizardInv
<1>3. ASSUME Wizard!Make PROVE WizardInv'
  <2>1. /\ step = "make" /\ step' = "key" /\ made' = made + 1 /\ good' = good \cup {made'}
        /\ UNCHANGED <<key, cert, up, served, fingerprint, failures, changes>>
    BY <1>3 DEF Wizard!Make, Wizard!Goto, Wizard!bounds
  <2>2. made <= changes + failures
    BY <1>0, <2>1 DEF MadeForAReason, NewestUsed, PairTypes
  <2>3. PairTypes' /\ Replacing'
    BY <1>0, <2>1 DEF PairTypes, Replacing, WizardSteps
  <2>4. MadeForAReason'
    BY <1>0, <2>1, <2>2 DEF MadeForAReason, NewestUsed, PairTypes
  <2>5. UpIsFlag' /\ Wizard!ThreadKnows'
    BY <1>0, <2>1 DEF UpIsFlag, Wizard!ThreadKnows
  <2>6. QED
    BY <2>3, <2>4, <2>5 DEF WizardInv
<1>4. ASSUME Wizard!ReplaceKey PROVE WizardInv'
  <2>1. /\ step = "key" /\ step' = "cert" /\ key' = made
        /\ UNCHANGED <<cert, made, good, up, served, fingerprint, failures, changes>>
    BY <1>4 DEF Wizard!ReplaceKey, Wizard!Goto, Wizard!bounds
  <2>2. PairTypes' /\ Replacing'
    BY <1>0, <2>1 DEF PairTypes, Replacing, WizardSteps
  <2>3. MadeForAReason'
    BY <1>0, <2>1 DEF MadeForAReason, NewestUsed, PairTypes
  <2>4. UpIsFlag' /\ Wizard!ThreadKnows'
    BY <1>0, <2>1 DEF UpIsFlag, Wizard!ThreadKnows
  <2>5. QED
    BY <2>2, <2>3, <2>4 DEF WizardInv
<1>5. ASSUME Wizard!ReplaceCert PROVE WizardInv'
  <2>1. /\ step = "cert" /\ step' = "use" /\ cert' = made
        /\ UNCHANGED <<key, made, good, up, served, fingerprint, failures, changes>>
    BY <1>5 DEF Wizard!ReplaceCert, Wizard!Goto, Wizard!bounds
  <2>2. PairTypes' /\ Replacing'
    BY <1>0, <2>1 DEF PairTypes, Replacing, WizardSteps
  <2>3. MadeForAReason'
    BY <1>0, <2>1 DEF MadeForAReason, NewestUsed, PairTypes, Replacing
  <2>4. UpIsFlag' /\ Wizard!ThreadKnows'
    BY <1>0, <2>1 DEF UpIsFlag, Wizard!ThreadKnows
  <2>5. QED
    BY <2>2, <2>3, <2>4 DEF WizardInv
<1>6. ASSUME Wizard!Use PROVE WizardInv'
  <2>1. /\ step = "use" /\ step' \in {"idle", "load"}
        /\ UNCHANGED <<key, cert, made, good, up, served, fingerprint, failures, changes>>
    BY <1>6 DEF Wizard!Use, Wizard!files, Wizard!bounds
  <2>2. PairTypes' /\ Replacing'
    BY <1>0, <2>1 DEF PairTypes, Replacing, WizardSteps
  <2>3. MadeForAReason'
    BY <1>0, <2>1 DEF MadeForAReason, NewestUsed, PairTypes
  <2>4. UpIsFlag' /\ Wizard!ThreadKnows'
    BY <1>0, <2>1 DEF UpIsFlag, Wizard!ThreadKnows
  <2>5. QED
    BY <2>2, <2>3, <2>4 DEF WizardInv
<1>7. ASSUME Wizard!Load PROVE WizardInv'
  <2>1. /\ step = "load" /\ step' = "idle" /\ up' = TRUE /\ served' = cert /\ fingerprint' = cert
        /\ UNCHANGED <<key, cert, made, good, failures, changes>>
    BY <1>7 DEF Wizard!Load, Wizard!Goto, Wizard!files, Wizard!bounds
  <2>2. PairTypes' /\ Replacing'
    BY <1>0, <2>1 DEF PairTypes, Replacing, WizardSteps
  <2>3. MadeForAReason'
    BY <1>0, <2>1 DEF MadeForAReason, NewestUsed, PairTypes
  <2>4. UpIsFlag'
    BY <2>1, Zenon DEF UpIsFlag
  <2>5. Wizard!ThreadKnows'
    BY <2>1 DEF Wizard!ThreadKnows
  <2>6. QED
    BY <2>2, <2>3, <2>4, <2>5 DEF WizardInv
<1>8. ASSUME Wizard!Fail \/ Wizard!Crash PROVE WizardInv'
  <2>1. /\ step' \in {"idle", "down"} /\ failures < MaxFailures /\ failures' = failures + 1
        /\ UNCHANGED <<key, cert, made, good, changes>>
        /\ UNCHANGED <<served, fingerprint>> \/ (served' = 0 /\ fingerprint' = 0)
    BY <1>8 DEF Wizard!Fail, Wizard!Crash, Wizard!files
  <2>2. PairTypes' /\ Replacing'
    BY <1>0, <2>1 DEF PairTypes, Replacing, WizardSteps
  <2>3. MadeForAReason'
    BY <1>0, <2>1 DEF MadeForAReason, NewestUsed, PairTypes
  <2>4. UpIsFlag'
    <3>1. UNCHANGED up \/ up' = FALSE
      BY <1>8 DEF Wizard!Fail, Wizard!Crash
    <3>2. QED
      BY <1>0, <3>1, Zenon DEF UpIsFlag
  <2>5. Wizard!ThreadKnows'
    BY <1>0, <2>1 DEF Wizard!ThreadKnows
  <2>6. QED
    BY <2>2, <2>3, <2>4, <2>5 DEF WizardInv
<1>9. ASSUME Wizard!Change PROVE WizardInv'
  <2>1. /\ changes < MaxChanges /\ changes' = changes + 1 /\ good' \subseteq 1..made
        /\ UNCHANGED <<key, cert, made, step, up, served, fingerprint, failures>>
    BY <1>9 DEF Wizard!Change, Wizard!files
  <2>2. PairTypes' /\ Replacing'
    BY <1>0, <2>1 DEF PairTypes, Replacing
  <2>3. MadeForAReason'
    BY <1>0, <2>1 DEF MadeForAReason, NewestUsed, PairTypes
  <2>4. UpIsFlag' /\ Wizard!ThreadKnows'
    BY <1>0, <2>1 DEF UpIsFlag, Wizard!ThreadKnows
  <2>5. QED
    BY <2>2, <2>3, <2>4 DEF WizardInv
<1>10. ASSUME Wizard!CheckFails PROVE WizardInv'
  <2>1. /\ step = "ensure" /\ step' = "make" /\ failures < MaxFailures /\ failures' = failures + 1
        /\ UNCHANGED <<key, cert, made, good, up, served, fingerprint, changes>>
    BY <1>10 DEF Wizard!CheckFails, Wizard!Goto, Wizard!files
  <2>2. PairTypes' /\ Replacing'
    BY <1>0, <2>1 DEF PairTypes, Replacing, WizardSteps
  <2>3. MadeForAReason'
    BY <1>0, <2>1 DEF MadeForAReason, NewestUsed, PairTypes
  <2>4. UpIsFlag' /\ Wizard!ThreadKnows'
    BY <1>0, <2>1 DEF UpIsFlag, Wizard!ThreadKnows
  <2>5. QED
    BY <2>2, <2>3, <2>4 DEF WizardInv
<1>11. ASSUME UNCHANGED Wizard!vars PROVE WizardInv'
  <2>1. UNCHANGED <<key, cert, made, good, step, up, served, fingerprint, failures, changes>>
    BY <1>11 DEF Wizard!vars, Wizard!files, Wizard!bounds
  <2>2. PairTypes' /\ Replacing'
    BY <1>0, <2>1 DEF PairTypes, Replacing
  <2>3. MadeForAReason'
    BY <1>0, <2>1 DEF MadeForAReason, NewestUsed
  <2>4. UpIsFlag' /\ Wizard!ThreadKnows'
    BY <1>0, <2>1 DEF UpIsFlag, Wizard!ThreadKnows
  <2>5. QED
    BY <2>2, <2>3, <2>4 DEF WizardInv
<1>12. QED
  BY <1>1, <1>2, <1>3, <1>4, <1>5, <1>6, <1>7, <1>8, <1>9, <1>10, <1>11 DEF Wizard!Next, Wizard!Round

\* However many writes and loads fail and wherever the process dies: what the thread
\* believes is served is served, a pair is loaded only when its two files belong
\* together, and no more pairs are made than changes and failures ask for
\* (ensure_tls_certificate, _maintain_tls_certificate).
THEOREM PairsBelongTogether ==
    ASSUME WizardAssumption
    PROVE  Wizard!Spec => [](Wizard!TypeOK /\ Wizard!ThreadKnows /\ Wizard!LoadsAPair)
<1>1. Wizard!Init => WizardInv
  <2> SUFFICES ASSUME Wizard!Init PROVE WizardInv
    OBVIOUS
  <2>1. /\ key = 0 /\ cert = 0 /\ good = {} /\ made = 0 /\ step = "new" /\ up = FALSE
        /\ served = 0 /\ fingerprint = 0 /\ failures = 0 /\ changes = 0
    BY DEF Wizard!Init
  <2>2. PairTypes /\ Replacing /\ Wizard!ThreadKnows
    BY <2>1 DEF PairTypes, Replacing, Wizard!ThreadKnows, WizardSteps, WizardAssumption
  <2>3. MadeForAReason
    BY <2>1 DEF MadeForAReason, NewestUsed
  <2>4. UpIsFlag
    BY <2>1, Zenon DEF UpIsFlag
  <2>5. QED
    BY <2>2, <2>3, <2>4 DEF WizardInv
<1>2. WizardInv /\ [Wizard!Next]_(Wizard!vars) => WizardInv'
  BY WizardStep
<1>3. WizardInv => Wizard!TypeOK /\ Wizard!ThreadKnows /\ Wizard!LoadsAPair
  <2> SUFFICES ASSUME WizardInv
               PROVE  Wizard!TypeOK /\ Wizard!ThreadKnows /\ Wizard!LoadsAPair
    OBVIOUS
  <2>1. PairTypes /\ UpIsFlag /\ Replacing /\ MadeForAReason /\ Wizard!ThreadKnows
    BY DEF WizardInv
  <2>2. made \in 0..(MaxChanges + MaxFailures + 1)
    BY <2>1 DEF PairTypes, MadeForAReason, WizardAssumption
  <2>3. {key, cert, made, served, fingerprint} \subseteq 0..(MaxChanges + MaxFailures + 1)
    BY <2>1, <2>2 DEF PairTypes, WizardAssumption
  <2>4. good \subseteq 1..made /\ step \in WizardSteps
        /\ failures \in 0..MaxFailures /\ changes \in 0..MaxChanges
    BY <2>1 DEF PairTypes
  <2>5. up \in BOOLEAN
    BY <2>1 DEF UpIsFlag
  <2>6. Wizard!TypeOK
    BY <2>3, <2>4, <2>5 DEF Wizard!TypeOK, WizardSteps
  <2>7. QED
    BY <2>1, <2>6 DEF Replacing, Wizard!LoadsAPair
<1>4. QED
  BY <1>1, <1>2, <1>3, PTL DEF Wizard!Spec

(***************************************************************************)
(* The upgrade in place                                                    *)
(***************************************************************************)
\* What an upgrade is about to overwrite has a backup, and no backup is overwritten.
UpgradeInv ==
    /\ Upgrading!NothingLost
    /\ writing # "none" => copied # None
    /\ writing = "write" => copied \in named \cup {bak}
    /\ file.text # None /\ None \notin replaced

\* Every text that an upgrade has overwritten is still in a backup, through any number
\* of upgrades, crashes and restored texts (_secure_backup, upgrade_config).
THEOREM OldTextsAreKept ==
    ASSUME None \notin Texts
    PROVE  Upgrading!Spec => []Upgrading!NothingLost
<1>1. Upgrading!Init => UpgradeInv
  BY DEF Upgrading!Init, UpgradeInv, Upgrading!NothingLost
<1>2. UpgradeInv /\ [Upgrading!Next]_(Upgrading!vars) => UpgradeInv'
  <2> SUFFICES ASSUME UpgradeInv, [Upgrading!Next]_(Upgrading!vars)
               PROVE  UpgradeInv'
    OBVIOUS
  <2> USE DEF UpgradeInv, Upgrading!NothingLost
  <2>1. CASE Upgrading!Read
    BY <2>1 DEF Upgrading!Read
  <2>2. CASE Upgrading!Backup
    BY <2>2 DEF Upgrading!Backup
  <2>3. CASE Upgrading!Write
    BY <2>3 DEF Upgrading!Write
  <2>4. CASE Upgrading!Dies
    BY <2>4 DEF Upgrading!Dies
  <2>5. CASE Upgrading!Restore
    BY <2>5 DEF Upgrading!Restore
  <2>6. CASE UNCHANGED Upgrading!vars
    BY <2>6 DEF Upgrading!vars
  <2>7. QED
    BY <2>1, <2>2, <2>3, <2>4, <2>5, <2>6 DEF Upgrading!Next
<1>3. UpgradeInv => Upgrading!NothingLost
  BY DEF UpgradeInv
<1>4. QED
  BY <1>1, <1>2, <1>3, PTL DEF Upgrading!Spec

(***************************************************************************)
(* The migration                                                           *)
(***************************************************************************)
\* A session was verified for one camera; "none" and "unbound" are nothing else.
MigrationAssumption ==
    /\ Owner \in [Tokens -> Cameras] /\ Legacy # None /\ Fresh # None
    /\ None \notin Tokens /\ None \notin Cameras /\ "unbound" \notin Cameras
    /\ None \notin [token : Tokens \cup {None}, serial : Serials]

\* Where the migration is, and where the import is.
MigrateTools == {"dropToken", "dropAuth", "marker", "token", "auth", "config", "own",
                 "undo", "undoToken", "undoAuth", "undoMarker"}
ImportTools == {"importToken", "importAuth", "importOwn",
                "undoImport", "undoImportToken", "undoImportAuth"}

\* What a run has read belongs together.
ReadTogether ==
    /\ source \in Migrating!Sources /\ serial \in Serials
    /\ tool \in {"none", "finish"} \cup MigrateTools \cup ImportTools
    /\ tool \in MigrateTools =>
          /\ plan.by = "migrate" /\ plan.token \in Tokens \cup {None} /\ plan.serial \in Serials
          /\ plan.bound \in Cameras =>
                plan.token \in Tokens /\ Owner[plan.token] = plan.bound
    /\ tool \in ImportTools => plan.by = "import" /\ plan.token \in Tokens
                               /\ plan.bound = "unbound"

\* How far each write has got, read off where the tool is.
Progress ==
    /\ tool \in MigrateTools \cup ImportTools => ~used
    /\ used => config # None
    /\ tool \in {"dropToken", "dropAuth", "marker", "token", "auth", "config", "undoToken",
                 "undoAuth", "undoMarker", "undoImportToken", "undoImportAuth"} => config = None
    /\ tool \in {"importToken", "importAuth", "importOwn", "undoImport", "own", "finish"}
          => config # None
    /\ tool \in {"marker", "undoMarker"} => token = None /\ auth = None
    /\ tool \in {"dropAuth", "undoAuth", "undoImportAuth"} => token = None
    /\ tool \in {"token", "auth", "config", "own", "undo", "undoToken", "undoAuth", "undoMarker"}
          => marker # None /\ marker.token = plan.token
    /\ tool = "auth" => plan.token # None /\ token = plan.token
    /\ tool \in {"config", "own"} /\ plan.token # None => token = plan.token /\ auth = plan.bound
    /\ tool \in ImportTools => auth \notin Cameras

\* What an interrupted run has left belongs to what its marker names, and nothing is
\* left without the marker: an import that died while it was undone apart.
LeftWithMarker ==
    /\ marker # None /\ ~used /\ auth \in Cameras
          => marker.token \in Tokens /\ Owner[marker.token] = auth
    /\ marker # None /\ ~used /\ ~torn /\ tool \notin ImportTools
         /\ (config = None \/ tool \in {"own", "undo"}) => token \in {None, marker.token}
    /\ marker = None /\ ~used /\ ~torn /\ tool \notin ImportTools /\ config = None
          => token = None /\ auth = None

MigrationInv ==
    /\ ReadTogether /\ Progress /\ LeftWithMarker
    /\ Migrating!TokenOfItsCamera /\ Migrating!CommitIsLast

LEMMA MigrationStep ==
    ASSUME MigrationAssumption, MigrationInv, [Migrating!Next]_(Migrating!vars)
    PROVE  MigrationInv'
<1> USE DEF MigrationAssumption
<1>0. /\ ReadTogether /\ Progress /\ LeftWithMarker
      /\ Migrating!TokenOfItsCamera /\ Migrating!CommitIsLast
  BY DEF MigrationInv
<1>1. ASSUME Migrating!SourceChanges PROVE MigrationInv'
  <2>1. /\ tool = "none" /\ source' \in Migrating!Sources /\ serial' \in Serials
        /\ UNCHANGED <<config, token, auth, marker, used, tool, plan, torn, faults>>
    BY <1>1 DEF Migrating!SourceChanges, Migrating!volume
  <2>2. ReadTogether'
    BY <1>0, <2>1 DEF ReadTogether, MigrateTools, ImportTools
  <2>3. Progress'
    BY <1>0, <2>1 DEF Progress, ReadTogether, MigrateTools, ImportTools
  <2>4. LeftWithMarker'
    BY <1>0, <2>1 DEF LeftWithMarker, Progress, ReadTogether, MigrateTools, ImportTools
  <2>5. Migrating!TokenOfItsCamera'
    BY <1>0, <2>1 DEF Migrating!TokenOfItsCamera
  <2>6. Migrating!CommitIsLast'
    BY <1>0, <2>1 DEF Migrating!CommitIsLast
  <2>7. QED
    BY <2>2, <2>3, <2>4, <2>5, <2>6 DEF MigrationInv
<1>2. ASSUME Migrating!Migrate PROVE MigrationInv'
  <2>1. tool = "none" /\ UNCHANGED <<source, serial, config, token, auth, marker, used, torn>>
    BY <1>2 DEF Migrating!Migrate, Migrating!env, Migrating!volume
  <2>2. CASE config # None
    <3>1. UNCHANGED plan /\ tool' \in {"finish", "none"}
      BY <1>2, <2>2 DEF Migrating!Migrate
    <3>2. ReadTogether' /\ Progress' /\ LeftWithMarker'
      BY <1>0, <2>1, <2>2, <3>1
         DEF ReadTogether, Progress, LeftWithMarker, MigrateTools, ImportTools
    <3>3. Migrating!TokenOfItsCamera' /\ Migrating!CommitIsLast'
      BY <1>0, <2>1, <3>1 DEF Migrating!TokenOfItsCamera, Migrating!CommitIsLast
    <3>4. QED
      BY <3>2, <3>3 DEF MigrationInv
  <2>3. CASE config = None /\ Migrating!Refused
    <3>1. UNCHANGED plan /\ tool' = "none"
      BY <1>2, <2>3 DEF Migrating!Migrate
    <3>2. ReadTogether' /\ Progress' /\ LeftWithMarker'
      BY <1>0, <2>1, <3>1 DEF ReadTogether, Progress, LeftWithMarker, MigrateTools, ImportTools
    <3>3. Migrating!TokenOfItsCamera' /\ Migrating!CommitIsLast'
      BY <1>0, <2>1, <3>1 DEF Migrating!TokenOfItsCamera, Migrating!CommitIsLast
    <3>4. QED
      BY <3>2, <3>3 DEF MigrationInv
  <2>4. CASE config = None /\ ~Migrating!Refused
    <3>1. /\ tool' = Migrating!Prepare
          /\ plan' = [by |-> "migrate", token |-> source.token, serial |-> serial,
                      bound |-> IF source.bound = None THEN "unbound" ELSE source.bound]
      BY <1>2, <2>4 DEF Migrating!Migrate, Migrating!Unbound
    <3>2. /\ plan'.by = "migrate" /\ plan'.token = source.token /\ plan'.serial = serial
          /\ plan'.bound = IF source.bound = None THEN "unbound" ELSE source.bound
      BY <3>1
    <3>3. /\ source.token \in Tokens \cup {None} /\ serial \in Serials
          /\ source.bound # None => source.token \in Tokens /\ Owner[source.token] =
             source.bound
      BY <1>0, <2>4 DEF ReadTogether, Migrating!Sources, Migrating!Refused
    <3>4. /\ tool' \in {"none", "token", "dropToken", "marker"} /\ (tool' # "none" => ~used)
          /\ tool' = "token" => marker # None /\ marker.token = source.token
          /\ tool' = "marker" => token = None /\ auth = None
      <4>1. marker = Migrating!Payload => marker.token = source.token
        BY DEF Migrating!Payload
      <4>2. QED
        BY <3>1, <4>1 DEF Migrating!Prepare
    <3>5. ReadTogether'
      BY <1>0, <2>1, <3>2, <3>3, <3>4 DEF ReadTogether, MigrateTools, ImportTools
    <3>6. Progress'
      BY <1>0, <2>1, <2>4, <3>2, <3>4 DEF Progress, MigrateTools, ImportTools
    <3>7. LeftWithMarker'
      BY <1>0, <2>1, <3>4 DEF LeftWithMarker, ImportTools
    <3>8. Migrating!TokenOfItsCamera' /\ Migrating!CommitIsLast'
      BY <1>0, <2>1, <2>4 DEF Migrating!TokenOfItsCamera, Migrating!CommitIsLast
    <3>9. QED
      BY <3>5, <3>6, <3>7, <3>8 DEF MigrationInv
  <2>5. QED
    BY <2>2, <2>3, <2>4
<1>3. ASSUME Migrating!NothingToMigrate PROVE MigrationInv'
  <2>1. /\ tool = "none"
        /\ UNCHANGED <<source, serial, config, token, auth, marker, used, tool, plan, torn,
                       faults>>
    BY <1>3 DEF Migrating!NothingToMigrate, Migrating!env, Migrating!volume
  <2>2. ReadTogether'
    BY <1>0, <2>1 DEF ReadTogether, MigrateTools, ImportTools
  <2>3. Progress'
    BY <1>0, <2>1 DEF Progress, ReadTogether, MigrateTools, ImportTools
  <2>4. LeftWithMarker'
    BY <1>0, <2>1 DEF LeftWithMarker, Progress, ReadTogether, MigrateTools, ImportTools
  <2>5. Migrating!TokenOfItsCamera'
    BY <1>0, <2>1 DEF Migrating!TokenOfItsCamera
  <2>6. Migrating!CommitIsLast'
    BY <1>0, <2>1 DEF Migrating!CommitIsLast
  <2>7. QED
    BY <2>2, <2>3, <2>4, <2>5, <2>6 DEF MigrationInv
<1>4. ASSUME Migrating!DropToken PROVE MigrationInv'
  <2>1. /\ tool = "dropToken" /\ tool' = "dropAuth"
        /\ token' = None
        /\ UNCHANGED <<source, serial, config, auth, marker, used, plan, torn, faults>>
    BY <1>4 DEF Migrating!DropToken, Migrating!Goto, Migrating!Rest, Migrating!env
  <2>2. ReadTogether'
    BY <1>0, <2>1 DEF ReadTogether, MigrateTools, ImportTools
  <2>3. Progress'
    BY <1>0, <2>1 DEF Progress, ReadTogether, MigrateTools, ImportTools
  <2>4. LeftWithMarker'
    BY <1>0, <2>1 DEF LeftWithMarker, Progress, ReadTogether, MigrateTools, ImportTools
  <2>5. Migrating!TokenOfItsCamera'
    BY <1>0, <2>1 DEF Migrating!TokenOfItsCamera, Progress, LeftWithMarker, ReadTogether,
       MigrateTools, ImportTools
  <2>6. Migrating!CommitIsLast'
    BY <1>0, <2>1 DEF Migrating!CommitIsLast, Progress, LeftWithMarker, ReadTogether,
       MigrateTools, ImportTools
  <2>7. QED
    BY <2>2, <2>3, <2>4, <2>5, <2>6 DEF MigrationInv
<1>5. ASSUME Migrating!DropAuth PROVE MigrationInv'
  <2>1. /\ tool = "dropAuth" /\ tool' = "marker"
        /\ auth' = None
        /\ UNCHANGED <<source, serial, config, token, marker, used, plan, torn, faults>>
    BY <1>5 DEF Migrating!DropAuth, Migrating!Goto, Migrating!Rest, Migrating!env
  <2>2. ReadTogether'
    BY <1>0, <2>1 DEF ReadTogether, MigrateTools, ImportTools
  <2>3. Progress'
    BY <1>0, <2>1 DEF Progress, ReadTogether, MigrateTools, ImportTools
  <2>4. LeftWithMarker'
    BY <1>0, <2>1 DEF LeftWithMarker, Progress, ReadTogether, MigrateTools, ImportTools
  <2>5. Migrating!TokenOfItsCamera'
    BY <1>0, <2>1 DEF Migrating!TokenOfItsCamera, Progress, LeftWithMarker, ReadTogether,
       MigrateTools, ImportTools
  <2>6. Migrating!CommitIsLast'
    BY <1>0, <2>1 DEF Migrating!CommitIsLast, Progress, LeftWithMarker, ReadTogether,
       MigrateTools, ImportTools
  <2>7. QED
    BY <2>2, <2>3, <2>4, <2>5, <2>6 DEF MigrationInv
<1>6. ASSUME Migrating!WriteMarker PROVE MigrationInv'
  <2>1. /\ tool = "marker" /\ tool' = "token"
        /\ marker' = [token |-> plan.token, serial |-> plan.serial]
        /\ UNCHANGED <<source, serial, config, token, auth, used, plan, torn, faults>>
    BY <1>6 DEF Migrating!WriteMarker, Migrating!Goto, Migrating!Rest, Migrating!env
  <2>2. marker' # None /\ marker'.token = plan.token
    BY <1>0, <2>1 DEF ReadTogether, MigrateTools
  <2>3. ReadTogether'
    BY <1>0, <2>1, <2>2 DEF ReadTogether, MigrateTools, ImportTools
  <2>4. Progress'
    BY <1>0, <2>1, <2>2 DEF Progress, ReadTogether, MigrateTools, ImportTools
  <2>5. LeftWithMarker'
    BY <1>0, <2>1, <2>2 DEF LeftWithMarker, Progress, ReadTogether, MigrateTools, ImportTools
  <2>6. Migrating!TokenOfItsCamera'
    BY <1>0, <2>1 DEF Migrating!TokenOfItsCamera
  <2>7. Migrating!CommitIsLast'
    BY <1>0, <2>1 DEF Migrating!CommitIsLast
  <2>8. QED
    BY <2>3, <2>4, <2>5, <2>6, <2>7 DEF MigrationInv
<1>7. ASSUME Migrating!WriteToken PROVE MigrationInv'
  <2>1. /\ tool = "token" /\ tool' = (IF plan.token = None THEN "config" ELSE "auth")
        /\ token' = (IF plan.token = None THEN token ELSE plan.token)
        /\ UNCHANGED <<source, serial, config, auth, marker, used, plan, torn, faults>>
    BY <1>7 DEF Migrating!WriteToken, Migrating!Goto, Migrating!Rest, Migrating!env
  <2>2. ReadTogether'
    BY <1>0, <2>1 DEF ReadTogether, MigrateTools, ImportTools
  <2>3. Progress'
    BY <1>0, <2>1 DEF Progress, ReadTogether, MigrateTools, ImportTools
  <2>4. LeftWithMarker'
    BY <1>0, <2>1 DEF LeftWithMarker, Progress, ReadTogether, MigrateTools, ImportTools
  <2>5. Migrating!TokenOfItsCamera'
    BY <1>0, <2>1 DEF Migrating!TokenOfItsCamera, Progress, LeftWithMarker, ReadTogether,
       MigrateTools, ImportTools
  <2>6. Migrating!CommitIsLast'
    BY <1>0, <2>1 DEF Migrating!CommitIsLast, Progress, LeftWithMarker, ReadTogether,
       MigrateTools, ImportTools
  <2>7. QED
    BY <2>2, <2>3, <2>4, <2>5, <2>6 DEF MigrationInv
<1>8. ASSUME Migrating!WriteAuth PROVE MigrationInv'
  <2>1. /\ tool = "auth" /\ tool' = "config"
        /\ auth' = plan.bound
        /\ UNCHANGED <<source, serial, config, token, marker, used, plan, torn, faults>>
    BY <1>8 DEF Migrating!WriteAuth, Migrating!Goto, Migrating!Rest, Migrating!env
  <2>2. ReadTogether'
    BY <1>0, <2>1 DEF ReadTogether, MigrateTools, ImportTools
  <2>3. Progress'
    BY <1>0, <2>1 DEF Progress, ReadTogether, MigrateTools, ImportTools
  <2>4. LeftWithMarker'
    BY <1>0, <2>1 DEF LeftWithMarker, Progress, ReadTogether, MigrateTools, ImportTools
  <2>5. Migrating!TokenOfItsCamera'
    BY <1>0, <2>1 DEF Migrating!TokenOfItsCamera, Progress, LeftWithMarker, ReadTogether,
       MigrateTools, ImportTools
  <2>6. Migrating!CommitIsLast'
    BY <1>0, <2>1 DEF Migrating!CommitIsLast, Progress, LeftWithMarker, ReadTogether,
       MigrateTools, ImportTools
  <2>7. QED
    BY <2>2, <2>3, <2>4, <2>5, <2>6 DEF MigrationInv
<1>9. ASSUME Migrating!WriteConfig PROVE MigrationInv'
  <2>1. /\ tool = "config" /\ tool' = "own"
        /\ config' = Legacy
        /\ UNCHANGED <<source, serial, token, auth, marker, used, plan, torn, faults>>
    BY <1>9 DEF Migrating!WriteConfig, Migrating!Goto, Migrating!Rest, Migrating!env
  <2>2. ReadTogether'
    BY <1>0, <2>1 DEF ReadTogether, MigrateTools, ImportTools
  <2>3. Progress'
    BY <1>0, <2>1 DEF Progress, ReadTogether, MigrateTools, ImportTools
  <2>4. LeftWithMarker'
    BY <1>0, <2>1 DEF LeftWithMarker, Progress, ReadTogether, MigrateTools, ImportTools
  <2>5. Migrating!TokenOfItsCamera'
    BY <1>0, <2>1 DEF Migrating!TokenOfItsCamera
  <2>6. Migrating!CommitIsLast'
    BY <1>0, <2>1 DEF Migrating!CommitIsLast, Progress, LeftWithMarker, ReadTogether,
       MigrateTools, ImportTools
  <2>7. QED
    BY <2>2, <2>3, <2>4, <2>5, <2>6 DEF MigrationInv
<1>10. ASSUME Migrating!Own PROVE MigrationInv'
  <2>1. /\ tool \in {"own", "finish"} /\ tool' = "none" /\ marker' = None
        /\ UNCHANGED <<source, serial, config, token, auth, used, plan, torn, faults>>
    BY <1>10 DEF Migrating!Own, Migrating!Goto, Migrating!Rest, Migrating!env
  <2>2. ReadTogether'
    BY <1>0, <2>1 DEF ReadTogether, MigrateTools, ImportTools
  <2>3. Progress'
    BY <1>0, <2>1 DEF Progress, ReadTogether, MigrateTools, ImportTools
  <2>4. LeftWithMarker'
    BY <1>0, <2>1 DEF LeftWithMarker, Progress, ReadTogether, MigrateTools, ImportTools
  <2>5. Migrating!TokenOfItsCamera'
    BY <1>0, <2>1 DEF Migrating!TokenOfItsCamera
  <2>6. Migrating!CommitIsLast'
    BY <1>0, <2>1 DEF Migrating!CommitIsLast
  <2>7. QED
    BY <2>2, <2>3, <2>4, <2>5, <2>6 DEF MigrationInv
<1>11. ASSUME Migrating!Import PROVE MigrationInv'
  <2>1. /\ tool = "none" /\ config = None /\ token = None /\ auth = None /\ source.token # None
        /\ tool' = "importToken" /\ config' = Legacy
        /\ plan' = [by |-> "import", token |-> source.token, serial |-> None, bound |->
           "unbound"]
        /\ UNCHANGED <<source, serial, token, auth, marker, used, torn, faults>>
    BY <1>11 DEF Migrating!Import, Migrating!Unbound, Migrating!env
  <2>2. source.token \in Tokens
    BY <1>0, <2>1 DEF ReadTogether, Migrating!Sources
  <2>3. plan'.by = "import" /\ plan'.token = source.token /\ plan'.bound = "unbound"
    BY <2>1
  <2>4. ReadTogether'
    BY <1>0, <2>1, <2>2, <2>3 DEF ReadTogether, MigrateTools, ImportTools
  <2>5. Progress'
    BY <1>0, <2>1, <2>2, <2>3 DEF Progress, ReadTogether, MigrateTools, ImportTools
  <2>6. LeftWithMarker'
    BY <1>0, <2>1, <2>2, <2>3 DEF LeftWithMarker, Progress, ReadTogether, MigrateTools,
       ImportTools
  <2>7. Migrating!TokenOfItsCamera'
    BY <1>0, <2>1 DEF Migrating!TokenOfItsCamera
  <2>8. Migrating!CommitIsLast'
    BY <1>0, <2>1, <2>2, <2>3 DEF Migrating!CommitIsLast, Progress, LeftWithMarker,
       ReadTogether, MigrateTools, ImportTools
  <2>9. QED
    BY <2>4, <2>5, <2>6, <2>7, <2>8 DEF MigrationInv
<1>12. ASSUME Migrating!ImportToken PROVE MigrationInv'
  <2>1. /\ tool = "importToken" /\ tool' = "importAuth"
        /\ token' = plan.token
        /\ UNCHANGED <<source, serial, config, auth, marker, used, plan, torn, faults>>
    BY <1>12 DEF Migrating!ImportToken, Migrating!Goto, Migrating!Rest, Migrating!env
  <2>2. ReadTogether'
    BY <1>0, <2>1 DEF ReadTogether, MigrateTools, ImportTools
  <2>3. Progress'
    BY <1>0, <2>1 DEF Progress, ReadTogether, MigrateTools, ImportTools
  <2>4. LeftWithMarker'
    BY <1>0, <2>1 DEF LeftWithMarker, Progress, ReadTogether, MigrateTools, ImportTools
  <2>5. Migrating!TokenOfItsCamera'
    BY <1>0, <2>1 DEF Migrating!TokenOfItsCamera, Progress, LeftWithMarker, ReadTogether,
       MigrateTools, ImportTools
  <2>6. Migrating!CommitIsLast'
    BY <1>0, <2>1 DEF Migrating!CommitIsLast, Progress, LeftWithMarker, ReadTogether,
       MigrateTools, ImportTools
  <2>7. QED
    BY <2>2, <2>3, <2>4, <2>5, <2>6 DEF MigrationInv
<1>13. ASSUME Migrating!ImportAuth PROVE MigrationInv'
  <2>1. /\ tool = "importAuth" /\ tool' = "importOwn"
        /\ auth' = plan.bound
        /\ UNCHANGED <<source, serial, config, token, marker, used, plan, torn, faults>>
    BY <1>13 DEF Migrating!ImportAuth, Migrating!Goto, Migrating!Rest, Migrating!env
  <2>2. ReadTogether'
    BY <1>0, <2>1 DEF ReadTogether, MigrateTools, ImportTools
  <2>3. Progress'
    BY <1>0, <2>1 DEF Progress, ReadTogether, MigrateTools, ImportTools
  <2>4. LeftWithMarker'
    BY <1>0, <2>1 DEF LeftWithMarker, Progress, ReadTogether, MigrateTools, ImportTools
  <2>5. Migrating!TokenOfItsCamera'
    BY <1>0, <2>1 DEF Migrating!TokenOfItsCamera, Progress, LeftWithMarker, ReadTogether,
       MigrateTools, ImportTools
  <2>6. Migrating!CommitIsLast'
    BY <1>0, <2>1 DEF Migrating!CommitIsLast, Progress, LeftWithMarker, ReadTogether,
       MigrateTools, ImportTools
  <2>7. QED
    BY <2>2, <2>3, <2>4, <2>5, <2>6 DEF MigrationInv
<1>14. ASSUME Migrating!ImportOwn PROVE MigrationInv'
  <2>1. /\ tool = "importOwn" /\ tool' = "none"
        /\ UNCHANGED <<source, serial, config, token, auth, marker, used, plan, torn, faults>>
    BY <1>14 DEF Migrating!ImportOwn, Migrating!Goto, Migrating!Rest, Migrating!env,
       Migrating!volume
  <2>2. ReadTogether'
    BY <1>0, <2>1 DEF ReadTogether, MigrateTools, ImportTools
  <2>3. Progress'
    BY <1>0, <2>1 DEF Progress, ReadTogether, MigrateTools, ImportTools
  <2>4. LeftWithMarker'
    BY <1>0, <2>1 DEF LeftWithMarker, Progress, ReadTogether, MigrateTools, ImportTools
  <2>5. Migrating!TokenOfItsCamera'
    BY <1>0, <2>1 DEF Migrating!TokenOfItsCamera
  <2>6. Migrating!CommitIsLast'
    BY <1>0, <2>1 DEF Migrating!CommitIsLast
  <2>7. QED
    BY <2>2, <2>3, <2>4, <2>5, <2>6 DEF MigrationInv
<1>15. ASSUME Migrating!Fail PROVE MigrationInv'
  <2>1. /\ UNCHANGED <<source, serial, config, token, auth, marker, used, plan, torn>>
        /\ \/ tool \in {"dropToken", "dropAuth", "marker", "finish"} /\ tool' = "none"
           \/ tool \in {"token", "auth", "config", "own"} /\ tool' = "undo"
           \/ tool \in {"importToken", "importAuth", "importOwn"} /\ tool' = "undoImport"
    BY <1>15 DEF Migrating!Fail, Migrating!env, Migrating!volume
  <2>2. ReadTogether'
    BY <1>0, <2>1 DEF ReadTogether, MigrateTools, ImportTools
  <2>3. Progress'
    BY <1>0, <2>1 DEF Progress, ReadTogether, MigrateTools, ImportTools
  <2>4. LeftWithMarker'
    BY <1>0, <2>1 DEF LeftWithMarker, Progress, ReadTogether, MigrateTools, ImportTools
  <2>5. Migrating!TokenOfItsCamera'
    BY <1>0, <2>1 DEF Migrating!TokenOfItsCamera
  <2>6. Migrating!CommitIsLast'
    BY <1>0, <2>1 DEF Migrating!CommitIsLast
  <2>7. QED
    BY <2>2, <2>3, <2>4, <2>5, <2>6 DEF MigrationInv
<1>16. ASSUME Migrating!UndoConfig PROVE MigrationInv'
  <2>1. /\ \/ tool = "undo" /\ tool' = "undoToken"
           \/ tool = "undoImport" /\ tool' = "undoImportToken"
        /\ config' = None
        /\ UNCHANGED <<source, serial, token, auth, marker, used, plan, torn, faults>>
    BY <1>16 DEF Migrating!UndoConfig, Migrating!Goto, Migrating!Rest, Migrating!env
  <2>2. ReadTogether'
    BY <1>0, <2>1 DEF ReadTogether, MigrateTools, ImportTools
  <2>3. Progress'
    BY <1>0, <2>1 DEF Progress, ReadTogether, MigrateTools, ImportTools
  <2>4. LeftWithMarker'
    BY <1>0, <2>1 DEF LeftWithMarker, Progress, ReadTogether, MigrateTools, ImportTools
  <2>5. Migrating!TokenOfItsCamera'
    BY <1>0, <2>1 DEF Migrating!TokenOfItsCamera
  <2>6. Migrating!CommitIsLast'
    BY <1>0, <2>1 DEF Migrating!CommitIsLast, Progress, LeftWithMarker, ReadTogether,
       MigrateTools, ImportTools
  <2>7. QED
    BY <2>2, <2>3, <2>4, <2>5, <2>6 DEF MigrationInv
<1>17. ASSUME Migrating!UndoToken PROVE MigrationInv'
  <2>1. /\ \/ tool = "undoToken" /\ tool' = "undoAuth"
           \/ tool = "undoImportToken" /\ tool' = "undoImportAuth"
        /\ token' = None
        /\ UNCHANGED <<source, serial, config, auth, marker, used, plan, torn, faults>>
    BY <1>17 DEF Migrating!UndoToken, Migrating!Goto, Migrating!Rest, Migrating!env
  <2>2. ReadTogether'
    BY <1>0, <2>1 DEF ReadTogether, MigrateTools, ImportTools
  <2>3. Progress'
    BY <1>0, <2>1 DEF Progress, ReadTogether, MigrateTools, ImportTools
  <2>4. LeftWithMarker'
    BY <1>0, <2>1 DEF LeftWithMarker, Progress, ReadTogether, MigrateTools, ImportTools
  <2>5. Migrating!TokenOfItsCamera'
    BY <1>0, <2>1 DEF Migrating!TokenOfItsCamera, Progress, LeftWithMarker, ReadTogether,
       MigrateTools, ImportTools
  <2>6. Migrating!CommitIsLast'
    BY <1>0, <2>1 DEF Migrating!CommitIsLast, Progress, LeftWithMarker, ReadTogether,
       MigrateTools, ImportTools
  <2>7. QED
    BY <2>2, <2>3, <2>4, <2>5, <2>6 DEF MigrationInv
<1>18. ASSUME Migrating!UndoAuth PROVE MigrationInv'
  <2>1. /\ \/ tool = "undoAuth" /\ tool' = "undoMarker"
           \/ tool = "undoImportAuth" /\ tool' = "none"
        /\ auth' = None
        /\ UNCHANGED <<source, serial, config, token, marker, used, plan, torn, faults>>
    BY <1>18 DEF Migrating!UndoAuth, Migrating!Goto, Migrating!Rest, Migrating!env
  <2>2. ReadTogether'
    BY <1>0, <2>1 DEF ReadTogether, MigrateTools, ImportTools
  <2>3. Progress'
    BY <1>0, <2>1 DEF Progress, ReadTogether, MigrateTools, ImportTools
  <2>4. LeftWithMarker'
    BY <1>0, <2>1 DEF LeftWithMarker, Progress, ReadTogether, MigrateTools, ImportTools
  <2>5. Migrating!TokenOfItsCamera'
    BY <1>0, <2>1 DEF Migrating!TokenOfItsCamera, Progress, LeftWithMarker, ReadTogether,
       MigrateTools, ImportTools
  <2>6. Migrating!CommitIsLast'
    BY <1>0, <2>1 DEF Migrating!CommitIsLast, Progress, LeftWithMarker, ReadTogether,
       MigrateTools, ImportTools
  <2>7. QED
    BY <2>2, <2>3, <2>4, <2>5, <2>6 DEF MigrationInv
<1>19. ASSUME Migrating!UndoMarker PROVE MigrationInv'
  <2>1. /\ tool = "undoMarker" /\ tool' = "none"
        /\ marker' = None
        /\ UNCHANGED <<source, serial, config, token, auth, used, plan, torn, faults>>
    BY <1>19 DEF Migrating!UndoMarker, Migrating!Goto, Migrating!Rest, Migrating!env
  <2>2. ReadTogether'
    BY <1>0, <2>1 DEF ReadTogether, MigrateTools, ImportTools
  <2>3. Progress'
    BY <1>0, <2>1 DEF Progress, ReadTogether, MigrateTools, ImportTools
  <2>4. LeftWithMarker'
    BY <1>0, <2>1 DEF LeftWithMarker, Progress, ReadTogether, MigrateTools, ImportTools
  <2>5. Migrating!TokenOfItsCamera'
    BY <1>0, <2>1 DEF Migrating!TokenOfItsCamera
  <2>6. Migrating!CommitIsLast'
    BY <1>0, <2>1 DEF Migrating!CommitIsLast
  <2>7. QED
    BY <2>2, <2>3, <2>4, <2>5, <2>6 DEF MigrationInv
<1>20. ASSUME Migrating!Crash PROVE MigrationInv'
  <2>1. /\ tool # "none" /\ tool' = "none"
        /\ UNCHANGED <<source, serial, config, token, auth, marker, used, plan>>
        /\ torn' = (torn \/ tool \in {"undoImportToken", "undoImportAuth"})
    BY <1>20 DEF Migrating!Crash, Migrating!env, Migrating!volume
  <2>2. ReadTogether'
    BY <1>0, <2>1 DEF ReadTogether, MigrateTools, ImportTools
  <2>3. Progress'
    BY <1>0, <2>1 DEF Progress, ReadTogether, MigrateTools, ImportTools
  <2>4. LeftWithMarker'
    BY <1>0, <2>1 DEF LeftWithMarker, Progress, ReadTogether, MigrateTools, ImportTools
  <2>5. Migrating!TokenOfItsCamera'
    BY <1>0, <2>1 DEF Migrating!TokenOfItsCamera
  <2>6. Migrating!CommitIsLast'
    BY <1>0, <2>1 DEF Migrating!CommitIsLast
  <2>7. QED
    BY <2>2, <2>3, <2>4, <2>5, <2>6 DEF MigrationInv
<1>21. ASSUME Migrating!BridgeStart PROVE MigrationInv'
  <2>1. /\ tool = "none" /\ used' = TRUE /\ config' = (IF config = None THEN Fresh ELSE config)
        /\ UNCHANGED <<source, serial, token, auth, marker, tool, plan, torn, faults>>
    BY <1>21 DEF Migrating!BridgeStart, Migrating!env
  <2>2. ReadTogether'
    BY <1>0, <2>1 DEF ReadTogether, MigrateTools, ImportTools
  <2>3. Progress'
    BY <1>0, <2>1 DEF Progress, ReadTogether, MigrateTools, ImportTools
  <2>4. LeftWithMarker'
    BY <1>0, <2>1 DEF LeftWithMarker, Progress, ReadTogether, MigrateTools, ImportTools
  <2>5. Migrating!TokenOfItsCamera'
    BY <1>0, <2>1 DEF Migrating!TokenOfItsCamera
  <2>6. Migrating!CommitIsLast'
    BY <1>0, <2>1 DEF Migrating!CommitIsLast, Progress, LeftWithMarker, ReadTogether,
       MigrateTools, ImportTools
  <2>7. QED
    BY <2>2, <2>3, <2>4, <2>5, <2>6 DEF MigrationInv
<1>22. ASSUME NEW t \in Tokens, Migrating!Login(t) PROVE MigrationInv'
  <2>1. /\ used /\ token' = t /\ auth' = Owner[t]
        /\ UNCHANGED <<source, serial, config, marker, used, tool, plan, torn, faults>>
    BY <1>22 DEF Migrating!Login, Migrating!env
  <2>2. ReadTogether'
    BY <1>0, <2>1 DEF ReadTogether, MigrateTools, ImportTools
  <2>3. Progress'
    BY <1>0, <2>1 DEF Progress, ReadTogether, MigrateTools, ImportTools
  <2>4. LeftWithMarker'
    BY <1>0, <2>1 DEF LeftWithMarker, Progress, ReadTogether, MigrateTools, ImportTools
  <2>5. Migrating!TokenOfItsCamera'
    BY <1>0, <2>1 DEF Migrating!TokenOfItsCamera, Progress, LeftWithMarker, ReadTogether,
       MigrateTools, ImportTools
  <2>6. Migrating!CommitIsLast'
    BY <1>0, <2>1 DEF Migrating!CommitIsLast, Progress, LeftWithMarker, ReadTogether,
       MigrateTools, ImportTools
  <2>7. QED
    BY <2>2, <2>3, <2>4, <2>5, <2>6 DEF MigrationInv
<1>23. ASSUME UNCHANGED Migrating!vars PROVE MigrationInv'
  <2>1. /\ UNCHANGED <<source, serial, config, token, auth, marker, used, tool, plan, torn,
                       faults>>
    BY <1>23 DEF Migrating!vars, Migrating!env, Migrating!volume
  <2>2. ReadTogether'
    BY <1>0, <2>1 DEF ReadTogether, MigrateTools, ImportTools
  <2>3. Progress'
    BY <1>0, <2>1 DEF Progress, ReadTogether, MigrateTools, ImportTools
  <2>4. LeftWithMarker'
    BY <1>0, <2>1 DEF LeftWithMarker, Progress, ReadTogether, MigrateTools, ImportTools
  <2>5. Migrating!TokenOfItsCamera'
    BY <1>0, <2>1 DEF Migrating!TokenOfItsCamera
  <2>6. Migrating!CommitIsLast'
    BY <1>0, <2>1 DEF Migrating!CommitIsLast
  <2>7. QED
    BY <2>2, <2>3, <2>4, <2>5, <2>6 DEF MigrationInv
<1>24. QED
  BY <1>1, <1>2, <1>3, <1>4, <1>5, <1>6, <1>7, <1>8, <1>9, <1>10, <1>11, <1>12, <1>13, <1>14,
     <1>15, <1>16, <1>17, <1>18, <1>19, <1>20, <1>21, <1>22, <1>23
     DEF Migrating!Next, Migrating!Step

LEMMA MigrationInvariance ==
    ASSUME MigrationAssumption
    PROVE  Migrating!Spec => []MigrationInv
<1>1. Migrating!Init => MigrationInv
  BY DEF Migrating!Init, MigrationInv, ReadTogether, Progress, LeftWithMarker, MigrateTools,
         ImportTools, Migrating!TokenOfItsCamera, Migrating!CommitIsLast, MigrationAssumption
<1>2. MigrationInv /\ [Migrating!Next]_(Migrating!vars) => MigrationInv'
  BY MigrationStep
<1>3. QED
  BY <1>1, <1>2, PTL DEF Migrating!Spec

\* Whatever sources, tools, failures and crashes came before: a session in the volume
\* is never bound to a camera it was not verified for; a migrated identity is there
\* only with the session and the binding that were read with it; and a volume left
\* half filled lets the next migration in (migrate_legacy_bind_state, import_state).
THEOREM MigrationCommits ==
    ASSUME MigrationAssumption
    PROVE  Migrating!Spec => [](/\ Migrating!TokenOfItsCamera /\ Migrating!CommitIsLast
                                /\ Migrating!NeverStuck)
<1>1. MigrationInv => /\ Migrating!TokenOfItsCamera /\ Migrating!CommitIsLast
                      /\ Migrating!NeverStuck
  BY DEF MigrationInv, LeftWithMarker, ImportTools, Migrating!NeverStuck
<1>2. QED
  BY <1>1, MigrationInvariance, PTL

\* Compose runs the migration before every start: an identity that is there stays but
\* for the run that wrote it, and once the bridge has run nothing but a login changes
\* its session (config_tool.py, _initialize_homekit_config).
THEOREM BridgeKeepsItsIdentity ==
    ASSUME MigrationAssumption
    PROVE  Migrating!Spec => Migrating!BridgeKeepsItsOwn
<1> DEFINE Keeps == /\ tool = "none" /\ config # None => config' = config
                    /\ used /\ <<token, auth>>' # <<token, auth>>
                          => \E t \in Tokens : Migrating!Login(t)
<1>1. ASSUME MigrationInv, Migrating!Next PROVE Keeps
  <2>1. used => tool \in {"none", "finish"}
    BY <1>1 DEF MigrationInv, ReadTogether, Progress, MigrateTools, ImportTools
  <2>2. CASE \/ Migrating!SourceChanges \/ Migrating!Migrate \/ Migrating!NothingToMigrate
             \/ Migrating!Fail \/ Migrating!Crash
    BY <2>2 DEF Migrating!SourceChanges, Migrating!Migrate, Migrating!NothingToMigrate,
                Migrating!Fail, Migrating!Crash, Migrating!volume
  <2>3. CASE Migrating!Import \/ Migrating!BridgeStart
    BY <2>3 DEF Migrating!Import, Migrating!BridgeStart
  <2>4. CASE \E t \in Tokens : Migrating!Login(t)
    BY <2>4 DEF Migrating!Login
  <2>5. CASE \/ Migrating!DropToken \/ Migrating!DropAuth \/ Migrating!WriteMarker
             \/ Migrating!WriteToken \/ Migrating!WriteAuth \/ Migrating!WriteConfig
    BY <2>1, <2>5 DEF Migrating!DropToken, Migrating!DropAuth, Migrating!WriteMarker,
                      Migrating!WriteToken, Migrating!WriteAuth, Migrating!WriteConfig,
                      Migrating!Goto
  <2>6. CASE Migrating!Own
    BY <2>6 DEF Migrating!Own, Migrating!Goto
  <2>7. CASE Migrating!ImportToken \/ Migrating!ImportAuth \/ Migrating!ImportOwn
    BY <2>1, <2>7 DEF Migrating!ImportToken, Migrating!ImportAuth, Migrating!ImportOwn,
                      Migrating!Goto, Migrating!volume
  <2>8. CASE \/ Migrating!UndoConfig \/ Migrating!UndoToken \/ Migrating!UndoAuth
             \/ Migrating!UndoMarker
    BY <2>1, <2>8 DEF Migrating!UndoConfig, Migrating!UndoToken, Migrating!UndoAuth,
                      Migrating!UndoMarker, Migrating!Goto
  <2>9. QED
    BY <1>1, <2>2, <2>3, <2>4, <2>5, <2>6, <2>7, <2>8 DEF Migrating!Next, Migrating!Step
<1>2. MigrationInv /\ [Migrating!Next]_(Migrating!vars) => [Keeps]_(Migrating!vars)
  BY <1>1
<1>3. QED
  BY <1>2, MigrationInvariance, PTL DEF Migrating!Spec, Migrating!BridgeKeepsItsOwn

(***************************************************************************)
(* The direct source and its network lock                                  *)
(***************************************************************************)
ProbeAssumption == Attempts \in Nat \ {0} /\ Backlog \in Nat

Callers == {"callback", "media", "stranger"}

ProbeTypes ==
    /\ main \in {"off", "notify", "accept", "examine", "control", "invite", "media", "take",
                 "lock", "stream", "exit"}
    /\ attempt \in 0..Attempts /\ thread \in [Source!Workers -> {"none", "running", "done"}]
    /\ told \subseteq Source!Workers /\ conn \in Callers \cup {"none"}
    /\ queue \in Seq(Callers) /\ Len(queue) <= Backlog
    /\ main = "off" => attempt = 0
    /\ main = "notify" => attempt < Attempts

ProbeFlags == {deny, strict, locked, received} \subseteq BOOLEAN

\* Which requests may be under way: none before the first one and after the wait
\* for their threads, then the invite only, then none again.
RequestsKnown ==
    /\ main \in {"off", "invite", "lock", "stream", "exit"} => Source!Running = {}
    /\ main \in {"media", "take"} => Source!Running \subseteq {0}

\* Nothing listens once the media is accepted, only what streams is locked, and strict
\* has sent a stranger away by then.
LockedLate ==
    /\ main \in {"lock", "stream"} /\ strict => conn # "stranger"
    /\ main \in {"take", "lock", "stream", "exit"} => listener = "closed"
    /\ locked => main \in {"stream", "exit"}
    /\ main = "stream" => (deny => locked)

\* What was handed on came from the camera where strict asks for it, and success was
\* returned for media only.
MediaOnly == Source!OnlyMedia /\ Source!ZeroIsMedia

ProbeInv == ProbeTypes /\ ProbeFlags /\ RequestsKnown /\ LockedLate /\ MediaOnly

\* What a locked process keeps.
Locked == locked => (locked' /\ Source!Running' \subseteq Source!Running)

\* The threads of a process that returned are over.
LEMMA ExitEndsAll ==
    ASSUME ProbeAssumption, ProbeInv, NEW n \in Int, Source!Exit(n),
           UNCHANGED <<deny, strict, locked, attempt, output>>,
           received' = received \/ received' = TRUE,
           n = 0 => received
    PROVE  ProbeInv' /\ Locked
<1>1. /\ main' = "exit" /\ code' = n /\ listener' = "closed" /\ queue' = <<>> /\ conn' = "none"
      /\ thread' = [w \in Source!Workers |-> IF thread[w] = "running" THEN "done" ELSE thread[w]]
      /\ told' = told
  BY DEF Source!Exit
<1>2. Source!Running' = {}
  BY <1>1 DEF Source!Running
<1>3. ProbeTypes'
  BY <1>1 DEF ProbeAssumption, ProbeInv, ProbeTypes, Callers
<1>4. ProbeFlags'
  BY Zenon DEF ProbeInv, ProbeFlags
<1>5. RequestsKnown' /\ LockedLate'
  BY <1>1, <1>2 DEF ProbeInv, RequestsKnown, LockedLate
<1>6. MediaOnly'
  BY <1>1 DEF ProbeInv, MediaOnly, Source!OnlyMedia, Source!ZeroIsMedia
<1>7. Locked
  BY <1>2, Zenon DEF Locked
<1>8. QED
  BY <1>3, <1>4, <1>5, <1>6, <1>7 DEF ProbeInv

\* The camera's side and the threads: no step of theirs starts a request or
\* opens a socket of the process.
LEMMA OutsideStep ==
    ASSUME ProbeAssumption, ProbeInv,
           \/ Source!Stranger
           \/ \E w \in Source!Workers : Source!Reach(w) \/ Source!WorkerEnds(w) \/ Source!CallBack(w)
    PROVE  ProbeInv' /\ Locked
<1> USE DEF Source!flags, Source!net, Source!cloud, Source!media
<1>1. /\ UNCHANGED <<deny, strict, main, attempt, conn, locked, code, listener, received, output>>
      /\ told' \subseteq Source!Workers
  BY DEF ProbeInv, ProbeTypes, Source!Stranger, Source!Reach, Source!WorkerEnds, Source!CallBack
<1>2. /\ thread' \in [Source!Workers -> {"none", "running", "done"}]
      /\ Source!Running' \subseteq Source!Running
  BY DEF ProbeInv, ProbeTypes, Source!Running, Source!Stranger, Source!Reach, Source!WorkerEnds,
     Source!CallBack
<1>3. queue' \in Seq(Callers) /\ Len(queue') <= Backlog
  <2>1. \/ queue' = queue
        \/ Len(queue) < Backlog /\ \E who \in Callers : queue' = Append(queue, who)
    BY DEF Source!Stranger, Source!Reach, Source!WorkerEnds, Source!CallBack, Callers
  <2>2. QED
    BY <2>1, AppendProperties DEF ProbeAssumption, ProbeInv, ProbeTypes
<1>4. ProbeTypes'
  BY <1>1, <1>2, <1>3 DEF ProbeInv, ProbeTypes
<1>5. ProbeFlags' /\ MediaOnly'
  BY <1>1, Zenon DEF ProbeInv, ProbeFlags, MediaOnly, Source!OnlyMedia, Source!ZeroIsMedia
<1>6. RequestsKnown' /\ LockedLate'
  BY <1>1, <1>2 DEF ProbeInv, RequestsKnown, LockedLate
<1>7. Locked
  BY <1>1, <1>2, Zenon DEF Locked
<1>8. QED
  BY <1>4, <1>5, <1>6, <1>7 DEF ProbeInv

\* A step of main that goes on: from where to where, with which threads.
LEMMA MainStep ==
    ASSUME ProbeAssumption, ProbeInv, Source!Main, main' # "exit"
    PROVE  ProbeInv' /\ Locked
<1> USE DEF Source!flags, Source!net, Source!cloud, Source!media, Source!Goto
<1>0. ~locked /\ main \notin {"stream", "exit"}
  <2>1. main \notin {"stream", "exit"}
    BY DEF Source!Main, Source!Begin, Source!NoAddress, Source!Notify, Source!AcceptCallback,
       Source!AcceptTimesOut, Source!Examined, Source!ExamineFails, Source!ControlEnds,
       Source!ControlTimesOut, Source!Invite, Source!AcceptMedia, Source!MediaTimesOut,
       Source!TakeResult, Source!TakeFails, Source!Lock, Source!LockFails, Source!Exit
  <2>2. QED
    BY <2>1 DEF ProbeInv, LockedLate
<1>1. Locked
  BY <1>0, Zenon DEF Locked
<1>2. UNCHANGED <<deny, strict, received, output, code, told>>
  BY DEF Source!Main, Source!Begin, Source!NoAddress, Source!Notify, Source!AcceptCallback,
     Source!AcceptTimesOut, Source!Examined, Source!ExamineFails, Source!ControlEnds,
     Source!ControlTimesOut, Source!Invite, Source!AcceptMedia, Source!MediaTimesOut,
     Source!TakeResult, Source!TakeFails, Source!Lock, Source!LockFails, Source!Exit
<1>3. /\ main = "lock" => locked' = deny
      /\ main # "lock" => locked' = locked
  <2>1. CASE Source!Lock
    BY <2>1, Zenon DEF Source!Lock
  <2>2. CASE ~Source!Lock
    BY <2>2 DEF Source!Main, Source!Begin, Source!NoAddress, Source!Notify, Source!AcceptCallback,
       Source!AcceptTimesOut, Source!Examined, Source!ExamineFails, Source!ControlEnds,
       Source!ControlTimesOut, Source!Invite, Source!AcceptMedia, Source!MediaTimesOut,
       Source!TakeResult, Source!TakeFails, Source!LockFails, Source!Exit
  <2>3. QED
    BY <2>1, <2>2
<1>4. ProbeFlags' /\ MediaOnly'
  BY <1>2, <1>3, Zenon DEF ProbeInv, ProbeFlags, MediaOnly, Source!OnlyMedia, Source!ZeroIsMedia
<1>5. CASE Source!Begin \/ Source!AcceptTimesOut \/ Source!Examined \/ Source!ControlEnds
           \/ Source!TakeResult \/ Source!Lock
  <2>1. /\ UNCHANGED <<attempt, thread, queue>> /\ conn' \in {conn, "none"}
        /\ Source!Running' = Source!Running
    BY <1>5 DEF Source!Begin, Source!AcceptTimesOut, Source!Examined, Source!ControlEnds,
       Source!TakeResult, Source!Lock, Source!Exit, Source!Running
  <2>2. ProbeTypes'
    BY <1>2, <1>5, <2>1 DEF ProbeAssumption, ProbeInv, ProbeTypes, Source!Begin,
       Source!AcceptTimesOut, Source!Examined, Source!ControlEnds, Source!TakeResult, Source!Lock,
       Source!Exit
  <2>3. RequestsKnown'
    BY <1>5, <2>1 DEF ProbeInv, RequestsKnown, Source!Running, Source!Begin,
       Source!AcceptTimesOut, Source!Examined, Source!ControlEnds, Source!TakeResult, Source!Lock,
       Source!Exit
  <2>4. LockedLate'
    BY <1>2, <1>3, <1>5 DEF ProbeInv, LockedLate, Source!Begin,
       Source!AcceptTimesOut, Source!Examined, Source!ControlEnds, Source!TakeResult, Source!Lock,
       Source!Exit
  <2>5. QED
    BY <1>1, <1>4, <2>2, <2>3, <2>4 DEF ProbeInv
<1>6. CASE Source!Notify \/ Source!Invite
  <2>1. /\ UNCHANGED <<conn, queue, listener>>
        /\ \/ main = "notify" /\ main' = "accept" /\ attempt' = attempt + 1
              /\ thread' = [thread EXCEPT ![attempt'] = "running"]
           \/ main = "invite" /\ main' = "media" /\ attempt' = attempt
              /\ thread' = [thread EXCEPT ![0] = "running"]
    BY <1>6 DEF Source!Notify, Source!Invite
  <2>2. ProbeTypes'
    BY <1>2, <2>1 DEF ProbeAssumption, ProbeInv, ProbeTypes, Source!Workers
  <2>3. RequestsKnown' /\ LockedLate'
    BY <1>2, <1>3, <2>1 DEF ProbeInv, ProbeTypes, RequestsKnown, LockedLate, Source!Running
  <2>4. QED
    BY <1>1, <1>4, <2>2, <2>3 DEF ProbeInv
<1>7. CASE Source!AcceptCallback \/ Source!AcceptMedia
  <2>1. /\ UNCHANGED <<attempt, thread>> /\ queue # <<>> /\ conn' = Head(queue)
        /\ \/ main = "accept" /\ main' = "examine" /\ queue' = Tail(queue) /\ listener' = listener
           \/ main = "media" /\ main' = "take" /\ queue' = <<>> /\ listener' = "closed"
    BY <1>7 DEF Source!AcceptCallback, Source!AcceptMedia
  <2>2. /\ conn' \in Callers /\ queue' \in Seq(Callers) /\ Len(queue') <= Backlog
    <3>1. queue \in Seq(Callers) /\ Len(queue) <= Backlog /\ Len(queue) \in Nat /\ Backlog \in Nat
      BY LenProperties DEF ProbeAssumption, ProbeInv, ProbeTypes
    <3>2. /\ Head(queue) \in Callers /\ Tail(queue) \in Seq(Callers)
          /\ Len(Tail(queue)) = Len(queue) - 1
      BY <2>1, <3>1, HeadTailProperties
    <3>3. <<>> \in Seq(Callers) /\ Len(<<>>) = 0
      BY EmptySeq
    <3>4. Len(queue) - 1 <= Backlog /\ 0 <= Backlog
      BY <3>1
    <3>5. CASE queue' = Tail(queue)
      BY <2>1, <3>2, <3>4, <3>5
    <3>6. CASE queue' = <<>>
      BY <2>1, <3>2, <3>3, <3>4, <3>6
    <3>7. QED
      BY <2>1, <3>5, <3>6
  <2>3. ProbeTypes'
    BY <1>2, <2>1, <2>2 DEF ProbeInv, ProbeTypes
  <2>4. RequestsKnown' /\ LockedLate'
    BY <1>2, <1>3, <2>1 DEF ProbeInv, RequestsKnown, LockedLate, Source!Running
  <2>5. QED
    BY <1>1, <1>4, <2>3, <2>4 DEF ProbeInv
<1>8. QED
  BY <1>5, <1>6, <1>7 DEF Source!Main, Source!NoAddress, Source!ExamineFails,
     Source!ControlTimesOut, Source!MediaTimesOut, Source!TakeFails, Source!LockFails, Source!Exit

LEMMA ProbeStep ==
    ASSUME ProbeAssumption, ProbeInv, [Source!Next]_(Source!vars)
    PROVE  ProbeInv' /\ Locked
<1> USE DEF Source!flags, Source!net, Source!cloud, Source!media
<1>1. ASSUME Source!Main, main' = "exit" PROVE ProbeInv' /\ Locked
  <2>1. /\ \E n \in {1, 2, 3, 4, 7, 8} : Source!Exit(n)
        /\ UNCHANGED <<deny, strict, locked, attempt, output, received>>
    BY <1>1 DEF Source!Main, Source!Begin, Source!NoAddress, Source!Notify, Source!AcceptCallback,
       Source!AcceptTimesOut, Source!Examined, Source!ExamineFails, Source!ControlEnds,
       Source!ControlTimesOut, Source!Invite, Source!AcceptMedia, Source!MediaTimesOut,
       Source!TakeResult, Source!TakeFails, Source!Lock, Source!LockFails, Source!Goto
  <2>2. QED
    BY <2>1, ExitEndsAll
<1>2. ASSUME Source!Main, main' # "exit" PROVE ProbeInv' /\ Locked
  BY <1>2, MainStep
<1>3. CASE Source!Data
  <2>1. CASE conn \in {"media", "stranger"} /\ output' = output \cup {conn} /\ UNCHANGED main
    <3>1. /\ main = "stream" /\ received' = TRUE
          /\ UNCHANGED <<deny, strict, main, attempt, thread, told, queue, listener, conn, locked, code>>
      BY <1>3, <2>1 DEF Source!Data, Source!Exit
    <3>2. ProbeTypes' /\ RequestsKnown' /\ LockedLate'
      BY <3>1 DEF ProbeInv, ProbeTypes, RequestsKnown, LockedLate, Source!Running
    <3>3. ProbeFlags'
      BY <3>1, Zenon DEF ProbeInv, ProbeFlags
    <3>4. MediaOnly'
      <4>1. strict => conn = "media"
        BY <2>1, <3>1 DEF ProbeInv, LockedLate
      <4>2. QED
        BY <2>1, <3>1, <4>1 DEF ProbeInv, MediaOnly, Source!OnlyMedia, Source!ZeroIsMedia
    <3>5. Locked
      BY <3>1 DEF Locked, Source!Running
    <3>6. QED
      BY <3>2, <3>3, <3>4, <3>5 DEF ProbeInv
  <2>2. CASE Source!Exit(1) /\ UNCHANGED output
    <3>1. received' = TRUE /\ UNCHANGED <<deny, strict, locked, attempt>>
      BY <1>3 DEF Source!Data
    <3>2. QED
      BY <2>2, <3>1, ExitEndsAll
  <2>3. QED
    BY <1>3, <2>1, <2>2 DEF Source!Data
<1>4. CASE Source!StreamEnds
  <2>1. /\ \E n \in {IF received THEN 0 ELSE 5, IF received THEN 6 ELSE 5, 1} : Source!Exit(n)
        /\ UNCHANGED <<deny, strict, locked, attempt, output, received>>
    BY <1>4 DEF Source!StreamEnds
  <2>2. PICK n \in {IF received THEN 0 ELSE 5, IF received THEN 6 ELSE 5, 1} : Source!Exit(n)
    BY <2>1
  <2>3. n \in Int /\ (n = 0 => received)
    OBVIOUS
  <2>4. QED
    BY <2>1, <2>2, <2>3, ExitEndsAll
<1>5. CASE Source!Killed
  <2>1. Source!Exit(15) /\ UNCHANGED <<deny, strict, locked, attempt, output, received>>
    BY <1>5 DEF Source!Killed
  <2>2. QED
    BY <2>1, ExitEndsAll
<1>6. CASE Source!Stranger
  BY <1>6, OutsideStep
<1>7. CASE \E w \in Source!Workers : Source!Reach(w) \/ Source!WorkerEnds(w) \/ Source!CallBack(w)
  BY <1>7, OutsideStep
<1>8. CASE UNCHANGED Source!vars
  <2>1. UNCHANGED <<deny, strict, main, attempt, thread, told, queue, listener, conn, locked, code,
                    received, output>>
    BY <1>8 DEF Source!vars
  <2>2. ProbeTypes' /\ RequestsKnown' /\ LockedLate' /\ Locked
    BY <2>1 DEF ProbeInv, ProbeTypes, RequestsKnown, LockedLate, Locked, Source!Running
  <2>3. ProbeFlags' /\ MediaOnly'
    BY <2>1, Zenon DEF ProbeInv, ProbeFlags, MediaOnly, Source!OnlyMedia, Source!ZeroIsMedia
  <2>4. QED
    BY <2>2, <2>3 DEF ProbeInv
<1>9. QED
  BY <1>1, <1>2, <1>3, <1>4, <1>5, <1>6, <1>7, <1>8 DEF Source!Next

LEMMA ProbeInit == ASSUME ProbeAssumption, Source!Init PROVE ProbeInv
<1>1. ProbeTypes
  BY EmptySeq DEF ProbeAssumption, Source!Init, ProbeTypes, Callers, Source!Workers
<1>2. ProbeFlags
  BY Zenon DEF Source!Init, ProbeFlags
<1>3. RequestsKnown /\ LockedLate /\ MediaOnly
  BY DEF Source!Init, RequestsKnown, LockedLate, MediaOnly, Source!Running, Source!OnlyMedia,
     Source!ZeroIsMedia
<1>4. QED
  BY <1>1, <1>2, <1>3 DEF ProbeInv

\* However late the camera and the cloud answer, and whoever connects: while media
\* flows no request is under way, nothing listens and the lock is on if it was asked
\* for; a late callback's bytes are never handed on, and with strict nobody's but the
\* camera's (without it, a stranger's frames are); and success is not returned without
\* media (probe-ezviz-direct-reverse.py main).
THEOREM MediaFlowsAlone ==
    ASSUME ProbeAssumption
    PROVE  Source!Spec => [](/\ Source!TypeOK /\ Source!StreamsAlone
                             /\ Source!OnlyMedia /\ Source!ZeroIsMedia)
<1>1. Source!Init => ProbeInv
  BY ProbeInit
<1>2. ProbeInv /\ [Source!Next]_(Source!vars) => ProbeInv'
  BY ProbeStep
<1>3. ProbeInv => Source!TypeOK /\ Source!StreamsAlone /\ Source!OnlyMedia /\ Source!ZeroIsMedia
  <2> SUFFICES ASSUME ProbeInv
               PROVE  Source!TypeOK /\ Source!StreamsAlone /\ Source!OnlyMedia /\ Source!ZeroIsMedia
    OBVIOUS
  <2>1. Source!TypeOK
    <3>1. conn \in {"none", "callback", "media", "stranger"}
      BY DEF ProbeInv, ProbeTypes, Callers
    <3>2. QED
      BY <3>1, Zenon DEF ProbeInv, ProbeTypes, ProbeFlags, Source!TypeOK
  <2>2. Source!StreamsAlone
    BY DEF ProbeInv, RequestsKnown, LockedLate, Source!StreamsAlone
  <2>3. QED
    BY <2>1, <2>2 DEF ProbeInv, MediaOnly
<1>4. QED
  BY <1>1, <1>2, <1>3, PTL DEF Source!Spec

\* A process that gave up its right to new connections never takes it back, and
\* starts no request any more (ezviz_network_lock.py, deny_new_outbound_network).
THEOREM LockHolds ==
    ASSUME ProbeAssumption
    PROVE  Source!Spec => Source!LockIsFinal
<1>1. Source!Init => ProbeInv
  BY ProbeInit
<1>2. ProbeInv /\ [Source!Next]_(Source!vars) => ProbeInv'
  BY ProbeStep
<1>3. ProbeInv /\ [Source!Next]_(Source!vars)
      => [locked => (locked' /\ Source!Running' \subseteq Source!Running)]_(Source!vars)
  BY ProbeStep DEF Locked
<1>4. QED
  BY <1>1, <1>2, <1>3, PTL DEF Source!Spec, Source!LockIsFinal

(***************************************************************************)
(* The activity marker                                                     *)
(***************************************************************************)
ActivityAssumption ==
    Grace \in Nat \ {0} /\ Delay \in Nat /\ None \notin Procs

ActivityTypes ==
    /\ mark \in Procs \cup {None} /\ age \in 0..Activity!Never /\ live \in 0..Activity!Never
    /\ quiet \in 0..Activity!Never /\ calm \in 0..2
    /\ sure \in 0..Activity!Never /\ stale \in 0..Delay
    /\ doing \in [Procs -> {"new", "off", "stream", "touch", "again", "mark", "unlink"}]
    /\ busy \in [Procs -> 0..2]

ActivityFlags ==
    /\ flows \in [Procs -> BOOLEAN] /\ due \in [Procs -> BOOLEAN]
    /\ verdict \in BOOLEAN /\ polled \in BOOLEAN

\* A source counts as busy while its media flows, which it does not when it is over.
BusyFlows ==
    \A p \in Procs : /\ busy[p] > 0 => flows[p]
                     /\ flows[p] => doing[p] \in {"stream", "touch", "again", "mark"}
                     /\ doing[p] = "again" => age = 0

\* Between two ticks without a start or an end, a source whose media flows leaves a
\* marker behind that is new and belongs to a source that runs.
NewMark == mark # None /\ age = 0 /\ doing[mark] \notin Activity!Gone
RenewedInTick ==
    \A p \in Procs : calm >= 1 /\ busy[p] >= 1 /\ ~due[p] /\ doing[p] = "stream" => NewMark

\* So the marker of the tick before is there until it is renewed.
FlowLeavesMark ==
    \A p \in Procs : calm >= 2 /\ busy[p] >= 2
                     => mark # None /\ age <= 1 /\ doing[mark] \notin Activity!Gone

\* While no source runs no round finds a live marker.
QuietIsStale ==
    /\ live >= quiet
    /\ quiet > 0 => \A p \in Procs : doing[p] \in Activity!Gone

\* The tracker remembers the round that met no handover, or a later one.
SureIsLive == live <= sure /\ stale <= sure

ActivityInv == /\ ActivityTypes /\ ActivityFlags /\ BusyFlows
               /\ RenewedInTick /\ FlowLeavesMark /\ QuietIsStale /\ SureIsLive

LEMMA FlowMarks ==
    ASSUME ActivityAssumption, ActivityInv
    PROVE  Activity!FlowIsMarked
<1> SUFFICES ASSUME calm >= 2, NEW p \in Procs, busy[p] >= 2 PROVE Activity!Live
  BY DEF Activity!FlowIsMarked, Activity!Settled
<1>1. mark # None /\ age <= 1 /\ doing[mark] \notin Activity!Gone
  BY DEF ActivityInv, FlowLeavesMark
<1>2. QED
  BY <1>1 DEF ActivityAssumption, ActivityInv, ActivityTypes, Activity!Live

\* A round judges by the marker of its end and the time of its top.
LEMMA PollJudges ==
    ASSUME ActivityAssumption, ActivityInv, Activity!Poll
    PROVE  /\ ActivityInv' /\ UNCHANGED <<stale, quiet>>
           /\ verdict' <=> live' - stale <= Grace
           /\ quiet > 0 => live' = live
<1> USE DEF Activity!Never, Activity!Gone, ActivityAssumption
<1>0. /\ ActivityTypes /\ ActivityFlags /\ BusyFlows
      /\ RenewedInTick /\ FlowLeavesMark /\ QuietIsStale /\ SureIsLive
  BY DEF ActivityInv
<1>1. /\ UNCHANGED <<mark, age, doing, flows, due, stale, busy, quiet, calm>> /\ polled' = TRUE
      /\ live' = IF Activity!Live THEN stale ELSE live
      /\ verdict' = (live' - stale <= Grace)
      /\ sure' = IF Activity!Settled THEN stale ELSE sure
  BY Zenon DEF Activity!Poll, Activity!Remember, Activity!marker
<1>2. ActivityTypes' /\ BusyFlows' /\ RenewedInTick' /\ FlowLeavesMark'
  BY <1>0, <1>1 DEF ActivityTypes, BusyFlows, RenewedInTick, NewMark, FlowLeavesMark
<1>3. Activity!Live => \E p \in Procs : doing[p] \notin Activity!Gone
  BY <1>0 DEF ActivityTypes, Activity!Live
<1>4. quiet > 0 => live' = live
  BY <1>0, <1>1, <1>3 DEF QuietIsStale
<1>5. QuietIsStale'
  BY <1>0, <1>1, <1>4 DEF ActivityTypes, QuietIsStale
<1>6. Activity!Settled => Activity!Live
  BY FlowMarks DEF Activity!FlowIsMarked
<1>7. SureIsLive'
  BY <1>0, <1>1, <1>6 DEF ActivityTypes, SureIsLive
<1>8. verdict' \in BOOLEAN /\ (verdict' <=> live' - stale <= Grace)
  <2>1. (live' - stale <= Grace) \in BOOLEAN
    OBVIOUS
  <2>2. QED
    BY <1>1, <2>1, Zenon
<1>9. ActivityFlags'
  BY <1>0, <1>1, <1>8, Zenon DEF ActivityFlags
<1>10. QED
  BY <1>1, <1>2, <1>4, <1>5, <1>7, <1>8, <1>9, Zenon DEF ActivityInv

\* A step of a source changes nothing that the controller keeps.
LEMMA SourceKeeps ==
    ASSUME ActivityInv, UNCHANGED <<live, verdict, stale, polled, sure>>,
           ActivityTypes', flows' \in [Procs -> BOOLEAN], due' \in [Procs -> BOOLEAN],
           BusyFlows', RenewedInTick', FlowLeavesMark', QuietIsStale'
    PROVE  ActivityInv'
<1>1. ActivityFlags'
  BY Zenon DEF ActivityInv, ActivityFlags
<1>2. SureIsLive'
  BY DEF ActivityInv, SureIsLive
<1>3. QED
  BY <1>1, <1>2 DEF ActivityInv

LEMMA ActivityStep ==
    ASSUME ActivityAssumption, ActivityInv, [Activity!Next]_(Activity!vars)
    PROVE  ActivityInv'
<1> USE DEF Activity!marker, Activity!controller, Activity!history, Activity!Never, Activity!Gone,
            Activity!Goto, ActivityAssumption
<1>0. /\ ActivityTypes /\ ActivityFlags /\ BusyFlows
      /\ RenewedInTick /\ FlowLeavesMark /\ QuietIsStale /\ SureIsLive
  BY DEF ActivityInv
<1>1. CASE Activity!Poll
  BY <1>1, PollJudges
<1>2. CASE Activity!Top
  <2>1. /\ UNCHANGED <<mark, age, doing, flows, due, live, verdict, busy, quiet, calm, sure>>
        /\ polled' = FALSE /\ stale' = 0
    BY <1>2 DEF Activity!Top
  <2>2. /\ ActivityTypes' /\ BusyFlows' /\ RenewedInTick' /\ FlowLeavesMark'
        /\ QuietIsStale' /\ SureIsLive'
    BY <1>0, <2>1 DEF ActivityTypes, BusyFlows, RenewedInTick, NewMark, FlowLeavesMark,
       QuietIsStale, SureIsLive
  <2>3. ActivityFlags'
    BY <1>0, <2>1, Zenon DEF ActivityFlags
  <2>4. QED
    BY <2>2, <2>3 DEF ActivityInv
<1>3. CASE Activity!Tick
  <2>1. /\ UNCHANGED <<mark, doing, flows, verdict, polled>>
        /\ stale < Delay /\ stale' = stale + 1
        /\ live' = Activity!Capped(live + 1) /\ sure' = Activity!Capped(sure + 1)
        /\ age' = IF mark = None THEN 0 ELSE Activity!Capped(age + 1)
        /\ calm' = Activity!UpToTwo(calm + 1)
        /\ quiet' = IF \A p \in Procs : doing[p] \in Activity!Gone
                    THEN Activity!Capped(quiet + 1) ELSE 0
        /\ due' = [p \in Procs |-> doing[p] = "stream"]
        /\ busy' = [p \in Procs |-> IF flows[p] THEN Activity!UpToTwo(busy[p] + 1) ELSE 0]
        /\ \A p \in Procs : doing[p] \in Activity!Gone \cup {"stream"} /\ ~(flows[p] /\ due[p])
    BY <1>3 DEF Activity!Tick
  <2>2. \A n \in 0..Activity!Never :
            Activity!Capped(n + 1) = IF n + 1 >= Activity!Never THEN Activity!Never ELSE n + 1
    BY DEF Activity!Capped
  <2>3. \A p \in Procs : /\ busy'[p] \in 0..2 /\ busy'[p] <= busy[p] + 1
                         /\ busy'[p] > 0 => flows[p]
                         /\ due'[p] = (doing[p] = "stream")
    BY <1>0, <2>1 DEF ActivityTypes, Activity!UpToTwo
  <2>4. calm' \in 0..2 /\ calm' <= calm + 1
    BY <1>0, <2>1 DEF ActivityTypes, Activity!UpToTwo
  <2>5. ActivityTypes'
    BY <1>0, <2>1, <2>2, <2>3, <2>4 DEF ActivityTypes
  <2>6. ActivityFlags'
    BY <1>0, <2>1, Zenon DEF ActivityFlags
  <2>7. BusyFlows' /\ RenewedInTick'
    BY <1>0, <2>1, <2>3 DEF BusyFlows, RenewedInTick
  <2>8. FlowLeavesMark'
    <3> SUFFICES ASSUME NEW p \in Procs, calm' >= 2, busy'[p] >= 2
                 PROVE  mark # None /\ age' <= 1 /\ doing[mark] \notin Activity!Gone
      BY <2>1 DEF FlowLeavesMark
    <3>1. calm >= 1 /\ busy[p] >= 1 /\ flows[p]
      BY <1>0, <2>3, <2>4 DEF ActivityTypes
    <3>2. doing[p] = "stream" /\ ~due[p]
      BY <1>0, <2>1, <3>1 DEF BusyFlows
    <3>3. NewMark
      BY <1>0, <3>1, <3>2 DEF RenewedInTick
    <3>4. QED
      BY <2>1, <2>2, <3>3 DEF NewMark
  <2>9. QuietIsStale' /\ SureIsLive'
    BY <1>0, <2>1, <2>2 DEF ActivityTypes, QuietIsStale, SureIsLive
  <2>10. QED
    BY <2>5, <2>6, <2>7, <2>8, <2>9 DEF ActivityInv
<1>4. ASSUME NEW p \in Procs, Activity!Start(p) PROVE ActivityInv'
  <2>1. /\ UNCHANGED <<live, verdict, stale, polled, sure>> /\ ActivityTypes'
        /\ flows' \in [Procs -> BOOLEAN] /\ due' \in [Procs -> BOOLEAN]
    BY <1>0, <1>4 DEF Activity!Start, ActivityTypes, ActivityFlags
  <2>2. BusyFlows'
    BY <1>0, <1>4 DEF Activity!Start, ActivityTypes, ActivityFlags, BusyFlows
  <2>3. RenewedInTick'
    BY <1>0, <1>4 DEF Activity!Start, ActivityTypes, ActivityFlags, BusyFlows, RenewedInTick, NewMark
  <2>4. FlowLeavesMark'
    BY <1>0, <1>4 DEF Activity!Start, ActivityTypes, ActivityFlags, BusyFlows, FlowLeavesMark
  <2>5. QuietIsStale'
    BY <1>0, <1>4 DEF Activity!Start, ActivityTypes, QuietIsStale
  <2>6. QED
    BY <2>1, <2>2, <2>3, <2>4, <2>5, SourceKeeps
<1>5. ASSUME NEW p \in Procs, Activity!Stall(p) PROVE ActivityInv'
  <2>1. /\ UNCHANGED <<live, verdict, stale, polled, sure>> /\ ActivityTypes'
        /\ flows' \in [Procs -> BOOLEAN] /\ due' \in [Procs -> BOOLEAN]
    BY <1>0, <1>5 DEF Activity!Stall, ActivityTypes, ActivityFlags
  <2>2. BusyFlows'
    BY <1>0, <1>5 DEF Activity!Stall, ActivityTypes, ActivityFlags, BusyFlows
  <2>3. RenewedInTick'
    BY <1>0, <1>5 DEF Activity!Stall, ActivityTypes, ActivityFlags, BusyFlows, RenewedInTick, NewMark
  <2>4. FlowLeavesMark'
    BY <1>0, <1>5 DEF Activity!Stall, ActivityTypes, ActivityFlags, BusyFlows, FlowLeavesMark
  <2>5. QuietIsStale'
    BY <1>0, <1>5 DEF Activity!Stall, ActivityTypes, QuietIsStale
  <2>6. QED
    BY <2>1, <2>2, <2>3, <2>4, <2>5, SourceKeeps
<1>6. ASSUME NEW p \in Procs, Activity!Refresh(p) PROVE ActivityInv'
  <2>1. /\ UNCHANGED <<live, verdict, stale, polled, sure>> /\ ActivityTypes'
        /\ flows' \in [Procs -> BOOLEAN] /\ due' \in [Procs -> BOOLEAN]
    BY <1>0, <1>6 DEF Activity!Refresh, ActivityTypes, ActivityFlags
  <2>2. BusyFlows'
    BY <1>0, <1>6 DEF Activity!Refresh, ActivityTypes, ActivityFlags, BusyFlows
  <2>3. RenewedInTick'
    BY <1>0, <1>6 DEF Activity!Refresh, ActivityTypes, ActivityFlags, BusyFlows, RenewedInTick, NewMark
  <2>4. FlowLeavesMark'
    BY <1>0, <1>6 DEF Activity!Refresh, ActivityTypes, ActivityFlags, BusyFlows, FlowLeavesMark
  <2>5. QuietIsStale'
    BY <1>0, <1>6 DEF Activity!Refresh, ActivityTypes, QuietIsStale
  <2>6. QED
    BY <2>1, <2>2, <2>3, <2>4, <2>5, SourceKeeps
<1>7. ASSUME NEW p \in Procs, Activity!Touch(p) PROVE ActivityInv'
  <2>1. /\ UNCHANGED <<live, verdict, stale, polled, sure>> /\ ActivityTypes'
        /\ flows' \in [Procs -> BOOLEAN] /\ due' \in [Procs -> BOOLEAN]
    BY <1>0, <1>7 DEF Activity!Touch, ActivityTypes, ActivityFlags
  <2>2. BusyFlows'
    BY <1>0, <1>7 DEF Activity!Touch, ActivityTypes, ActivityFlags, BusyFlows
  <2>3. RenewedInTick'
    BY <1>0, <1>7 DEF Activity!Touch, ActivityTypes, ActivityFlags, BusyFlows, RenewedInTick, NewMark
  <2>4. FlowLeavesMark'
    BY <1>0, <1>7 DEF Activity!Touch, ActivityTypes, ActivityFlags, BusyFlows, FlowLeavesMark
  <2>5. QuietIsStale'
    BY <1>0, <1>7 DEF Activity!Touch, ActivityTypes, QuietIsStale
  <2>6. QED
    BY <2>1, <2>2, <2>3, <2>4, <2>5, SourceKeeps
<1>8. ASSUME NEW p \in Procs, Activity!Again(p) PROVE ActivityInv'
  <2>1. /\ UNCHANGED <<live, verdict, stale, polled, sure>> /\ ActivityTypes'
        /\ flows' \in [Procs -> BOOLEAN] /\ due' \in [Procs -> BOOLEAN]
    BY <1>0, <1>8 DEF Activity!Again, Activity!Owned, ActivityTypes, ActivityFlags
  <2>2. BusyFlows'
    BY <1>0, <1>8 DEF Activity!Again, Activity!Owned, ActivityTypes, ActivityFlags, BusyFlows
  <2>3. RenewedInTick'
    BY <1>0, <1>8 DEF Activity!Again, Activity!Owned, ActivityTypes, ActivityFlags, BusyFlows, RenewedInTick, NewMark
  <2>4. FlowLeavesMark'
    BY <1>0, <1>8 DEF Activity!Again, Activity!Owned, ActivityTypes, ActivityFlags, BusyFlows, FlowLeavesMark
  <2>5. QuietIsStale'
    BY <1>0, <1>8 DEF Activity!Again, Activity!Owned, ActivityTypes, QuietIsStale
  <2>6. QED
    BY <2>1, <2>2, <2>3, <2>4, <2>5, SourceKeeps
<1>9. ASSUME NEW p \in Procs, Activity!Mark(p) PROVE ActivityInv'
  <2>1. /\ UNCHANGED <<live, verdict, stale, polled, sure>> /\ ActivityTypes'
        /\ flows' \in [Procs -> BOOLEAN] /\ due' \in [Procs -> BOOLEAN]
    BY <1>0, <1>9 DEF Activity!Mark, ActivityTypes, ActivityFlags
  <2>2. BusyFlows'
    BY <1>0, <1>9 DEF Activity!Mark, ActivityTypes, ActivityFlags, BusyFlows
  <2>3. RenewedInTick'
    BY <1>0, <1>9 DEF Activity!Mark, ActivityTypes, ActivityFlags, BusyFlows, RenewedInTick, NewMark
  <2>4. FlowLeavesMark'
    BY <1>0, <1>9 DEF Activity!Mark, ActivityTypes, ActivityFlags, BusyFlows, FlowLeavesMark
  <2>5. QuietIsStale'
    BY <1>0, <1>9 DEF Activity!Mark, ActivityTypes, QuietIsStale
  <2>6. QED
    BY <2>1, <2>2, <2>3, <2>4, <2>5, SourceKeeps
<1>10. ASSUME NEW p \in Procs, Activity!Finish(p) PROVE ActivityInv'
  <2>1. /\ UNCHANGED <<live, verdict, stale, polled, sure>> /\ ActivityTypes'
        /\ flows' \in [Procs -> BOOLEAN] /\ due' \in [Procs -> BOOLEAN]
    BY <1>0, <1>10 DEF Activity!Finish, ActivityTypes, ActivityFlags
  <2>2. BusyFlows'
    BY <1>0, <1>10 DEF Activity!Finish, ActivityTypes, ActivityFlags, BusyFlows
  <2>3. RenewedInTick'
    BY <1>0, <1>10 DEF Activity!Finish, ActivityTypes, ActivityFlags, BusyFlows, RenewedInTick, NewMark
  <2>4. FlowLeavesMark'
    BY <1>0, <1>10 DEF Activity!Finish, ActivityTypes, ActivityFlags, BusyFlows, FlowLeavesMark
  <2>5. QuietIsStale'
    BY <1>0, <1>10 DEF Activity!Finish, ActivityTypes, QuietIsStale
  <2>6. QED
    BY <2>1, <2>2, <2>3, <2>4, <2>5, SourceKeeps
<1>11. ASSUME NEW p \in Procs, Activity!Unlink(p) PROVE ActivityInv'
  <2>1. /\ UNCHANGED <<live, verdict, stale, polled, sure>> /\ ActivityTypes'
        /\ flows' \in [Procs -> BOOLEAN] /\ due' \in [Procs -> BOOLEAN]
    BY <1>0, <1>11 DEF Activity!Unlink, ActivityTypes, ActivityFlags
  <2>2. BusyFlows'
    BY <1>0, <1>11 DEF Activity!Unlink, ActivityTypes, ActivityFlags, BusyFlows
  <2>3. RenewedInTick'
    BY <1>0, <1>11 DEF Activity!Unlink, ActivityTypes, ActivityFlags, BusyFlows, RenewedInTick, NewMark
  <2>4. FlowLeavesMark'
    BY <1>0, <1>11 DEF Activity!Unlink, ActivityTypes, ActivityFlags, BusyFlows, FlowLeavesMark
  <2>5. QuietIsStale'
    BY <1>0, <1>11 DEF Activity!Unlink, ActivityTypes, QuietIsStale
  <2>6. QED
    BY <2>1, <2>2, <2>3, <2>4, <2>5, SourceKeeps
<1>12. ASSUME NEW p \in Procs, Activity!Killed(p) PROVE ActivityInv'
  <2>1. /\ UNCHANGED <<live, verdict, stale, polled, sure>> /\ ActivityTypes'
        /\ flows' \in [Procs -> BOOLEAN] /\ due' \in [Procs -> BOOLEAN]
    BY <1>0, <1>12 DEF Activity!Killed, ActivityTypes, ActivityFlags
  <2>2. BusyFlows'
    BY <1>0, <1>12 DEF Activity!Killed, ActivityTypes, ActivityFlags, BusyFlows
  <2>3. RenewedInTick'
    BY <1>0, <1>12 DEF Activity!Killed, ActivityTypes, ActivityFlags, BusyFlows, RenewedInTick, NewMark
  <2>4. FlowLeavesMark'
    BY <1>0, <1>12 DEF Activity!Killed, ActivityTypes, ActivityFlags, BusyFlows, FlowLeavesMark
  <2>5. QuietIsStale'
    BY <1>0, <1>12 DEF Activity!Killed, ActivityTypes, QuietIsStale
  <2>6. QED
    BY <2>1, <2>2, <2>3, <2>4, <2>5, SourceKeeps
<1>13. CASE UNCHANGED Activity!vars
  <2>1. UNCHANGED <<mark, age, doing, flows, due, live, verdict, stale, polled, busy, quiet, calm, sure>>
    BY <1>13 DEF Activity!vars
  <2>2. /\ ActivityTypes' /\ BusyFlows' /\ RenewedInTick' /\ FlowLeavesMark'
        /\ QuietIsStale' /\ SureIsLive'
    BY <1>0, <2>1 DEF ActivityTypes, BusyFlows, RenewedInTick, NewMark, FlowLeavesMark,
       QuietIsStale, SureIsLive
  <2>3. ActivityFlags'
    BY <1>0, <2>1, Zenon DEF ActivityFlags
  <2>4. QED
    BY <2>2, <2>3 DEF ActivityInv
<1>14. QED
  BY <1>1, <1>2, <1>3, <1>4, <1>5, <1>6, <1>7, <1>8, <1>9, <1>10, <1>11, <1>12, <1>13
     DEF Activity!Next, Activity!Source

\* A round is over with Poll, and with nothing else.
LEMMA OnlyPollEnds ==
    ASSUME [Activity!Next]_(Activity!vars), ~polled, polled'
    PROVE  Activity!Poll
<1> USE DEF Activity!controller
<1>1. CASE Activity!Top
  BY <1>1, Zenon DEF Activity!Top
<1>2. CASE Activity!Tick
  BY <1>2, Zenon DEF Activity!Tick
<1>3. ASSUME NEW p \in Procs, Activity!Start(p) \/ Activity!Stall(p) \/ Activity!Killed(p)
      PROVE  FALSE
  BY <1>3, Zenon DEF Activity!Start, Activity!Stall, Activity!Killed
<1>4. ASSUME NEW p \in Procs, Activity!Source(p) PROVE FALSE
  BY <1>4, Zenon DEF Activity!Source, Activity!Refresh, Activity!Touch, Activity!Again,
     Activity!Mark, Activity!Finish, Activity!Unlink
<1>5. CASE UNCHANGED Activity!vars
  BY <1>5, Zenon DEF Activity!vars
<1>6. QED
  BY <1>1, <1>2, <1>3, <1>4, <1>5, Zenon DEF Activity!Next

\* Whatever the sources do to the one file as they come, stall, go and are killed, and
\* however long a round waits for the cloud between its now and its look at the marker:
\* when the handovers are over the marker is live while media of a source flows; the
\* rounds within the grace after one that met no handover say that the camera streams;
\* and none says so longer than the grace and its own waiting after the last source is
\* gone (ezviz_warm_controller.py ActivityTracker, _refresh_stream_active).
THEOREM ActivityIsSeen ==
    ASSUME ActivityAssumption
    PROVE  Activity!Spec => /\ [](Activity!TypeOK /\ Activity!FlowIsMarked)
                            /\ Activity!HandoverIsMasked /\ Activity!StopIsSeen
<1>1. Activity!Init => ActivityInv
  <2> SUFFICES ASSUME Activity!Init PROVE ActivityInv
    OBVIOUS
  <2>1. /\ ActivityTypes /\ BusyFlows /\ RenewedInTick /\ FlowLeavesMark
        /\ QuietIsStale /\ SureIsLive
    BY DEF ActivityAssumption, Activity!Init, Activity!Never, Activity!Gone,
       ActivityTypes, BusyFlows, RenewedInTick, FlowLeavesMark, QuietIsStale, SureIsLive
  <2>2. ActivityFlags
    BY Zenon DEF Activity!Init, ActivityFlags
  <2>3. QED
    BY <2>1, <2>2 DEF ActivityInv
<1>2. ActivityInv /\ [Activity!Next]_(Activity!vars) => ActivityInv'
  BY ActivityStep
<1>3. ActivityInv => Activity!TypeOK /\ Activity!FlowIsMarked
  <2> SUFFICES ASSUME ActivityInv PROVE Activity!TypeOK
    BY FlowMarks
  <2>1. {age, live, quiet, sure} \subseteq 0..Activity!Never
    BY DEF ActivityInv, ActivityTypes
  <2>2. QED
    BY <2>1, Zenon DEF ActivityInv, ActivityTypes, ActivityFlags, Activity!TypeOK
<1>4. ActivityInv /\ [Activity!Next]_(Activity!vars)
      => [~polled /\ polled' /\ sure' - stale <= Grace => verdict']_(Activity!vars)
  <2> SUFFICES ASSUME ActivityInv, [Activity!Next]_(Activity!vars), ~polled, polled',
                      sure' - stale <= Grace
               PROVE  verdict'
    BY Zenon
  <2>1. ActivityInv' /\ (verdict' <=> live' - stale <= Grace) /\ stale' = stale
    BY OnlyPollEnds, PollJudges
  <2>2. live' <= sure' /\ {live', sure'} \subseteq 0..Activity!Never /\ stale \in 0..Delay
    BY <2>1 DEF ActivityInv, ActivityTypes, SureIsLive
  <2>3. live' - stale <= Grace
    BY <2>2 DEF ActivityAssumption, Activity!Never
  <2>4. QED
    BY <2>1, <2>3
<1>5. ActivityInv /\ [Activity!Next]_(Activity!vars)
      => [~polled /\ polled' /\ quiet > Grace + stale => ~verdict']_(Activity!vars)
  <2> SUFFICES ASSUME ActivityInv, [Activity!Next]_(Activity!vars), ~polled, polled',
                      quiet > Grace + stale
               PROVE  ~verdict'
    BY Zenon
  <2>1. (verdict' <=> live' - stale <= Grace) /\ (quiet > 0 => live' = live)
    BY OnlyPollEnds, PollJudges
  <2>2. ~(live' - stale <= Grace)
    BY <2>1 DEF ActivityAssumption, ActivityInv, ActivityTypes, QuietIsStale, Activity!Never
  <2>3. QED
    BY <2>1, <2>2
<1>6. QED
  BY <1>1, <1>2, <1>3, <1>4, <1>5, PTL
     DEF Activity!Spec, Activity!HandoverIsMasked, Activity!StopIsSeen

(***************************************************************************)
(* The frame handler of DTLS cameras                                       *)
(***************************************************************************)
\* The camera counts the frames of a channel (a uint32): their numbers differ.
FramesAssumption ==
    /\ Shots \in Seq([channel: {3, 5, 7}, no: Nat, total: Nat \ {0}, first: STRING, time: Nat])
    /\ \A f, g \in DOMAIN Shots :
          Shots[f].channel \in {5, 7} /\ Shots[f].channel = Shots[g].channel /\ Shots[f].no = Shots[g].no
          => f = g
    /\ Wrap \in Nat \ {0} /\ Mark \in Nat /\ QueueSize \in Nat \ {0} /\ InFlight \in Nat

\* The packets of the camera's frames, the first ones of a frame, what is queued.
Packets == UNION {{Handler!Packet(f, k) : k \in 0..(Shots[f].total - 1)} : f \in DOMAIN Shots}
Pieces(f, n) == [i \in 1..n |-> <<f, i - 1>>]
Queueable == [frame: DOMAIN Shots, data: Seq(Nat) \cup Seq(Nat \X Nat), ts: Nat]

WireTypes ==
    /\ wire \in Seq(Packets) /\ place \in (Nat \ {0}) \X Nat
    /\ place[1] \in DOMAIN Shots => place[2] < Shots[place[1]].total

\* A channel has forgotten its frame, or holds the first packets of one.
Collecting ==
    /\ channels = [c \in {5, 7} |-> channels[c]]
    /\ \A c \in {5, 7} :
          \/ channels[c].waitSeq = 0 /\ channels[c].waitData = <<>> /\ channels[c].pktTotal = 0
          \/ \E f \in DOMAIN Shots :
                /\ Shots[f].channel = c /\ Shots[f].no = channels[c].frameNo
                /\ channels[c].waitSeq \in 0..Shots[f].total
                /\ channels[c].waitData = Pieces(f, channels[c].waitSeq)
                /\ channels[c].pktTotal \in {0, Shots[f].total}

\* A clock that has not begun stands at zero.
Clock(t) == t.lastRawTS \in 0..(Wrap - 1) /\ t.accumUS \in Nat /\ (t.firstTS \/ t.accumUS = 0)

\* No stamp of the queue is ahead of its clock.
Stamps ==
    /\ Clock(videoTS) /\ Clock(audioTS) /\ Handler!ClockNeverBack
    /\ \A i \in 1..Len(queued) :
          queued[i].ts <= IF Handler!IsVideo(queued[i]) THEN videoTS.accumUS ELSE audioTS.accumUS

\* The queue is the end of what was queued.
QueueInv ==
    /\ queued \in Seq(Queueable) /\ pending \in Seq(Queueable) /\ taken \in Nat
    /\ Len(pending) <= QueueSize /\ Len(queued) = taken + Len(pending)
    /\ \A i \in 1..Len(pending) : pending[i] = queued[taken + i]
    /\ dropped \subseteq Nat /\ \A d \in dropped : Len(queued) >= d + QueueSize

FramesInv == /\ WireTypes /\ Collecting /\ Stamps /\ QueueInv
             /\ Handler!WholeFrames /\ Handler!NothingAfterClose

LEMMA PacketFacts ==
    ASSUME FramesAssumption, NEW p \in Packets
    PROVE  /\ p.frame \in DOMAIN Shots /\ p.k \in 0..(Shots[p.frame].total - 1)
           /\ Handler!PktIdx(p) = p.k /\ Handler!Raw(p) \in 0..(Wrap - 1)
           /\ Shots[p.frame].total \in Nat \ {0} /\ Shots[p.frame].no \in Nat
           /\ Shots[p.frame].channel \in {3, 5, 7} /\ p.frame \in Nat
<1> PICK f \in DOMAIN Shots : p \in {Handler!Packet(f, k) : k \in 0..(Shots[f].total - 1)}
  BY DEF Packets
<1>1. PICK k \in 0..(Shots[f].total - 1) : p = Handler!Packet(f, k)
  OBVIOUS
<1>2. /\ Shots[f] \in [channel: {3, 5, 7}, no: Nat, total: Nat \ {0}, first: STRING, time: Nat]
      /\ f \in Nat
  <2>1. Shots \in Seq([channel: {3, 5, 7}, no: Nat, total: Nat \ {0}, first: STRING, time: Nat])
    BY DEF FramesAssumption
  <2>2. DOMAIN Shots = 1..Len(Shots) /\ Len(Shots) \in Nat
    BY <2>1, LenProperties
  <2>3. Shots[f] \in [channel: {3, 5, 7}, no: Nat, total: Nat \ {0}, first: STRING, time: Nat]
    BY <2>1, <2>2, ElementOfSeq
  <2>4. QED
    BY <2>2, <2>3
<1>3. p.frame = f /\ p.k = k /\ p.type = Handler!FrameType(f, k)
      /\ p.idx = IF k = Shots[f].total - 1 THEN Mark ELSE k
  BY <1>1 DEF Handler!Packet
<1>4. Handler!PktIdx(p) = k
  BY <1>2, <1>3 DEF Handler!PktIdx, Handler!HasFrameInfo, Handler!FrameType, Handler!IsEndFrame
<1>5. Handler!Raw(p) \in 0..(Wrap - 1)
  BY <1>2, <1>3 DEF FramesAssumption, Handler!Raw
<1>6. QED
  BY <1>2, <1>3, <1>4, <1>5

\* An element more at the end, an element less at the front.
LEMMA AppendFacts ==
    ASSUME NEW S, NEW s \in Seq(S), NEW e \in S, NEW r, r = Append(s, e)
    PROVE  /\ r \in Seq(S) /\ Len(s) \in Nat /\ Len(r) = Len(s) + 1
           /\ DOMAIN s = 1..Len(s) /\ DOMAIN r = 1..(Len(s) + 1)
           /\ r[Len(s) + 1] = e /\ \A i \in 1..Len(s) : r[i] = s[i] /\ s[i] \in S
BY AppendProperties, LenProperties, ElementOfSeq

LEMMA OnePieceMore ==
    ASSUME NEW f \in Nat, NEW k \in Nat
    PROVE  /\ Append(Pieces(f, k), <<f, k>>) = Pieces(f, k + 1)
           /\ Pieces(f, k) \in Seq(Nat \X Nat) /\ Len(Pieces(f, k)) = k
<1>1. Pieces(f, k) \in Seq(Nat \X Nat) /\ Len(Pieces(f, k)) = k
  BY DEF Pieces
<1>2. Append(Pieces(f, k), <<f, k>>) = Pieces(f, k + 1)
  <2>1. Append(Pieces(f, k), <<f, k>>) =
           [i \in 1..(k + 1) |-> IF i = k + 1 THEN <<f, k>> ELSE Pieces(f, k)[i]]
    BY <1>1
  <2>2. QED
    BY <2>1 DEF Pieces
<1>3. QED
  BY <1>1, <1>2

LEMMA NoPieceYet == ASSUME NEW f PROVE Pieces(f, 0) = <<>>
BY DEF Pieces

\* The clock does not run back when the camera's starts over.
LEMMA ClockAdvances ==
    ASSUME FramesAssumption, NEW t, Clock(t), NEW raw \in 0..(Wrap - 1)
    PROVE  Clock(Handler!Update(t, raw)) /\ Handler!Update(t, raw).accumUS >= t.accumUS
BY DEF FramesAssumption, Clock, Handler!Update, Handler!TrackDelta

\* One more packet in the queue.
LEMMA QueueKeeps ==
    ASSUME FramesAssumption, QueueInv, NEW q \in Queueable, Handler!Queue(q)
    PROVE  /\ QueueInv' /\ panicked' = panicked /\ queued' \in {queued, Append(queued, q)}
<1>1. CASE closed
  BY <1>1, Zenon DEF Handler!Queue, QueueInv
<1>2. CASE ~closed
  <2>1. /\ queued' = Append(queued, q) /\ panicked' = panicked
        /\ pending' = Append(IF Len(pending) = QueueSize THEN Tail(pending) ELSE pending, q)
        /\ taken' = taken + (IF Len(pending) = QueueSize THEN 1 ELSE 0)
        /\ dropped' = dropped \cup (IF Len(pending) = QueueSize THEN {taken + 1} ELSE {})
    BY <1>2 DEF Handler!Queue
  <2>2. /\ queued' \in Seq(Queueable) /\ Len(queued') = Len(queued) + 1
        /\ \A i \in 1..Len(queued) : queued'[i] = queued[i]
        /\ queued'[Len(queued) + 1] = q /\ Len(queued) \in Nat /\ Len(pending) \in Nat
    <3>1. queued \in Seq(Queueable) /\ pending \in Seq(Queueable)
      BY DEF QueueInv
    <3>2. Len(pending) \in Nat
      BY <3>1, LenProperties
    <3>3. QED
      BY <2>1, <3>1, <3>2, AppendFacts
  <2>3. CASE Len(pending) = QueueSize
    <3>1. /\ Tail(pending) \in Seq(Queueable) /\ Len(Tail(pending)) = Len(pending) - 1
          /\ \A i \in 1..(Len(pending) - 1) : Tail(pending)[i] = pending[i + 1]
      BY <2>3, HeadTailProperties DEF QueueInv, FramesAssumption
    <3>2. /\ pending' \in Seq(Queueable) /\ Len(pending') = Len(pending) /\ taken' = taken + 1
          /\ \A i \in 1..(Len(pending) - 1) : pending'[i] = pending[i + 1]
          /\ pending'[Len(pending)] = q
      BY <2>1, <2>2, <2>3, <3>1, AppendProperties DEF QueueInv
    <3>3. dropped' = dropped \cup {taken + 1}
      BY <2>1, <2>3
    <3>4. ASSUME NEW i \in 1..Len(pending') PROVE pending'[i] = queued'[taken' + i]
      <4>1. /\ taken \in Nat /\ Len(queued) = taken + Len(pending) /\ i \in Nat
            /\ \A j \in 1..Len(pending) : pending[j] = queued[taken + j]
        <5>1. i \in Nat
          BY <2>2, <3>2
        <5>2. taken \in Nat /\ Len(queued) = taken + Len(pending)
          BY DEF QueueInv
        <5>3. \A j \in 1..Len(pending) : pending[j] = queued[taken + j]
          BY DEF QueueInv
        <5>4. QED
          BY <5>1, <5>2, <5>3
      <4>2. CASE i = Len(pending)
        BY <2>2, <3>2, <4>1, <4>2
      <4>3. CASE i # Len(pending)
        <5>1. i + 1 \in 1..Len(pending) /\ i \in 1..(Len(pending) - 1) /\ taken + (i + 1) \in 1..Len(queued)
          BY <2>2, <3>2, <4>1, <4>3
        <5>2. pending'[i] = pending[i + 1] /\ pending[i + 1] = queued[taken + (i + 1)]
          BY <3>2, <4>1, <5>1
        <5>3. queued'[taken + (i + 1)] = queued[taken + (i + 1)] /\ taken' + i = taken + (i + 1)
          BY <2>2, <3>2, <4>1, <5>1
        <5>4. QED
          BY <5>2, <5>3
      <4>4. QED
        BY <4>2, <4>3
    <3>5. dropped' \subseteq Nat /\ \A d \in dropped' : Len(queued') >= d + QueueSize
      BY <2>2, <2>3, <3>3 DEF QueueInv, FramesAssumption
    <3>6. QED
      BY <2>1, <2>2, <2>3, <3>2, <3>4, <3>5 DEF QueueInv
  <2>4. CASE Len(pending) # QueueSize
    <3>1. /\ pending' \in Seq(Queueable) /\ Len(pending') = Len(pending) + 1 /\ taken' = taken
          /\ \A i \in 1..Len(pending) : pending'[i] = pending[i]
          /\ pending'[Len(pending) + 1] = q /\ dropped' = dropped
      BY <2>1, <2>2, <2>4, AppendProperties DEF QueueInv
    <3>2. ASSUME NEW i \in 1..Len(pending') PROVE pending'[i] = queued'[taken' + i]
      <4>1. /\ taken \in Nat /\ Len(queued) = taken + Len(pending) /\ i \in Nat
            /\ \A j \in 1..Len(pending) : pending[j] = queued[taken + j]
        <5>1. i \in Nat
          BY <2>2, <3>1
        <5>2. taken \in Nat /\ Len(queued) = taken + Len(pending)
          BY DEF QueueInv
        <5>3. \A j \in 1..Len(pending) : pending[j] = queued[taken + j]
          BY DEF QueueInv
        <5>4. QED
          BY <5>1, <5>2, <5>3
      <4>2. CASE i = Len(pending) + 1
        BY <2>2, <3>1, <4>1, <4>2
      <4>3. CASE i # Len(pending) + 1
        <5>1. i \in 1..Len(pending) /\ taken + i \in 1..Len(queued)
          BY <2>2, <3>1, <4>1, <4>3
        <5>2. QED
          BY <2>2, <3>1, <4>1, <5>1
      <4>4. QED
        BY <4>2, <4>3
    <3>3. \A d \in dropped : d \in Nat /\ Len(queued') >= d + QueueSize
      BY <2>2 DEF QueueInv, FramesAssumption
    <3>4. Len(pending') <= QueueSize
      BY <2>2, <2>4, <3>1 DEF QueueInv, FramesAssumption
    <3>5. taken' \in Nat /\ Len(queued') = taken' + Len(pending') /\ dropped' \subseteq Nat
      BY <2>2, <3>1 DEF QueueInv
    <3>6. QueueInv'
      BY <2>2, <3>1, <3>2, <3>3, <3>4, <3>5 DEF QueueInv
    <3>7. QED
      BY <2>1, <3>6
  <2>5. QED
    BY <2>3, <2>4
<1>3. QED
  BY <1>1, <1>2

\* A packet that is whole, with the time of its clock.
LEMMA StampKeeps ==
    ASSUME FramesAssumption, FramesInv, NEW q \in Queueable,
           queued' \in {queued, Append(queued, q)}, Clock(videoTS)', Clock(audioTS)',
           videoTS'.accumUS >= videoTS.accumUS, audioTS'.accumUS >= audioTS.accumUS,
           q.ts = IF Handler!IsVideo(q) THEN videoTS'.accumUS ELSE audioTS'.accumUS,
           Handler!IsVideo(q) => q.data = Pieces(q.frame, Shots[q.frame].total)
    PROVE  Stamps' /\ Handler!WholeFrames'
<1> DEFINE n == Len(queued)
<1>0. /\ Clock(videoTS) /\ Clock(audioTS) /\ Handler!ClockNeverBack /\ Handler!WholeFrames
      /\ \A i \in 1..n :
            queued[i].ts <= IF Handler!IsVideo(queued[i]) THEN videoTS.accumUS ELSE audioTS.accumUS
      /\ queued \in Seq(Queueable)
  BY DEF FramesInv, Stamps, QueueInv
<1>1. /\ n \in Nat /\ DOMAIN queued = 1..n /\ \A i \in 1..n : queued[i] \in Queueable
      /\ \/ queued' = queued
         \/ /\ Len(queued') = n + 1 /\ DOMAIN queued' = 1..(n + 1)
            /\ queued'[n + 1] = q /\ \A i \in 1..n : queued'[i] = queued[i]
  BY <1>0, AppendFacts
<1> HIDE DEF n
<1>2. /\ Len(queued') \in {n, n + 1} /\ DOMAIN queued' = 1..Len(queued')
      /\ \A i \in 1..Len(queued') :
            \/ i \in 1..n /\ queued'[i] = queued[i]
            \/ i = n + 1 /\ queued'[i] = q
      /\ \A x \in Queueable : x.ts \in Nat /\ x.frame \in DOMAIN Shots
  BY <1>1 DEF Queueable, n
<1>3. \A i \in 1..Len(queued') :
         queued'[i].ts <= IF Handler!IsVideo(queued'[i]) THEN videoTS'.accumUS ELSE audioTS'.accumUS
  <2> SUFFICES ASSUME NEW i \in 1..Len(queued')
               PROVE  queued'[i].ts <= IF Handler!IsVideo(queued'[i]) THEN videoTS'.accumUS
                                                                     ELSE audioTS'.accumUS
    OBVIOUS
  <2>1. CASE i \in 1..n /\ queued'[i] = queued[i]
    <3>1. /\ queued[i].ts \in Nat /\ {videoTS.accumUS, audioTS.accumUS} \subseteq Nat
          /\ {videoTS'.accumUS, audioTS'.accumUS} \subseteq Nat
      BY <1>0, <1>1, <1>2, <2>1 DEF Clock
    <3>2. queued[i].ts <= IF Handler!IsVideo(queued[i]) THEN videoTS.accumUS ELSE audioTS.accumUS
      BY <1>0, <2>1
    <3>3. Handler!IsVideo(queued'[i]) <=> Handler!IsVideo(queued[i])
      BY <2>1, Zenon DEF Handler!IsVideo
    <3>4. QED
      BY <2>1, <3>1, <3>2, <3>3
  <2>2. CASE i = n + 1 /\ queued'[i] = q
    <3>1. Handler!IsVideo(queued'[i]) <=> Handler!IsVideo(q)
      BY <2>2, Zenon DEF Handler!IsVideo
    <3>2. q.ts \in Nat
      BY <1>2
    <3>3. QED
      BY <2>2, <3>1, <3>2
  <2>3. QED
    BY <1>2, <2>1, <2>2
<1>4. Handler!WholeFrames'
  <2> SUFFICES ASSUME NEW i \in 1..Len(queued'), Handler!IsVideo(queued'[i])
               PROVE  queued'[i].data = Pieces(queued'[i].frame, Shots[queued'[i].frame].total)
    BY <1>2 DEF Handler!WholeFrames, Handler!IsVideo, Pieces
  <2>1. \A j \in 1..n : Handler!IsVideo(queued[j])
           => queued[j].data = Pieces(queued[j].frame, Shots[queued[j].frame].total)
    BY <1>0, <1>1 DEF Handler!WholeFrames, Pieces
  <2>2. QED
    BY <1>2, <2>1
<1>5. Handler!ClockNeverBack'
  <2> SUFFICES ASSUME NEW i \in 1..Len(queued'), NEW j \in 1..Len(queued'), i < j,
                      Handler!IsVideo(queued'[i]) = Handler!IsVideo(queued'[j])
               PROVE  queued'[i].ts <= queued'[j].ts
    BY <1>2 DEF Handler!ClockNeverBack, Handler!IsVideo
  <2>1. i \in 1..n /\ queued'[i] = queued[i]
    <3>1. n \in Nat /\ Len(queued') \in {n, n + 1}
      BY <1>1, <1>2
    <3>2. i # n + 1
      BY <3>1
    <3>3. QED
      BY <1>2, <3>2
  <2>2. CASE j \in 1..n /\ queued'[j] = queued[j]
    BY <1>0, <1>1, <2>1, <2>2 DEF Handler!ClockNeverBack
  <2>3. CASE j = n + 1 /\ queued'[j] = q
    <3>1. queued[i].ts \in Nat /\ q.ts \in Nat
      BY <1>1, <1>2, <2>1
    <3>2. CASE Handler!IsVideo(q)
      <4>1. Handler!IsVideo(queued[i])
        BY <2>1, <2>3, <3>2, Zenon DEF Handler!IsVideo
      <4>2. queued[i].ts <= videoTS.accumUS /\ q.ts = videoTS'.accumUS
        BY <1>0, <2>1, <3>2, <4>1
      <4>3. QED
        BY <1>0, <2>1, <2>3, <3>1, <4>2 DEF Clock
    <3>3. CASE ~Handler!IsVideo(q)
      <4>1. ~Handler!IsVideo(queued[i])
        BY <2>1, <2>3, <3>3, Zenon DEF Handler!IsVideo
      <4>2. queued[i].ts <= audioTS.accumUS /\ q.ts = audioTS'.accumUS
        BY <1>0, <2>1, <3>3, <4>1
      <4>3. QED
        BY <1>0, <2>1, <2>3, <3>1, <4>2 DEF Clock
    <3>4. QED
      BY <3>2, <3>3
  <2>4. QED
    BY <1>2, <2>2, <2>3
<1>6. QED
  BY <1>3, <1>4, <1>5 DEF Stamps

\* What a step leaves to the clocks and the queue.
QueueAndClocks == /\ Stamps /\ QueueInv /\ Handler!WholeFrames /\ Handler!NothingAfterClose

LEMMA NothingQueued ==
    ASSUME QueueAndClocks,
           UNCHANGED <<videoTS, audioTS, pending, queued, taken, dropped, panicked>>
    PROVE  QueueAndClocks'
<1>1. /\ videoTS' = videoTS /\ audioTS' = audioTS /\ pending' = pending /\ queued' = queued
      /\ taken' = taken /\ dropped' = dropped /\ panicked' = panicked
  OBVIOUS
<1>2. Stamps'
  BY <1>1 DEF QueueAndClocks, Stamps, Clock, Handler!ClockNeverBack, Handler!IsVideo
<1>3. QueueInv'
  BY <1>1 DEF QueueAndClocks, QueueInv
<1>4. Handler!WholeFrames' /\ Handler!NothingAfterClose'
  BY <1>1 DEF QueueAndClocks, Handler!WholeFrames, Handler!NothingAfterClose, Handler!IsVideo
<1>5. QED
  BY <1>2, <1>3, <1>4 DEF QueueAndClocks

LEMMA AudioKeeps ==
    ASSUME FramesAssumption, FramesInv, NEW p \in Packets, Shots[p.frame].channel = 3,
           Handler!HandleAudio(p)
    PROVE  Collecting' /\ QueueAndClocks'
<1>0. QueueAndClocks /\ Collecting
  BY DEF FramesInv, QueueAndClocks
<1>1. Collecting'
  BY <1>0 DEF Collecting, Handler!HandleAudio
<1>2. CASE ~Handler!InfoCut(p)
  <2>1. UNCHANGED <<videoTS, audioTS, pending, queued, taken, dropped, panicked>>
    BY <1>2 DEF Handler!HandleAudio
  <2>2. QED
    BY <1>0, <1>1, <2>1, NothingQueued
<1>3. CASE Handler!InfoCut(p)
  <2> DEFINE q == [frame |-> p.frame, data |-> <<p.k>>, ts |-> audioTS'.accumUS]
  <2>1. /\ audioTS' = Handler!Update(audioTS, Handler!Raw(p)) /\ videoTS' = videoTS
        /\ Handler!Queue(q)
    BY <1>3 DEF Handler!HandleAudio
  <2>2. Clock(videoTS)' /\ Clock(audioTS)' /\ audioTS'.accumUS >= audioTS.accumUS
    BY <1>0, <2>1, PacketFacts, ClockAdvances DEF QueueAndClocks, Stamps, Clock
  <2>3. q \in Queueable /\ ~Handler!IsVideo(q) /\ q.ts = audioTS'.accumUS
    <3>1. audioTS'.accumUS \in Nat
      BY <2>2 DEF Clock
    <3>2. p.frame \in DOMAIN Shots /\ p.k \in Nat
      BY PacketFacts
    <3>3. <<p.k>> \in Seq(Nat)
      BY <3>2
    <3>4. QED
      BY <3>1, <3>2, <3>3 DEF Queueable, Handler!IsVideo, Handler!Video
  <2> HIDE DEF q
  <2>4. QueueInv' /\ panicked' = panicked /\ queued' \in {queued, Append(queued, q)}
    BY <1>0, <2>1, <2>3, QueueKeeps DEF QueueAndClocks
  <2>5. videoTS'.accumUS >= videoTS.accumUS
    BY <1>0, <2>1 DEF QueueAndClocks, Stamps, Clock
  <2>6. Stamps' /\ Handler!WholeFrames'
    BY <2>2, <2>3, <2>4, <2>5, StampKeeps
  <2>7. Handler!NothingAfterClose'
    BY <1>0, <2>4, Zenon DEF QueueAndClocks, Handler!NothingAfterClose
  <2>8. QED
    BY <1>1, <2>4, <2>6, <2>7 DEF QueueAndClocks
<1>4. QED
  BY <1>1, <1>2, <1>3

\* A packet meets a channel that collects its own frame, or starts over with it.
LEMMA OwnFrame ==
    ASSUME FramesAssumption, Collecting, NEW p \in Packets, NEW c \in {5, 7},
           Shots[p.frame].channel = c, NEW cs, cs = Handler!StartsOver(channels[c], p)
    PROVE  /\ cs.frameNo = Shots[p.frame].no /\ cs.waitSeq \in Nat
           /\ cs.waitData = Pieces(p.frame, cs.waitSeq)
           /\ cs.pktTotal \in {0, Shots[p.frame].total}
<1>1. p.frame \in DOMAIN Shots /\ p.frame \in Nat
  BY PacketFacts
<1>2. CASE Shots[p.frame].no # channels[c].frameNo
  <2>1. cs.frameNo = Shots[p.frame].no /\ cs.waitSeq = 0 /\ cs.waitData = <<>>
        /\ cs.pktTotal = Shots[p.frame].total
    BY <1>2 DEF Handler!StartsOver, Handler!Reset
  <2>2. QED
    BY <2>1, NoPieceYet
<1>3. CASE Shots[p.frame].no = channels[c].frameNo
  <2>1. cs = channels[c]
    BY <1>3 DEF Handler!StartsOver
  <2>2. CASE cs.waitSeq = 0 /\ cs.waitData = <<>> /\ cs.pktTotal = 0
    BY <1>3, <2>1, <2>2, NoPieceYet
  <2>3. CASE \E f \in DOMAIN Shots :
                /\ Shots[f].channel = c /\ Shots[f].no = channels[c].frameNo
                /\ channels[c].waitSeq \in 0..Shots[f].total
                /\ channels[c].waitData = Pieces(f, channels[c].waitSeq)
                /\ channels[c].pktTotal \in {0, Shots[f].total}
    <3> PICK f \in DOMAIN Shots :
                /\ Shots[f].channel = c /\ Shots[f].no = channels[c].frameNo
                /\ channels[c].waitSeq \in 0..Shots[f].total
                /\ channels[c].waitData = Pieces(f, channels[c].waitSeq)
                /\ channels[c].pktTotal \in {0, Shots[f].total}
      BY <2>3
    <3>1. f = p.frame
      BY <1>1, <1>3 DEF FramesAssumption
    <3>2. QED
      BY <1>3, <2>1, <3>1
  <2>4. QED
    BY <2>1, <2>2, <2>3 DEF Collecting
<1>4. QED
  BY <1>2, <1>3

LEMMA VideoKeeps ==
    ASSUME FramesAssumption, FramesInv, NEW p \in Packets, NEW c \in {5, 7},
           Shots[p.frame].channel = c, Handler!HandleVideo(c, p)
    PROVE  Collecting' /\ QueueAndClocks'
<1>0. QueueAndClocks /\ Collecting
  BY DEF FramesInv, QueueAndClocks
<1> PICK cs : cs = Handler!StartsOver(channels[c], p)
  OBVIOUS
<1> PICK js : js = Handler!Joins(cs, p)
  OBVIOUS
<1>1. /\ cs.frameNo = Shots[p.frame].no /\ cs.waitSeq \in Nat
      /\ cs.waitData = Pieces(p.frame, cs.waitSeq)
      /\ cs.pktTotal \in {0, Shots[p.frame].total}
  BY <1>0, OwnFrame
<1>2. /\ p.frame \in DOMAIN Shots /\ p.frame \in Nat /\ p.k \in 0..(Shots[p.frame].total - 1)
      /\ Handler!PktIdx(p) = p.k /\ Shots[p.frame].total \in Nat \ {0}
      /\ Handler!Raw(p) \in 0..(Wrap - 1)
  BY PacketFacts
<1>3. CASE Handler!PktIdx(p) # cs.waitSeq
  <2>1. /\ channels' = [channels EXCEPT ![c] = Handler!Reset]
        /\ UNCHANGED <<videoTS, audioTS, pending, queued, taken, dropped, panicked>>
    BY <1>3 DEF Handler!HandleVideo
  <2>2. Collecting'
    BY <1>0, <2>1 DEF Collecting, Handler!Reset
  <2>3. QED
    BY <1>0, <2>1, <2>2, NothingQueued
<1>4. CASE Handler!PktIdx(p) = cs.waitSeq
  <2>1. /\ js.frameNo = cs.frameNo /\ js.pktTotal = cs.pktTotal
        /\ js.waitSeq = p.k + 1 /\ js.waitData = Append(cs.waitData, <<p.frame, p.k>>)
    <3>1. js.waitSeq = cs.waitSeq + 1 /\ js.waitData = Append(cs.waitData, <<p.frame, p.k>>)
          /\ js.frameNo = cs.frameNo /\ js.pktTotal = cs.pktTotal
      BY DEF Handler!Joins, Handler!StartsOver, Handler!Reset
    <3>2. QED
      BY <1>2, <1>4, <3>1
  <2>2. js.waitData = Pieces(p.frame, p.k + 1) /\ p.k \in Nat
    <3>1. p.k \in Nat /\ cs.waitData = Pieces(p.frame, p.k)
      BY <1>1, <1>2, <1>4
    <3>2. Append(Pieces(p.frame, p.k), <<p.frame, p.k>>) = Pieces(p.frame, p.k + 1)
      BY <1>2, <3>1, OnePieceMore
    <3>3. QED
      BY <2>1, <3>1, <3>2
  <2>3. CASE ~(js.waitSeq = js.pktTotal /\ js.frameInfo)
    <3>1. /\ channels' = [channels EXCEPT ![c] = js]
          /\ UNCHANGED <<videoTS, audioTS, pending, queued, taken, dropped, panicked>>
      BY <1>4, <2>3 DEF Handler!HandleVideo
    <3>2. Collecting'
      <4>1. js.waitSeq \in 0..Shots[p.frame].total
        BY <1>2, <2>1
      <4>2. js.waitData = Pieces(p.frame, js.waitSeq)
        BY <2>1, <2>2
      <4>3. channels'[c] = js /\ \A d \in {5, 7} \ {c} : channels'[d] = channels[d]
        BY <1>0, <3>1 DEF Collecting
      <4>4. channels' = [d \in {5, 7} |-> channels'[d]]
        BY <1>0, <3>1 DEF Collecting
      <4>5. /\ Shots[p.frame].channel = c /\ Shots[p.frame].no = js.frameNo
            /\ js.pktTotal \in {0, Shots[p.frame].total}
        BY <1>1, <2>1
      <4> DEFINE Begun(cs1, f) == /\ Shots[f].no = cs1.frameNo /\ cs1.waitSeq \in 0..Shots[f].total
                                  /\ cs1.waitData = Pieces(f, cs1.waitSeq)
                                  /\ cs1.pktTotal \in {0, Shots[f].total}
                 Holds(cs1, d) == \/ cs1.waitSeq = 0 /\ cs1.waitData = <<>> /\ cs1.pktTotal = 0
                                  \/ \E f \in DOMAIN Shots : Shots[f].channel = d /\ Begun(cs1, f)
      <4>6. Begun(js, p.frame)
        BY <4>1, <4>2, <4>5
      <4>7. \A d \in {5, 7} : Holds(channels[d], d)
        BY <1>0 DEF Collecting
      <4> HIDE DEF Begun
      <4>8. Holds(js, c)
        BY <1>2, <4>5, <4>6
      <4>9. \A d \in {5, 7} : Holds(channels'[d], d)
        BY <4>3, <4>7, <4>8
      <4>10. QED
        BY <4>4, <4>9 DEF Collecting, Begun
    <3>3. QED
      BY <1>0, <3>1, <3>2, NothingQueued
  <2>4. CASE js.waitSeq = js.pktTotal /\ js.frameInfo
    <3>1. channels' = [channels EXCEPT ![c] = Handler!Reset] /\ audioTS' = audioTS
      BY <1>4, <2>4 DEF Handler!HandleVideo
    <3>2. Collecting'
      BY <1>0, <3>1 DEF Collecting, Handler!Reset
    <3>3. js.waitData = Pieces(p.frame, Shots[p.frame].total)
      BY <1>1, <1>2, <2>1, <2>2, <2>4
    <3>4. CASE Len(js.waitData) # Shots[p.frame].total
      <4>1. UNCHANGED <<videoTS, audioTS, pending, queued, taken, dropped, panicked>>
        BY <1>4, <2>4, <3>4 DEF Handler!HandleVideo
      <4>2. QED
        BY <1>0, <3>2, <4>1, NothingQueued
    <3>5. CASE Len(js.waitData) = Shots[p.frame].total
      <4> DEFINE q == [frame |-> p.frame, data |-> js.waitData, ts |-> videoTS'.accumUS]
      <4>1. videoTS' = Handler!Update(videoTS, Handler!Raw(p)) /\ Handler!Queue(q)
        BY <1>4, <2>4, <3>5 DEF Handler!HandleVideo
      <4>2. Clock(videoTS)' /\ Clock(audioTS)' /\ videoTS'.accumUS >= videoTS.accumUS
        BY <1>0, <1>2, <3>1, <4>1, ClockAdvances DEF QueueAndClocks, Stamps, Clock
      <4>3. /\ q \in Queueable /\ Handler!IsVideo(q) /\ q.ts = videoTS'.accumUS
            /\ q.data = Pieces(q.frame, Shots[q.frame].total)
        <5>1. videoTS'.accumUS \in Nat
          BY <4>2 DEF Clock
        <5>2. js.waitData \in Seq(Nat \X Nat)
          BY <1>2, <3>3, OnePieceMore
        <5>3. QED
          BY <1>2, <3>3, <5>1, <5>2 DEF Queueable, Handler!IsVideo, Handler!Video
      <4> HIDE DEF q
      <4>4. QueueInv' /\ panicked' = panicked /\ queued' \in {queued, Append(queued, q)}
        BY <1>0, <4>1, <4>3, QueueKeeps DEF QueueAndClocks
      <4>5. audioTS'.accumUS >= audioTS.accumUS
        BY <1>0, <3>1 DEF QueueAndClocks, Stamps, Clock
      <4>6. Stamps' /\ Handler!WholeFrames'
        BY <4>2, <4>3, <4>4, <4>5, StampKeeps
      <4>7. Handler!NothingAfterClose'
        BY <1>0, <4>4, Zenon DEF QueueAndClocks, Handler!NothingAfterClose
      <4>8. QED
        BY <3>2, <4>4, <4>6, <4>7 DEF QueueAndClocks
    <3>6. QED
      BY <3>4, <3>5
  <2>5. QED
    BY <2>3, <2>4
<1>5. QED
  BY <1>3, <1>4

\* A datagram that is lost or taken leaves the packets of the others.
LEMMA OneLess ==
    ASSUME NEW S, NEW s \in Seq(S), NEW i \in 1..Len(s)
    PROVE  Handler!RemoveAt(s, i) \in Seq(S) /\ s[i] \in S
<1>1. Len(s) \in Nat /\ s[i] \in S
  BY LenProperties, ElementOfSeq
<1>2. SubSeq(s, 1, i - 1) \in Seq(S) /\ SubSeq(s, i + 1, Len(s)) \in Seq(S)
  BY <1>1, SubSeqProperties
<1>3. QED
  BY <1>1, <1>2, ConcatProperties DEF Handler!RemoveAt

LEMMA FramesStep ==
    ASSUME FramesAssumption, FramesInv, [Handler!Next]_(Handler!vars)
    PROVE  FramesInv'
<1>0. WireTypes /\ Collecting /\ QueueAndClocks /\ wire \in Seq(Packets)
  BY DEF FramesInv, QueueAndClocks, WireTypes
<1>1. CASE Handler!CameraSends
  <2>1. /\ UNCHANGED <<channels, videoTS, audioTS, pending, queued, taken, dropped, panicked>>
        /\ place[1] \in 1..Len(Shots) /\ wire' = Append(wire, Handler!Packet(place[1], place[2]))
        /\ place' = IF place[2] = Shots[place[1]].total - 1 THEN <<place[1] + 1, 0>>
                                                           ELSE <<place[1], place[2] + 1>>
    <3>1. Len(Shots) \in Nat
      BY LenProperties DEF FramesAssumption
    <3>2. QED
      BY <1>0, <1>1, <3>1 DEF Handler!CameraSends, Handler!handler, WireTypes
  <2>2. /\ DOMAIN Shots = 1..Len(Shots) /\ Len(Shots) \in Nat
        /\ \A f \in 1..Len(Shots) : Shots[f].total \in Nat \ {0}
    <3>1. Shots \in Seq([channel: {3, 5, 7}, no: Nat, total: Nat \ {0}, first: STRING, time: Nat])
      BY DEF FramesAssumption
    <3>2. \A f \in 1..Len(Shots) :
             Shots[f] \in [channel: {3, 5, 7}, no: Nat, total: Nat \ {0}, first: STRING, time: Nat]
      BY <3>1, ElementOfSeq
    <3>3. QED
      BY <3>1, <3>2, LenProperties
  <2>3. Handler!Packet(place[1], place[2]) \in Packets
    <3>1. place[2] \in 0..(Shots[place[1]].total - 1)
      BY <1>0, <2>1, <2>2 DEF WireTypes
    <3>2. QED
      BY <2>1, <2>2, <3>1 DEF Packets
  <2>4. wire' \in Seq(Packets)
    BY <1>0, <2>1, <2>3, AppendFacts
  <2>5. /\ place' \in (Nat \ {0}) \X Nat
        /\ place'[1] \in DOMAIN Shots => place'[2] < Shots[place'[1]].total
    BY <1>0, <2>1, <2>2 DEF WireTypes
  <2>6. QueueAndClocks'
    BY <1>0, <2>1, NothingQueued
  <2>7. Collecting'
    BY <1>0, <2>1 DEF Collecting
  <2>8. QED
    BY <2>4, <2>5, <2>6, <2>7 DEF FramesInv, QueueAndClocks, WireTypes
<1>2. ASSUME NEW i \in DOMAIN wire, Handler!NetworkLoses(i) PROVE FramesInv'
  <2>1. /\ UNCHANGED <<place, channels, videoTS, audioTS, pending, queued, taken, dropped, panicked>>
        /\ wire' = Handler!RemoveAt(wire, i)
    BY <1>2 DEF Handler!NetworkLoses, Handler!handler
  <2>2. wire' \in Seq(Packets)
    BY <1>0, <2>1, OneLess, LenProperties
  <2>3. QueueAndClocks'
    BY <1>0, <2>1, NothingQueued
  <2>4. QED
    BY <1>0, <2>1, <2>2, <2>3 DEF FramesInv, QueueAndClocks, WireTypes, Collecting
<1>3. ASSUME NEW i \in DOMAIN wire, NEW double \in BOOLEAN, Handler!Receive(i, double)
      PROVE FramesInv'
  <2>1. /\ UNCHANGED place /\ wire' \in {wire, Handler!RemoveAt(wire, i)}
        /\ Handler!Handle(wire[i])
    BY <1>3 DEF Handler!Receive
  <2>2. wire' \in Seq(Packets) /\ wire[i] \in Packets
    BY <1>0, <2>1, OneLess, LenProperties
  <2>3. Shots[wire[i].frame].channel \in {3, 5, 7}
    BY <2>2, PacketFacts
  <2>4. CASE Shots[wire[i].frame].channel = 3
    <3>1. Handler!HandleAudio(wire[i])
      BY <2>1, <2>4 DEF Handler!Handle, Handler!Audio
    <3>2. Collecting' /\ QueueAndClocks'
      BY <2>2, <2>4, <3>1, AudioKeeps
    <3>3. QED
      BY <1>0, <2>1, <2>2, <3>2 DEF FramesInv, QueueAndClocks, WireTypes
  <2>5. CASE Shots[wire[i].frame].channel \in {5, 7}
    <3>1. Handler!HandleVideo(Shots[wire[i].frame].channel, wire[i])
      BY <2>1, <2>5 DEF Handler!Handle, Handler!Audio
    <3>2. Collecting' /\ QueueAndClocks'
      BY <2>2, <2>5, <3>1, VideoKeeps
    <3>3. QED
      BY <1>0, <2>1, <2>2, <3>2 DEF FramesInv, QueueAndClocks, WireTypes
  <2>6. QED
    BY <2>3, <2>4, <2>5
<1>4. CASE Handler!Recv
  <2>1. /\ UNCHANGED <<place, wire, channels, videoTS, audioTS, queued, dropped, panicked>>
        /\ pending # <<>> /\ pending' = Tail(pending) /\ taken' = taken + 1
    BY <1>4 DEF Handler!Recv
  <2>2. /\ pending \in Seq(Queueable) /\ Len(queued) = taken + Len(pending) /\ taken \in Nat
        /\ Len(pending) <= QueueSize
        /\ \A i \in 1..Len(pending) : pending[i] = queued[taken + i]
    BY <1>0 DEF QueueAndClocks, QueueInv
  <2>3. /\ pending' \in Seq(Queueable) /\ Len(pending') = Len(pending) - 1 /\ Len(pending) \in Nat
        /\ \A i \in 1..(Len(pending) - 1) : pending'[i] = pending[i + 1]
    BY <2>1, <2>2, HeadTailProperties, LenProperties
  <2>4. \A i \in 1..Len(pending') : pending'[i] = queued'[taken' + i]
    <3> SUFFICES ASSUME NEW i \in 1..(Len(pending) - 1) PROVE pending'[i] = queued[(taken + 1) + i]
      BY <2>1, <2>3
    <3>1. i + 1 \in 1..Len(pending) /\ taken + (i + 1) = (taken + 1) + i
      BY <2>2, <2>3
    <3>2. QED
      BY <2>2, <2>3, <3>1
  <2>5. QueueInv'
    <3>1. Len(pending') <= QueueSize /\ Len(queued') = taken' + Len(pending') /\ taken' \in Nat
      <4>1. Len(pending') <= QueueSize
        <5>1. QueueSize \in Nat
          BY DEF FramesAssumption
        <5>2. QED
          BY <5>1, <2>2, <2>3
      <4>2. Len(queued') = taken' + Len(pending') /\ taken' \in Nat
        <5>1. queued' = queued /\ taken' = taken + 1
          BY <2>1
        <5>2. Len(queued') = Len(queued)
          BY <5>1
        <5>3. QED
          BY <5>1, <5>2, <2>2, <2>3
      <4>3. QED
        BY <4>1, <4>2
    <3>2. QED
      BY <1>0, <2>1, <2>3, <2>4, <3>1 DEF QueueAndClocks, QueueInv
  <2>6. Stamps' /\ Handler!WholeFrames' /\ Handler!NothingAfterClose'
    BY <1>0, <2>1 DEF QueueAndClocks, Stamps, Clock, Handler!ClockNeverBack, Handler!IsVideo,
       Handler!WholeFrames, Handler!NothingAfterClose
  <2>7. QED
    BY <1>0, <2>1, <2>5, <2>6 DEF FramesInv, WireTypes, Collecting
<1>5. CASE Handler!Close \/ UNCHANGED Handler!vars
  <2>1. UNCHANGED <<place, wire, channels, videoTS, audioTS, pending, queued, taken, dropped, panicked>>
    BY <1>5 DEF Handler!Close, Handler!vars
  <2>2. QueueAndClocks'
    BY <1>0, <2>1, NothingQueued
  <2>3. QED
    BY <1>0, <2>1, <2>2 DEF FramesInv, QueueAndClocks, WireTypes, Collecting
<1>6. QED
  BY <1>1, <1>2, <1>3, <1>4, <1>5 DEF Handler!Next

\* Whatever is lost, doubled or swapped on either channel, and however slow the
\* reader is: a video frame that is queued is all packets of one frame of the camera
\* in their order; the clock of the viewers never runs back; the queue holds the
\* newest frames and drops only the oldest; and a Close under the worker crashes
\* nothing (frame.go FrameHandler).
THEOREM FramesAreWhole ==
    ASSUME FramesAssumption
    PROVE  Handler!Spec => [](/\ Handler!WholeFrames /\ Handler!ClockNeverBack
                              /\ Handler!NewestKept /\ Handler!NothingAfterClose)
<1>1. Handler!Init => FramesInv
  <2> SUFFICES ASSUME Handler!Init PROVE FramesInv
    OBVIOUS
  <2>1. /\ wire = <<>> /\ place = <<1, 0>> /\ queued = <<>> /\ pending = <<>> /\ taken = 0
        /\ dropped = {} /\ panicked = FALSE /\ channels = [c \in {5, 7} |-> Handler!Reset]
        /\ videoTS = Handler!NewTracker /\ audioTS = Handler!NewTracker
    BY DEF Handler!Init, Handler!Video
  <2>2. WireTypes
    <3>1. 1 \in DOMAIN Shots => Shots[1].total > 0
      <4>1. Shots \in Seq([channel: {3, 5, 7}, no: Nat, total: Nat \ {0}, first: STRING, time: Nat])
        BY DEF FramesAssumption
      <4>2. 1 \in DOMAIN Shots =>
               Shots[1] \in [channel: {3, 5, 7}, no: Nat, total: Nat \ {0}, first: STRING, time: Nat]
        <5> DEFINE T == [channel: {3, 5, 7}, no: Nat, total: Nat \ {0}, first: STRING, time: Nat]
        <5>1. Shots \in Seq(T) /\ DOMAIN Shots = 1..Len(Shots)
          BY <4>1, LenProperties
        <5> HIDE DEF T
        <5>2. 1 \in DOMAIN Shots => Shots[1] \in T
          BY <5>1, ElementOfSeq
        <5>3. QED
          BY <5>2 DEF T
      <4>3. QED
        BY <4>2
    <3>2. QED
      BY <2>1, <3>1, EmptySeq DEF WireTypes
  <2>3. Collecting
    BY <2>1 DEF Collecting, Handler!Reset
  <2>4. Stamps /\ Handler!WholeFrames
    BY <2>1, EmptySeq DEF FramesAssumption, Stamps, Clock, Handler!NewTracker, Handler!ClockNeverBack,
       Handler!WholeFrames
  <2>5. QueueInv
    BY <2>1, EmptySeq DEF FramesAssumption, QueueInv
  <2>6. QED
    BY <2>1, <2>2, <2>3, <2>4, <2>5, Zenon DEF FramesInv, Handler!NothingAfterClose
<1>2. FramesInv /\ [Handler!Next]_(Handler!vars) => FramesInv'
  BY FramesStep
<1>3. FramesInv => /\ Handler!WholeFrames /\ Handler!ClockNeverBack
                   /\ Handler!NewestKept /\ Handler!NothingAfterClose
  <2> SUFFICES ASSUME FramesInv PROVE Handler!NewestKept
    BY DEF FramesInv, Stamps
  <2>1. /\ queued \in Seq(Queueable) /\ pending \in Seq(Queueable) /\ taken \in Nat
        /\ Len(pending) <= QueueSize /\ Len(queued) = taken + Len(pending)
        /\ \A i \in 1..Len(pending) : pending[i] = queued[taken + i]
        /\ \A d \in dropped : Len(queued) >= d + QueueSize
    BY DEF FramesInv, QueueInv
  <2>2. /\ Len(queued) \in Nat /\ Len(pending) \in Nat
        /\ pending = [i \in 1..Len(pending) |-> pending[i]]
    BY <2>1, LenProperties
  <2>3. pending = [i \in 1..Len(pending) |-> queued[taken + i]]
    BY <2>1, <2>2
  <2>4. SubSeq(queued, taken + 1, Len(queued)) = [i \in 1..Len(pending) |-> queued[taken + i]]
    BY <2>1, <2>2
  <2>5. Len(queued) - Len(pending) + 1 = taken + 1
    BY <2>1, <2>2
  <2>6. pending = SubSeq(queued, Len(queued) - Len(pending) + 1, Len(queued))
    BY <2>3, <2>4, <2>5
  <2>7. QED
    BY <2>1, <2>6 DEF Handler!NewestKept
<1>4. QED
  BY <1>1, <1>2, <1>3, PTL DEF Handler!Spec
=============================================================================
