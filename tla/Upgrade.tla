------------------------------ MODULE Upgrade ------------------------------
(***************************************************************************)
(* The upgrade of a private go2rtc config in place, with the HomeKit         *)
(* identity kept and the replaced text backed up: upgrade_config of          *)
(* config_tool.py and upgrade of migrate-ezviz-config.py, which differ only  *)
(* in how they render the new text.  It runs before the bridge, at every     *)
(* start, and may die between its two writes; between two runs the owner may *)
(* put an older text back.                                                   *)
(***************************************************************************)
CONSTANTS Texts,        \* texts of earlier versions
          None

VARIABLES config,       \* [text, current]: current is the upgrade of an old text
          bak, named,   \* the backup with the fixed name; those with a digest
          step, source, \* the running upgrade, and the text it has read
          replaced      \* history: texts that an upgrade has overwritten

vars == <<config, bak, named, step, source, replaced>>

Init ==
    /\ config \in [text : Texts, current : {FALSE}] /\ bak = None /\ named = {}
    /\ step = "none" /\ source = None /\ replaced = {}

\* A text of the current version is left alone; others are read and rendered.
Read ==
    /\ step = "none" /\ ~config.current
    /\ step' = "backup" /\ source' = config.text
    /\ UNCHANGED <<config, bak, named, replaced>>

\* Mutant: one backup is thought to be enough.
BackupOnce ==
    /\ step = "backup" /\ step' = "write"
    /\ IF bak = None THEN bak' = source ELSE UNCHANGED bak
    /\ UNCHANGED <<config, named, source, replaced>>

\* _secure_backup: a backup of the same text is used again, one of another text
\* is never overwritten.
Backup ==
    /\ step = "backup" /\ step' = "write"
    /\ IF bak = None THEN bak' = source /\ UNCHANGED named
       ELSE /\ UNCHANGED bak
            /\ named' = IF bak = source THEN named ELSE named \cup {source}
    /\ UNCHANGED <<config, source, replaced>>

\* _secure_write replaces the config in one step.
Write ==
    /\ step = "write" /\ step' = "none"
    /\ config' = [text |-> source, current |-> TRUE] /\ replaced' = replaced \cup {source}
    /\ UNCHANGED <<bak, named, source>>

\* The process dies, or a write fails and it gives up.
Dies == step # "none" /\ step' = "none" /\ UNCHANGED <<config, bak, named, source, replaced>>

\* The owner restores or copies an older text.
Restore ==
    /\ step = "none" /\ config' \in [text : Texts, current : {FALSE}]
    /\ UNCHANGED <<bak, named, step, source, replaced>>

Next == Read \/ Backup \/ Write \/ Dies \/ Restore
Spec == Init /\ [][Next]_vars
-----------------------------------------------------------------------------
\* Every variable has its type.
TypeOK ==
    /\ config \in [text : Texts, current : BOOLEAN] /\ bak \in Texts \cup {None}
    /\ named \subseteq Texts /\ step \in {"none", "backup", "write"}
    /\ source \in Texts \cup {None} /\ replaced \subseteq Texts

\* Every text that an upgrade has overwritten is still in a backup, through any
\* number of upgrades, crashes and restored texts (_secure_backup).
NothingLost == replaced \subseteq named \cup {bak}

\* What the module promises.
Promise == []TypeOK /\ []NothingLost
=============================================================================
