----------------------------- MODULE Migration -----------------------------
(***************************************************************************)
(* The one-shot tools that fill an empty data volume (config_tool.py): the   *)
(* migration of an older installation's directory, which compose runs before *)
(* every start of the bridge, and the import that manage.sh offers.  Both    *)
(* write several files one after the other; the migration leaves a marker    *)
(* from its first write to its last, so that a run after a crash resumes.    *)
(* The source does not change while a tool reads it, one tool runs at a time *)
(* and the bridge does not start meanwhile.  Temporary files are left out:   *)
(* every look at the volume skips them.                                      *)
(***************************************************************************)
EXTENDS Integers

CONSTANTS Cameras, Tokens, Owner,  \* Owner[t]: the camera that t was verified for
          Serials,                 \* values of EZVIZ_SERIAL: cameras, or None
          Legacy, Fresh, None,     \* HomeKit identities: the old one, a new one
          MaxFaults                \* bound: crashes and failing writes

VARIABLES source,                  \* the older installation: token, complete binding
          serial,                  \* EZVIZ_SERIAL of this start
          config, token, auth,     \* the volume: identity, session, its binding
          marker,                  \* what the migration in progress copies
          used,                    \* the bridge has run on this volume
          tool, plan,              \* the running tool, and what it has read
          ok,                      \* the last migration lets the bridge start
          torn,                    \* history: an import died while it was undone
          faults

volume == <<config, token, auth, marker>>
env == <<source, serial>>
vars == <<env, volume, used, tool, plan, ok, torn, faults>>

Unbound == "unbound"
Sources == {s \in [token : Tokens \cup {None}, bound : Cameras \cup {None}] :
                s.token # None /\ s.bound # None => Owner[s.token] = s.bound}

Init ==
    /\ source \in Sources /\ serial \in Serials
    /\ config = None /\ token = None /\ auth = None /\ marker = None /\ used = FALSE
    /\ tool = "none" /\ plan = None /\ ok = FALSE /\ torn = FALSE /\ faults = 0
-----------------------------------------------------------------------------
\* Between two runs the owner may use the old installation again, or edit .env.
SourceChanges ==
    /\ tool = "none" /\ ~used /\ source' \in Sources /\ serial' \in Serials
    /\ UNCHANGED <<volume, used, tool, plan, ok, torn, faults>>

\* A binding without its token, or of another camera than EZVIZ_SERIAL names.
Refused == \/ source.token = None /\ source.bound # None
           \/ source.bound # None /\ serial # None /\ source.bound # serial

Payload == [token |-> source.token, serial |-> serial]

\* Mutant: what an interrupted run of another source has written is kept.
PrepareKeeps ==
    IF marker # None THEN (IF used THEN "none" ELSE "token")
    ELSE IF used \/ token # None \/ auth # None THEN "none" ELSE "marker"

\* The volume is empty, or holds what an interrupted run has written, which is
\* dropped when that run copied something else.
Prepare ==
    IF marker # None
    THEN IF used THEN "none" ELSE IF marker = Payload THEN "token" ELSE "dropToken"
    ELSE IF used \/ token # None \/ auth # None THEN "none" ELSE "marker"

\* migrate_legacy_bind_state up to its first write.  An incomplete binding, or
\* none, is imported as unbound.
Migrate ==
    /\ tool = "none"
    /\ IF config # None
       THEN tool' = (IF marker # None THEN "finish" ELSE "none") /\ UNCHANGED plan
       ELSE IF Refused THEN tool' = "none" /\ UNCHANGED plan
       ELSE /\ tool' = Prepare
            /\ plan' = [by |-> "migrate", token |-> source.token, serial |-> serial,
                        bound |-> IF source.bound = None THEN Unbound ELSE source.bound]
    /\ ok' = (config # None /\ marker = None)
    /\ UNCHANGED <<env, volume, used, torn, faults>>

\* There is no older installation (any more): nothing to do.
NothingToMigrate ==
    /\ tool = "none" /\ config = None /\ ok' = TRUE
    /\ UNCHANGED <<env, volume, used, tool, plan, torn, faults>>

Goto(from, to) == tool = from /\ tool' = to
Rest == UNCHANGED <<env, used, plan, torn, faults>>

\* One write or removal each, in the order of the code.
DropToken == /\ Goto("dropToken", "dropAuth") /\ token' = None
             /\ UNCHANGED <<config, auth, marker, ok>> /\ Rest
DropAuth == /\ Goto("dropAuth", "marker") /\ auth' = None
            /\ UNCHANGED <<config, token, marker, ok>> /\ Rest
WriteMarker == /\ Goto("marker", "token")
               /\ marker' = [token |-> plan.token, serial |-> plan.serial]
               /\ UNCHANGED <<config, token, auth, ok>> /\ Rest
WriteToken == /\ Goto("token", IF plan.token = None THEN "config" ELSE "auth")
              /\ token' = IF plan.token = None THEN token ELSE plan.token
              /\ UNCHANGED <<config, auth, marker, ok>> /\ Rest
\* Mutant: the identity is written before the binding of its session.
WriteAuthLast == /\ Goto("auth", "config") /\ config' = Legacy
                 /\ UNCHANGED <<token, auth, marker, ok>> /\ Rest

WriteAuth == /\ Goto("auth", "config") /\ auth' = plan.bound
             /\ UNCHANGED <<config, token, marker, ok>> /\ Rest

WriteConfig == /\ Goto("config", "own") /\ config' = Legacy
               /\ UNCHANGED <<token, auth, marker, ok>> /\ Rest

\* chown, then the marker goes; a run that finds config and marker does only this.
Own == /\ (Goto("own", "none") \/ Goto("finish", "none")) /\ marker' = None /\ ok' = TRUE
       /\ UNCHANGED <<config, token, auth>> /\ Rest
-----------------------------------------------------------------------------
\* import-state: into an empty volume, the identity first; its token is never bound.
Import ==
    /\ tool = "none" /\ config = None /\ token = None /\ auth = None /\ source.token # None
    /\ tool' = "importToken" /\ config' = Legacy
    /\ plan' = [by |-> "import", token |-> source.token, serial |-> None, bound |-> Unbound]
    /\ UNCHANGED <<env, token, auth, marker, used, ok, torn, faults>>
ImportToken == /\ Goto("importToken", "importAuth") /\ token' = plan.token
               /\ UNCHANGED <<config, auth, marker, ok>> /\ Rest
ImportAuth == /\ Goto("importAuth", "importOwn") /\ auth' = plan.bound
              /\ UNCHANGED <<config, token, marker, ok>> /\ Rest
ImportOwn == /\ Goto("importOwn", "none") /\ UNCHANGED <<volume, ok>> /\ Rest

\* A write fails: what was written is taken back, but not what a run prepares or
\* what an earlier run has written.
Fail ==
    /\ faults < MaxFaults /\ faults' = faults + 1 /\ ok' = FALSE
    /\ \/ tool \in {"dropToken", "dropAuth", "marker", "finish"} /\ tool' = "none"
       \/ tool \in {"token", "auth", "config", "own"} /\ tool' = "undo"
       \/ tool \in {"importToken", "importAuth", "importOwn"} /\ tool' = "undoImport"
    /\ UNCHANGED <<env, volume, used, plan, torn>>

\* Mutant: the marker is taken back first.
UndoMarkerFirst == /\ \/ Goto("undo", "undoToken") /\ marker' = None
                      \/ Goto("undoImport", "undoImportToken") /\ UNCHANGED marker
                   /\ config' = None /\ UNCHANGED <<token, auth, ok>> /\ Rest

UndoConfig == /\ (Goto("undo", "undoToken") \/ Goto("undoImport", "undoImportToken"))
              /\ config' = None /\ UNCHANGED <<token, auth, marker, ok>> /\ Rest
UndoToken == /\ (Goto("undoToken", "undoAuth") \/ Goto("undoImportToken", "undoImportAuth"))
             /\ token' = None /\ UNCHANGED <<config, auth, marker, ok>> /\ Rest
UndoAuth == /\ (Goto("undoAuth", "undoMarker") \/ Goto("undoImportAuth", "none"))
            /\ auth' = None /\ UNCHANGED <<config, token, marker, ok>> /\ Rest
UndoMarker == /\ Goto("undoMarker", "none") /\ marker' = None
              /\ UNCHANGED <<config, token, auth, ok>> /\ Rest

\* The container or the host stops between two writes.
Crash ==
    /\ tool # "none" /\ faults < MaxFaults /\ faults' = faults + 1
    /\ tool' = "none" /\ ok' = FALSE
    /\ torn' = (torn \/ tool \in {"undoImportToken", "undoImportAuth"})
    /\ UNCHANGED <<env, volume, used, plan>>
-----------------------------------------------------------------------------
\* Mutant: the identity is made without a look for one.
BridgeStartAfresh ==
    /\ tool = "none" /\ ok /\ used' = TRUE /\ config' = Fresh
    /\ UNCHANGED <<env, token, auth, marker, tool, plan, ok, torn, faults>>

\* The bridge starts after a migration that succeeded; without a config it makes
\* an identity of its own (_initialize_homekit_config).
BridgeStart ==
    /\ tool = "none" /\ ok /\ used' = TRUE
    /\ config' = IF config = None THEN Fresh ELSE config
    /\ UNCHANGED <<env, token, auth, marker, tool, plan, ok, torn, faults>>

\* A login through the bridge (module Binding), in one step.
Login(t) ==
    /\ used /\ token' = t /\ auth' = Owner[t]
    /\ UNCHANGED <<env, config, marker, used, tool, plan, ok, torn, faults>>

Step == DropToken \/ DropAuth \/ WriteMarker \/ WriteToken \/ WriteAuth \/ WriteConfig \/ Own
        \/ ImportToken \/ ImportAuth \/ ImportOwn
        \/ UndoConfig \/ UndoToken \/ UndoAuth \/ UndoMarker
Next == SourceChanges \/ Migrate \/ NothingToMigrate \/ Import \/ Step \/ Fail \/ Crash
        \/ BridgeStart \/ \E t \in Tokens : Login(t)
Fairness == WF_vars(Step)
Spec == Init /\ [][Next]_vars /\ Fairness
-----------------------------------------------------------------------------
\* Every variable has its type.
TypeOK ==
    /\ config \in {Legacy, Fresh, None} /\ token \in Tokens \cup {None}
    /\ auth \in Cameras \cup {Unbound, None} /\ {used, ok, torn} \subseteq BOOLEAN
    /\ marker # None => marker.token \in Tokens \cup {None}
    /\ faults \in 0..MaxFaults

\* Whatever runs, sources and crashes came before: a token in the volume is never
\* bound to a camera that it was not verified for (README and the docstring of
\* migrate_legacy_bind_state).
TokenOfItsCamera == (token # None /\ auth \in Cameras) => Owner[token] = auth

\* "The HomeKit config is the final commit marker": a migrated identity is there
\* only with the session and the binding that were read with it.
CommitIsLast ==
    (config = Legacy /\ ~used /\ ~torn /\ plan.by = "migrate")
        => token = plan.token /\ (token # None => auth = plan.bound)

\* A volume that a migration left half filled lets the next one in: nothing is
\* there without the marker.  Only an import that dies while it takes back what it
\* wrote leaves a volume that neither tool accepts.
NeverStuck ==
    (config = None /\ marker = None /\ ~used /\ ~torn /\ tool = "none")
        => token = None /\ auth = None

\* Compose runs the migration before every start: an identity that is there stays
\* but for the run that wrote it, and once the bridge has run nothing but a login
\* changes its session.
BridgeKeepsItsOwn ==
    [][/\ tool = "none" /\ config # None => config' = config
       /\ used /\ <<token, auth>>' # <<token, auth>> => \E t \in Tokens : Login(t)]_vars

\* Every run ends: its files are written or taken back.
RunsEnd == (tool # "none") ~> (tool = "none")

\* What the module promises.
Promise == [](TypeOK /\ TokenOfItsCamera /\ CommitIsLast /\ NeverStuck) /\ BridgeKeepsItsOwn /\ RunsEnd
=============================================================================
