---------------------------- MODULE Certificate ----------------------------
(***************************************************************************)
(* The certificate of the setup wizard (tls_config.py): a pair of files that *)
(* is checked at the start and again by the thread tls_thread, made anew     *)
(* when it expires or no longer covers the addresses, and loaded into the    *)
(* server that is running.  The two files are replaced one after the other.  *)
(* The health check of the container trusts the certificate file and         *)
(* connects to the server, so the two must not part for good.                *)
(***************************************************************************)
EXTENDS Integers

CONSTANT MaxChanges,   \* bound: changes of what is good
         MaxFaults      \* bound: writes, openssl calls and loads that fail, crashes

VARIABLES key, cert,    \* the pairs that the two files belong to; 0: no file
          good,         \* pairs within their lifetime that cover the addresses
          made,         \* pairs made so far
          step,         \* of ensure_tls_certificate and its caller
          up,           \* the server runs
          served,       \* the pair in the server's context
          fingerprint,  \* what the maintenance thread believes is served
          faults, changes

files == <<key, cert, made>>
bounds == <<faults, changes>>
vars == <<files, good, step, up, served, fingerprint, bounds>>

Init ==
    /\ key = 0 /\ cert = 0 /\ good = {} /\ made = 0
    /\ step = "new" /\ up = FALSE /\ served = 0 /\ fingerprint = 0
    /\ faults = 0 /\ changes = 0
-----------------------------------------------------------------------------
Goto(from, to) == step = from /\ step' = to
Valid == key = cert /\ cert \in good

\* compose up for the first time.
Install == /\ Goto("new", "down")
           /\ UNCHANGED <<files, good, up, served, fingerprint, bounds>>

\* The process starts, or the refresh interval of the running one is over.
Begin ==
    /\ Goto("down", "ensure") \/ Goto("idle", "ensure")
    /\ UNCHANGED <<files, good, up, served, fingerprint, bounds>>

\* Mutant: only the certificate is looked at.
EnsureByCertificate ==
    /\ Goto("ensure", IF cert \in good THEN "use" ELSE "make")
    /\ UNCHANGED <<files, good, up, served, fingerprint, bounds>>

\* A pair that matches, lasts and covers the addresses is used; else one is made.
Ensure ==
    /\ Goto("ensure", IF Valid THEN "use" ELSE "make")
    /\ UNCHANGED <<files, good, up, served, fingerprint, bounds>>

\* A call of openssl that fails or takes too long makes a good pair look stale.
CheckFails ==
    /\ key # 0 /\ cert # 0 /\ Goto("ensure", "make") /\ faults < MaxFaults /\ faults' = faults + 1
    /\ UNCHANGED <<files, good, up, served, fingerprint, changes>>

\* openssl makes a temporary pair, then one file after the other is replaced.
Make ==
    /\ Goto("make", "key") /\ made' = made + 1 /\ good' = good \cup {made'}
    /\ UNCHANGED <<key, cert, up, served, fingerprint, bounds>>
ReplaceKey ==
    /\ Goto("key", "cert") /\ key' = made
    /\ UNCHANGED <<cert, made, good, up, served, fingerprint, bounds>>
ReplaceCert ==
    /\ Goto("cert", "use") /\ cert' = made
    /\ UNCHANGED <<key, made, good, up, served, fingerprint, bounds>>

\* Mutant: the thread remembers the pair before the server has it.
UseRemembersFirst ==
    /\ step = "use" /\ fingerprint' = cert
    /\ IF up /\ cert = fingerprint THEN step' = "idle" ELSE step' = "load"
    /\ UNCHANGED <<files, good, up, served, bounds>>

\* The start makes the server, the thread loads a pair that it has not seen.
Use ==
    /\ step = "use" /\ step' = IF up /\ cert = fingerprint THEN "idle" ELSE "load"
    /\ UNCHANGED <<files, good, up, served, fingerprint, bounds>>
Load ==
    /\ Goto("load", "idle") /\ up' = TRUE /\ served' = cert /\ fingerprint' = cert
    /\ UNCHANGED <<files, good, bounds>>

\* An error: the start gives up, and compose starts the container again; the
\* thread tries again after the next interval and goes on serving what it has.
Fail ==
    /\ step \in {"ensure", "make", "key", "cert", "use", "load"}
    /\ faults < MaxFaults /\ faults' = faults + 1 /\ step' = IF up THEN "idle" ELSE "down"
    /\ UNCHANGED <<files, good, up, served, fingerprint, changes>>
Crash ==
    /\ step \notin {"new", "down"} /\ faults < MaxFaults /\ faults' = faults + 1 /\ step' = "down"
    /\ up' = FALSE /\ served' = 0 /\ fingerprint' = 0 /\ UNCHANGED <<files, good, changes>>

\* A pair comes near its end, or the addresses change, perhaps back.
Change ==
    /\ changes < MaxChanges /\ changes' = changes + 1
    /\ \E still \in SUBSET (1..made) : still # good /\ good' = still
    /\ UNCHANGED <<files, step, up, served, fingerprint, faults>>

Round == Begin \/ Ensure \/ Make \/ ReplaceKey \/ ReplaceCert \/ Use \/ Load
Next == Install \/ Round \/ CheckFails \/ Fail \/ Crash \/ Change
Fairness == WF_vars(Round)
Spec == Init /\ [][Next]_vars /\ Fairness
-----------------------------------------------------------------------------
\* Every variable has its type.
TypeOK ==
    /\ {key, cert, made, served, fingerprint} \subseteq 0..(MaxChanges + MaxFaults + 1) /\ good \subseteq 1..made
    /\ step \in {"new", "down", "ensure", "make", "key", "cert", "use", "load", "idle"}
    /\ up \in BOOLEAN /\ faults \in 0..MaxFaults /\ changes \in 0..MaxChanges

\* What the thread believes is served is served, so that a load that failed is
\* tried again (_maintain_tls_certificate).
ThreadKnows == fingerprint = served

\* A pair is only loaded when its files belong together, although a crash or an
\* error may have come between the two replacements (ensure_tls_certificate).
LoadsAPair == step \in {"use", "load"} => key = cert /\ cert # 0

\* In the end the server has a good pair, and the one that the health check trusts.
Renewed == (step # "new") ~> [](up /\ served = cert /\ served \in good)

\* What the module promises.
Promise == [](TypeOK /\ ThreadKnows /\ LoadsAPair) /\ Renewed
=============================================================================
