--------------------------- MODULE HomeKitPairing ---------------------------
(***************************************************************************)
(* Who may talk to the HomeKit accessory: the pairing list of               *)
(* internal/homekit/server.go, the two handshakes of pkg/hap/server.go that *)
(* fill and read it, POST /pairings of pkg/homekit/server.go, and the       *)
(* configuration file the list is written to and read from at the start.    *)
(*                                                                         *)
(* External: what a controller sends.  A wrong PIN, key or signature makes  *)
(* the handler hang up (Close).  The file can be written; keys are left out.*)
(***************************************************************************)
EXTENDS FiniteSets

CONSTANTS Controllers, \* identities
          Links,       \* TCP connections
          NoOne

VARIABLES
    pairings, \* s.pairings
    saved,    \* homekit.<stream>.pairings of the configuration file
    flag,     \* the status flag mdns announces: TRUE for "paired"
    handler,     \* per connection: what its handler does, and for whom
    removed   \* history: controllers removed and not set up or added since

vars == <<pairings, saved, flag, handler, removed>>

TypeOK ==
    /\ pairings \subseteq Controllers /\ saved \subseteq Controllers
    /\ flag \in BOOLEAN
    /\ handler \in [Links -> [at: {"off", "setup", "set", "verify", "verified", "open"},
                           who: Controllers \cup {NoOne}]]
    /\ removed \subseteq Controllers

Off == [at |-> "off", who |-> NoOne]

\* Mutant: the status is not updated at the start.
LoadQuietly == pairings' = saved /\ flag' = FALSE /\ handler' = [l \in Links |-> Off]

\* Start of the process: the list comes from the file.
Load == pairings' = saved /\ flag' = (saved # {}) /\ handler' = [l \in Links |-> Off]

Init ==
    /\ pairings = {} /\ saved = {} /\ flag = FALSE
    /\ handler = [l \in Links |-> Off]
    /\ removed = {}

At(l, phase) == handler[l].at = phase
GoTo(l, from, to) == At(l, from) /\ handler' = [handler EXCEPT ![l].at = to]
HangUp(l) == handler' = [handler EXCEPT ![l] = Off]

Dial(l, c, phase) ==
    /\ At(l, "off")
    /\ handler' = [handler EXCEPT ![l] = [at |-> phase, who |-> c]]
    /\ UNCHANGED <<pairings, saved, flag, removed>>

\* M1 to M4: the controller has proved the PIN.
PairSetup(l, c) == Dial(l, c, "setup")

\* M5 and M6: the controller has its confirmation, the list not yet its entry.
PairSetupExchange(l) == GoTo(l, "setup", "set") /\ UNCHANGED <<pairings, saved, flag, removed>>

\* One critical section: the list, the announced status and the file.
Update(list) == pairings' = list /\ flag' = (list # {}) /\ saved' = list

AddPair(c) ==
    /\ IF c \in pairings THEN UNCHANGED <<pairings, saved, flag>> ELSE Update(pairings \cup {c})
    /\ removed' = removed \ {c}

\* Mutant: the removal is not written to the file.
DelPairInMemory(c) ==
    /\ pairings' = pairings \ {c} /\ flag' = (pairings \ {c} # {})
    /\ removed' = removed \cup {c}
    /\ UNCHANGED saved

DelPair(c) ==
    /\ IF c \in pairings THEN Update(pairings \ {c}) ELSE UNCHANGED <<pairings, saved, flag>>
    /\ removed' = removed \cup {c}

Paired(l) == At(l, "set") /\ AddPair(handler[l].who) /\ HangUp(l)

\* M1 and M2: anybody gets this far.
PairVerify(l, c) == Dial(l, c, "verify")

\* M3: an unknown identity is refused.  The list is not read again after this.
PairVerifyFinish(l) ==
    /\ At(l, "verify")
    /\ IF handler[l].who \in pairings THEN GoTo(l, "verify", "verified") ELSE HangUp(l)
    /\ UNCHANGED <<pairings, saved, flag, removed>>

AddConn(l) == GoTo(l, "verified", "open") /\ UNCHANGED <<pairings, saved, flag, removed>>

\* A verified connection adds and removes any pairing, and stays open itself.
HandlePairings(l, c) ==
    /\ At(l, "open")
    /\ AddPair(c) \/ DelPair(c)
    /\ UNCHANGED handler

Close(l) ==
    /\ handler[l].at \in {"setup", "verify", "open"}
    /\ HangUp(l)
    /\ UNCHANGED <<pairings, saved, flag, removed>>

\* The process ends at any point and starts again.
Restart == Load /\ UNCHANGED <<saved, removed>>

Next ==
    \/ \E l \in Links :
         \/ PairSetupExchange(l) \/ Paired(l) \/ PairVerifyFinish(l) \/ AddConn(l) \/ Close(l)
         \/ \E c \in Controllers : PairSetup(l, c) \/ PairVerify(l, c) \/ HandlePairings(l, c)
    \/ Restart

-----------------------------------------------------------------------------
\* The accessory announces itself as paired exactly while it has a pairing, also
\* after a restart: otherwise the Home app shows it offline (UpdateStatus).
FlagIsTrue == flag = (pairings # {})

\* A controller that was removed gets through no handshake until it is set up or
\* added again: no concurrent handler and no restart brings its entry back.
RemovedStaysOut ==
    [][\A l \in Links :
         handler'[l].at = "verified" /\ handler[l].at # "verified" => handler'[l].who \notin removed]_vars

\* What the module promises.  A removed controller stays out, and what is announced is true, through handshakes
\* and restarts (the pairing list of server.go).
Promise == [](TypeOK /\ FlagIsTrue) /\ RemovedStaysOut
=============================================================================
