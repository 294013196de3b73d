------------------------------ MODULE Binding ------------------------------
(***************************************************************************)
(* How a camera gets bound: the three files settings.json, ezviz_token.json*)
(* and ezviz_auth.json, the requests of the setup wizard that write them   *)
(* (save settings, log in, identify, answer an SMS code), the command line *)
(* login that writes them from another process, and crashes of either.     *)
(*                                                                         *)
(* A camera identity is a serial number with an API region.  A token is    *)
(* the identity it was verified for; what else it holds is left out.       *)
(* secure_write replaces a file atomically (os.replace), so a file holds   *)
(* an old or a new value and every secure_write is one step.  The flock of *)
(* the three-step commit is dropped by the kernel when its process dies.   *)
(* The coordinator's RLock is held over a whole login, cloud calls         *)
(* included; a section that takes and releases it is one step.             *)
(***************************************************************************)
EXTENDS Naturals, FiniteSets

CONSTANTS
    Ids,        \* camera identities
    Requests,   \* wizard requests
    Tools,      \* runs of the command line login
    Nobody,     \* holds a free lock
    None,       \* no settings, no token, no binding
    MaxCrashes  \* bound on the crashes of the service per run (a model bound)

ASSUME BindingAssumption ==
    /\ None \notin Ids
    /\ "updating" \notin Ids /\ None # "updating"
    /\ Requests \cap Tools = {}
    /\ Nobody \notin Requests \cup Tools
    /\ IsFiniteSet(Requests)
    /\ MaxCrashes \in Nat

VARIABLES
    settings, token, auth,      \* the files
    touched,                    \* a file changed since the supervisor last looked
    flock,                      \* who holds .ezviz_binding.lock
    job,                        \* the progress of every request and tool run
    lock,                       \* who holds the coordinator's lock
    pending, staged,            \* a login that waits for its SMS code; a staged token
    generation,                 \* names each pending login and staged token
    armed, late, fired,         \* timers running, deadlines passed, callbacks waiting
    reload,                     \* the supervisor's reload_event
    restarts                    \* how often the service died

D == INSTANCE Files

files  == <<settings, token, auth, touched>>
secret == <<pending, staged, generation, armed, late, fired>>
vars   == <<files, flock, job, lock, secret, reload, restarts>>

Actors == Requests \cup Tools
Free   == lock = Nobody

Job(at, op, mode, id) == [at |-> at, op |-> op, mode |-> mode, id |-> id]
Secret(mode, id, gen) == [mode |-> mode, id |-> id, gen |-> gen]
Nothing == Secret("none", None, 0)
Goes(a, at) == job' = [job EXCEPT ![a] = Job(at, @.op, @.mode, @.id)]

Init ==
    /\ settings \in Ids \cup {None}
    /\ \/ token = None /\ auth = None
       \/ token \in Ids /\ auth \in {None, token}  \* None: imported from a legacy installation
    /\ touched = FALSE
    /\ flock = Nobody
    /\ job = [a \in Actors |-> Job("idle", "none", "none", None)]
    /\ lock = Nobody
    /\ pending = Nothing /\ staged = Nothing /\ generation = 0
    /\ armed = {} /\ late = {} /\ fired = {}
    /\ reload = FALSE
    /\ restarts = 0

(***************************************************************************)
(* Logging in: begin, finish_sms and what they end in                      *)
(***************************************************************************)
\* Mutant: pending logins and staged tokens share one timer.
KeepOne(p, s) == armed \cap {p.gen}

\* The timers that go on after pending and staged become p and s.
Keep(p, s) == armed \cap {p.gen, s.gen}

\* Mutant: the settings need not be complete.
AskLoginAnyway(r) ==
    /\ job[r].at = "idle"
    /\ job' = [job EXCEPT ![r] = Job("begin", "begin", "configured", settings)]
    /\ UNCHANGED <<files, flock, lock, secret, reload, restarts>>

\* run_login reads the saved identity before it waits for the lock.
AskLogin(r) ==
    /\ job[r].at = "idle"
    /\ settings # None
    /\ job' = [job EXCEPT ![r] = Job("begin", "begin", "configured", settings)]
    /\ UNCHANGED <<files, flock, lock, secret, reload, restarts>>

AskIdentify(r, i) ==
    /\ job[r].at = "idle"
    /\ job' = [job EXCEPT ![r] = Job("begin", "begin", "identify", i)]
    /\ UNCHANGED <<files, flock, lock, secret, reload, restarts>>

\* begin drops whatever an earlier login left behind.
Begin(r) ==
    /\ job[r].at = "begin"
    /\ Free
    /\ lock' = r
    /\ pending' = Nothing /\ staged' = Nothing
    /\ armed' = {}
    /\ Goes(r, "cloud")
    /\ UNCHANGED <<files, flock, generation, late, fired, reload, restarts>>

\* A code for a login that is gone, too late, or of the other kind is refused.
RefuseSms(r, mode) ==
    /\ job[r].at = "idle"
    /\ mode = "configured" => settings # None
    /\ Free
    /\ pending.gen \in late \/ pending.mode # mode
    /\ pending' = IF pending.gen \in late THEN Nothing ELSE pending
    /\ armed' = Keep(pending', staged)
    /\ job' = [job EXCEPT ![r] = Job("done", "sms", mode, None)]
    /\ UNCHANGED <<files, flock, lock, staged, generation, late, fired, reload, restarts>>

FinishSms(r) ==
    /\ job[r].at = "idle"
    /\ pending.mode = "configured" => settings # None
    /\ Free
    /\ pending # Nothing /\ pending.gen \notin late
    /\ lock' = r
    /\ job' = [job EXCEPT ![r] = Job("cloud", "sms", pending.mode, pending.id)]
    /\ UNCHANGED <<files, flock, secret, reload, restarts>>

\* What finish_sms leaves of the pending login when it ends.
Remaining(r) == IF job[r].op = "sms" THEN Nothing ELSE pending

\* Mutant: no timer is started.
SmsRequiredUntimed(r) ==
    /\ job[r].at = "cloud" /\ job[r].op = "begin"
    /\ generation' = generation + 1
    /\ pending' = Secret(job[r].mode, job[r].id, generation + 1)
    /\ lock' = Nobody
    /\ Goes(r, "done")
    /\ UNCHANGED <<files, flock, staged, armed, late, fired, reload, restarts>>

\* The cloud asks for an SMS code.
SmsRequired(r) ==
    /\ job[r].at = "cloud" /\ job[r].op = "begin"
    /\ generation' = generation + 1
    /\ pending' = Secret(job[r].mode, job[r].id, generation + 1)
    /\ armed' = armed \cup {generation + 1}
    /\ lock' = Nobody
    /\ Goes(r, "done")
    /\ UNCHANGED <<files, flock, staged, late, fired, reload, restarts>>

\* The cloud rejects the code: the login stays open for another one.
WrongCode(r) ==
    /\ job[r].at = "cloud" /\ job[r].op = "sms"
    /\ lock' = Nobody
    /\ Goes(r, "done")
    /\ UNCHANGED <<files, flock, secret, reload, restarts>>

\* Any other failure, and a device that the account does not have.
CloudFails(r) ==
    /\ job[r].at = "cloud"
    /\ pending' = Remaining(r)
    /\ armed' = Keep(pending', staged)
    /\ lock' = Nobody
    /\ Goes(r, "done")
    /\ UNCHANGED <<files, flock, staged, generation, late, fired, reload, restarts>>

\* _finish_identify: the token is staged, nothing is published.
Identified(r) ==
    /\ job[r].at = "cloud" /\ job[r].mode = "identify"
    /\ generation' = generation + 1
    /\ staged' = Secret("identify", job[r].id, generation + 1)
    /\ pending' = Remaining(r)
    /\ armed' = Keep(pending', staged') \cup {generation + 1}
    /\ lock' = Nobody
    /\ Goes(r, "done")
    /\ UNCHANGED <<files, flock, late, fired, reload, restarts>>

\* _finish_configured: the account has the camera, its token is persisted.
Verified(r) ==
    /\ job[r].at = "cloud" /\ job[r].mode = "configured"
    /\ Goes(r, "flock")
    /\ UNCHANGED <<files, flock, lock, secret, reload, restarts>>

(***************************************************************************)
(* Expiry of the pending login and of the staged token                     *)
(***************************************************************************)
Expire(g) ==
    /\ g \in armed
    /\ armed' = armed \ {g}
    /\ late' = late \cup {g}
    /\ fired' = fired \cup {g}
    /\ UNCHANGED <<files, flock, job, lock, pending, staged, generation, reload, restarts>>

\* Mutant: the callback does not look whether the token is still its own.
StagedCallbackUnchecked(g) ==
    /\ g \in fired
    /\ Free
    /\ fired' = fired \ {g}
    /\ pending' = IF pending.gen = g THEN Nothing ELSE pending
    /\ staged' = Nothing
    /\ armed' = Keep(pending', staged')
    /\ UNCHANGED <<files, flock, job, lock, generation, late, reload, restarts>>

\* _expire_pending and _expire_staged: only what the timer was started for.
ExpiryCallback(g) ==
    /\ g \in fired
    /\ Free
    /\ fired' = fired \ {g}
    /\ pending' = IF pending.gen = g THEN Nothing ELSE pending
    /\ staged' = IF staged.gen = g THEN Nothing ELSE staged
    /\ armed' = Keep(pending', staged')
    /\ UNCHANGED <<files, flock, job, lock, generation, late, reload, restarts>>

(***************************************************************************)
(* Saving settings, and publishing the staged token with them              *)
(***************************************************************************)
SaveSettings(r, i) ==
    /\ job[r].at = "idle"
    /\ settings' = i
    /\ touched' = TRUE
    /\ job' = [job EXCEPT ![r] = Job("commit", "save", "none", i)]
    /\ UNCHANGED <<token, auth, flock, lock, secret, reload, restarts>>

\* The staged token is there, still valid, and for the saved identity.
Publishable(r) == staged.id = job[r].id /\ staged.gen \notin late

\* commit_identification without a token to publish drops what is staged.
NothingToPublish(r) ==
    /\ job[r].at = "commit"
    /\ Free
    /\ ~Publishable(r)
    /\ staged' = Nothing
    /\ armed' = Keep(pending, staged')
    /\ Goes(r, "reload")
    /\ UNCHANGED <<files, flock, lock, pending, generation, late, fired, reload, restarts>>

Publish(r) ==
    /\ job[r].at = "commit"
    /\ Free
    /\ Publishable(r)
    /\ lock' = r
    /\ job' = [job EXCEPT ![r] = Job("flock", "save", "none", staged.id)]
    /\ UNCHANGED <<files, flock, secret, reload, restarts>>

(***************************************************************************)
(* persist_bound_token, from the wizard or from the command line tool      *)
(***************************************************************************)
\* The tool's own login has succeeded and the account has camera i.
ToolVerified(t, i) ==
    /\ t \in Tools
    /\ job[t].at = "idle"
    /\ job' = [job EXCEPT ![t] = Job("flock", "tool", "configured", i)]
    /\ UNCHANGED <<files, flock, lock, secret, reload, restarts>>

TakeFlock(a) ==
    /\ job[a].at = "flock"
    /\ flock = Nobody
    /\ flock' = a
    /\ Goes(a, "updating")
    /\ UNCHANGED <<files, lock, secret, reload, restarts>>

\* Mutant: the old binding stays while the token is replaced.
WriteUpdatingSkipped(a) ==
    /\ job[a].at = "updating"
    /\ touched' = TRUE
    /\ Goes(a, "token")
    /\ UNCHANGED <<settings, token, auth, flock, lock, secret, reload, restarts>>

WriteUpdating(a) ==
    /\ job[a].at = "updating"
    /\ auth' = "updating"
    /\ touched' = TRUE
    /\ Goes(a, "token")
    /\ UNCHANGED <<settings, token, flock, lock, secret, reload, restarts>>

\* Mutant: token and binding are replaced at once.
WriteTokenAtOnce(a) ==
    /\ job[a].at = "token"
    /\ token' = job[a].id
    /\ auth' = job[a].id
    /\ touched' = TRUE
    /\ Goes(a, "bind")
    /\ UNCHANGED <<settings, flock, lock, secret, reload, restarts>>

WriteToken(a) ==
    /\ job[a].at = "token"
    /\ token' = job[a].id
    /\ touched' = TRUE
    /\ Goes(a, "bind")
    /\ UNCHANGED <<settings, auth, flock, lock, secret, reload, restarts>>

WriteBinding(a) ==
    /\ job[a].at = "bind"
    /\ auth' = job[a].id
    /\ touched' = TRUE
    /\ flock' = Nobody
    /\ Goes(a, IF a \in Tools THEN "done" ELSE "persisted")
    /\ UNCHANGED <<settings, token, lock, secret, reload, restarts>>

\* Mutant: a failed write is tried again, with the locks held.
WriteFailsRetries(a) ==
    /\ job[a].at \in {"updating", "token", "bind"}
    /\ Goes(a, "updating")
    /\ UNCHANGED <<files, flock, lock, secret, reload, restarts>>

\* One of the three writes fails: both locks are released, the request ends
\* in an error and a staged token stays staged.
WriteFails(a) ==
    /\ job[a].at \in {"updating", "token", "bind"}
    /\ flock' = Nobody
    /\ lock' = IF lock = a THEN Nobody ELSE lock
    /\ pending' = Remaining(a)
    /\ armed' = Keep(pending', staged)
    /\ Goes(a, "done")
    /\ UNCHANGED <<files, staged, generation, late, fired, reload, restarts>>

\* After persist_bound_token a save drops what it staged and goes on to
\* reload, a login reloads (and a finished SMS login is closed).
Persisted(r) ==
    /\ job[r].at = "persisted"
    /\ staged' = IF job[r].op = "save" THEN Nothing ELSE staged
    /\ pending' = Remaining(r)
    /\ armed' = Keep(pending', staged')
    /\ reload' = (reload \/ job[r].op # "save")
    /\ lock' = Nobody
    /\ Goes(r, IF job[r].op = "save" THEN "reload" ELSE "done")
    /\ UNCHANGED <<files, flock, generation, late, fired, restarts>>

Reload(r) ==
    /\ job[r].at = "reload"
    /\ reload' = TRUE
    /\ Goes(r, "done")
    /\ UNCHANGED <<files, flock, lock, secret, restarts>>

(***************************************************************************)
(* Crashes                                                                 *)
(***************************************************************************)
\* The service dies and starts again: what was in memory is gone.
Crash ==
    /\ restarts < MaxCrashes
    /\ restarts' = restarts + 1
    /\ job' = [a \in Actors |->
                 IF a \in Tools \/ job[a].at = "idle" THEN job[a]
                 ELSE Job("done", "none", "none", None)]
    /\ flock' = IF flock \in Requests THEN Nobody ELSE flock
    /\ lock' = Nobody
    /\ pending' = Nothing /\ staged' = Nothing
    /\ armed' = {} /\ fired' = {}
    /\ reload' = FALSE
    /\ touched' = FALSE
    /\ UNCHANGED <<settings, token, auth, generation, late>>

\* The tool is interrupted.
Kill(t) ==
    /\ t \in Tools
    /\ job[t].at \notin {"idle", "done"}
    /\ flock' = IF flock = t THEN Nobody ELSE flock
    /\ Goes(t, "done")
    /\ UNCHANGED <<files, lock, secret, reload, restarts>>

(***************************************************************************)
(* Specification                                                           *)
(***************************************************************************)
\* A user may ask for ...
Ask(r) ==
    \/ AskLogin(r) \/ FinishSms(r)
    \/ \E i \in Ids : AskIdentify(r, i) \/ SaveSettings(r, i)
    \/ \E mode \in {"configured", "identify"} : RefuseSms(r, mode)

\* ... and persist_bound_token takes its steps.
Commit(a) ==
    TakeFlock(a) \/ WriteUpdating(a) \/ WriteToken(a) \/ WriteBinding(a) \/ WriteFails(a)

Handle(r) ==
    \/ Begin(r) \/ SmsRequired(r) \/ WrongCode(r) \/ CloudFails(r) \/ Identified(r) \/ Verified(r)
    \/ NothingToPublish(r) \/ Publish(r) \/ Commit(r) \/ Persisted(r) \/ Reload(r)

Timeouts == \E g \in 1..generation : Expire(g) \/ ExpiryCallback(g)

Idle ==
    /\ \A a \in Actors : job[a].at = "done"
    /\ armed = {} /\ fired = {}
    /\ UNCHANGED vars

Next ==
    \/ \E r \in Requests : Ask(r) \/ Handle(r)
    \/ \E t \in Tools : (\E i \in Ids : ToolVerified(t, i)) \/ Commit(t) \/ Kill(t)
    \/ Timeouts
    \/ Crash
    \/ Idle

Spec == Init /\ [][Next]_vars

\* A request in progress goes on (cloud calls and TLS reads have timeouts), a
\* free lock is taken, and a daemon timer thread runs.
Fairness ==
    /\ \A r \in Requests : WF_vars(Handle(r))
    /\ \A t \in Tools : WF_vars(Commit(t))
    /\ WF_vars(Timeouts)

FairSpec == Spec /\ Fairness

(***************************************************************************)
(* Properties                                                              *)
(***************************************************************************)
Steps == {"idle", "begin", "cloud", "commit", "flock", "updating", "token", "bind",
          "persisted", "reload", "done"}
Modes == {"none", "configured", "identify"}
Secrets == [mode : Modes, id : Ids, gen : Nat] \cup {Nothing}

Jobs == [at : Steps, op : {"none", "begin", "sms", "save", "tool"},
         mode : Modes, id : Ids \cup {None}]

\* A job in progress is about a camera.
JobOK ==
    /\ job \in [Actors -> Jobs]
    /\ \A a \in Actors : job[a].at \notin {"idle", "done"} => job[a].id \in Ids

\* Every variable keeps its type.
TypeOK ==
    /\ settings \in Ids \cup {None}
    /\ token \in Ids \cup {None}
    /\ auth \in Ids \cup {None, "updating"}
    /\ touched \in BOOLEAN /\ reload \in BOOLEAN
    /\ flock \in Actors \cup {Nobody}
    /\ JobOK
    /\ lock \in Requests \cup {Nobody}
    /\ pending \in Secrets /\ staged \in Secrets
    /\ generation \in Nat
    /\ armed \subseteq Nat /\ late \subseteq Nat /\ fired \subseteq Nat
    /\ restarts \in 0..MaxCrashes

\* A binding is the truth at every moment, also between the three writes of
\* a commit, after a crash in the middle of one and with two processes
\* committing: a bound token is the one verified for the bound camera
\* (runtime_settings.py:310, "failing closed on interruption").
FailsClosed == auth \in Ids => token = auth

\* All the supervisor relies on (module Files): between any two of its looks
\* the requests, the tool and crashes change the files in that discipline only.
KeepsFiles == D!Spec

\* No login and no staged token outlives its timer: whatever is kept in
\* memory has a timer running for it, or a callback on its way to drop it
\* (setup_wizard.py:83, "never persist account credentials").
SecretsAreTimed ==
    \A s \in {pending, staged} : s # Nothing => s.gen \in armed \cup fired

\* A timer drops what it was started for and nothing newer: a login or a
\* staged token that no request touches stays until its own deadline.
SecretUntilDue ==
    [][job' = job /\ restarts' = restarts =>
          /\ staged # Nothing /\ staged' # staged => staged.gen \in late
          /\ pending # Nothing /\ pending' # pending => pending.gen \in late]_vars

\* Every request and every tool run ends: the coordinator's lock and the
\* file lock are always released, on the error paths too.
RequestsFinish ==
    \A a \in Actors : job[a].at # "idle" ~> job[a].at = "done"

\* What is kept in memory for an unfinished login is dropped in the end.
SecretsExpire ==
    \A g \in 1..Cardinality(Requests) : pending.gen = g \/ staged.gen = g ~> pending.gen # g /\ staged.gen # g

\* No lock and no secret is left for ever (setup_wizard.py: begin, finish_sms, the timers).
LoginsEnd == RequestsFinish /\ SecretsExpire
=============================================================================
