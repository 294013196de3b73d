--------------------------- MODULE BindingProofs ---------------------------
(***************************************************************************)
(* Binding fails closed, for any number of requests, tool runs and crashes *)
(* of the service, and nothing secret outlives its timer.                  *)
(*                                                                         *)
(* FailsClosed is not inductive: it needs that the three writes of a       *)
(* commit happen under the file lock (Exclusive) and that no binding is on *)
(* disk while the token is being replaced (Protocol).                      *)
(***************************************************************************)
EXTENDS Binding, TLAPS

InCommit(a) == job[a].at \in {"updating", "token", "bind"}

\* Whoever is between its three writes holds the file lock.
Exclusive == \A a \in Actors : InCommit(a) => flock = a

\* While a token is being replaced nothing is bound.
Protocol ==
    \A a \in Actors :
        /\ job[a].at \in {"token", "bind"} => auth = "updating"
        /\ job[a].at = "bind" => token = job[a].id

\* A callback only waits once its deadline has passed.
FiredAreLate == fired \subseteq late

FilesInv == TypeOK /\ Exclusive /\ Protocol /\ FailsClosed

\* A request that goes on to a step keeps the type of its locals.
LEMMA GoesType ==
    ASSUME JobOK, NEW a \in Actors, NEW at \in Steps, Goes(a, at),
           at \notin {"idle", "done"} => job[a].id \in Ids
    PROVE  /\ JobOK'
           /\ job'[a].at = at /\ job'[a].id = job[a].id
           /\ \A x \in Actors : x # a => job'[x] = job[x]
  <1>1. job'[a] = Job(at, job[a].op, job[a].mode, job[a].id)
    BY DEF JobOK, Goes
  <1>2. \A x \in Actors : x # a => job'[x] = job[x]
    BY DEF JobOK, Goes
  <1>3. job'[a] \in Jobs
    BY <1>1 DEF JobOK, Jobs, Job
  <1>4. job' \in [Actors -> Jobs]
    BY <1>3 DEF JobOK, Goes
  <1>5. job'[a].at = at /\ job'[a].id = job[a].id
    BY <1>1 DEF Job
  <1>6. \A x \in Actors : job'[x].at \notin {"idle", "done"} => job'[x].id \in Ids
    BY <1>2, <1>5 DEF JobOK
  <1> QED
    BY <1>2, <1>4, <1>5, <1>6 DEF JobOK

\* The same for a step that fills in all of a job.
LEMMA JobType ==
    ASSUME JobOK, NEW a \in Actors, NEW j \in Jobs, job' = [job EXCEPT ![a] = j],
           j.at \notin {"idle", "done"} => j.id \in Ids
    PROVE  /\ JobOK'
           /\ job'[a] = j
           /\ \A x \in Actors : x # a => job'[x] = job[x]
  BY DEF JobOK

LEMMA SecretType ==
    ASSUME NEW mode \in Modes, NEW id \in Ids, NEW gen \in Nat
    PROVE  /\ Secret(mode, id, gen) \in Secrets
           /\ Secret(mode, id, gen).gen = gen
  BY DEF Secret, Secrets

LEMMA NothingType == Nothing \in Secrets /\ Nothing.gen = 0
  BY DEF Nothing, Secret, Secrets, Modes

\* The initial states satisfy the invariant.
LEMMA FilesInit == Init => FilesInv
  <1> SUFFICES ASSUME Init PROVE FilesInv
    OBVIOUS
  <1>1. \A a \in Actors : job[a] = Job("idle", "none", "none", None)
    BY DEF Init
  <1>2. JobOK
    <2>1. Job("idle", "none", "none", None) \in Jobs
      BY DEF Jobs, Job, Steps, Modes
    <2>2. \A a \in Actors : job[a].at = "idle"
      BY <1>1 DEF Job
    <2> QED
      BY <2>1, <2>2 DEF JobOK, Init
  <1>3. TypeOK
    <2>1. pending \in Secrets /\ staged \in Secrets
      BY NothingType DEF Init
    <2>2. restarts \in 0..MaxCrashes /\ generation \in Nat
      BY BindingAssumption DEF Init
    <2>3. armed \subseteq Nat /\ late \subseteq Nat /\ fired \subseteq Nat
      BY DEF Init
    <2> QED
      BY <1>2, <2>1, <2>2, <2>3 DEF Init, TypeOK
  <1>4. Exclusive /\ Protocol
    BY <1>1 DEF Exclusive, Protocol, InCommit, Job
  <1>5. FailsClosed
    BY BindingAssumption DEF Init, FailsClosed
  <1> QED
    BY <1>3, <1>4, <1>5 DEF FilesInv

\* What any step but those of a commit, a crash or a kill needs: the files
\* and the file lock stay, and no job enters a commit half-way.
LEMMA Elsewhere ==
    ASSUME FilesInv, UNCHANGED <<files, flock>>, JobOK',
           \A a \in Actors : InCommit(a)' => job'[a] = job[a]
    PROVE  Exclusive' /\ Protocol' /\ FailsClosed'
  <1>1. Exclusive'
    BY DEF FilesInv, Exclusive, InCommit
  <1>2. Protocol'
    BY DEF FilesInv, Protocol, InCommit, files
  <1>3. FailsClosed'
    BY DEF FilesInv, FailsClosed, files
  <1> QED
    BY <1>1, <1>2, <1>3

\* A step on to a place outside the commit disturbs nobody's commit.
LEMMA GoesElsewhere ==
    ASSUME FilesInv, NEW a \in Actors, NEW at \in Steps \ {"idle", "updating", "token", "bind"},
           Goes(a, at), at # "done" => job[a].id \in Ids
    PROVE  JobOK' /\ \A x \in Actors : InCommit(x)' => job'[x] = job[x]
  <1>1. JobOK'
    BY GoesType DEF FilesInv, TypeOK
  <1>2. job'[a].at = at /\ \A x \in Actors : x # a => job'[x] = job[x]
    BY GoesType DEF FilesInv, TypeOK
  <1> QED
    BY <1>1, <1>2 DEF InCommit

LEMMA JobElsewhere ==
    ASSUME FilesInv, NEW a \in Actors, NEW j \in Jobs, job' = [job EXCEPT ![a] = j],
           ~(j.at \in {"updating", "token", "bind"}), j.at \notin {"idle", "done"} => j.id \in Ids
    PROVE  JobOK' /\ \A x \in Actors : InCommit(x)' => job'[x] = job[x]
  <1>1. JobOK' /\ job'[a] = j /\ \A x \in Actors : x # a => job'[x] = job[x]
    BY JobType DEF FilesInv, TypeOK
  <1> QED
    BY <1>1 DEF InCommit

LEMMA KeepType == TypeOK => \A p, s : Keep(p, s) \subseteq Nat /\ Keep(p, s) \subseteq armed
  BY DEF TypeOK, Keep

LEMMA RemainingType == TypeOK => \A a : Remaining(a) \in Secrets
  BY NothingType DEF TypeOK, Remaining





\* A step of a request that writes no file and takes no file lock.
LEMMA QuietStep ==
    ASSUME FilesInv, NEW r \in Requests,
           \/ AskLogin(r) \/ FinishSms(r) \/ Publish(r)
           \/ \E i \in Ids : AskIdentify(r, i)
           \/ \E mode \in {"configured", "identify"} : RefuseSms(r, mode)
           \/ Begin(r) \/ SmsRequired(r) \/ WrongCode(r) \/ CloudFails(r)
           \/ Identified(r) \/ Verified(r) \/ NothingToPublish(r) \/ Reload(r)
    PROVE  FilesInv'
  <1> USE NothingType, KeepType, RemainingType, SecretType
  <1>a. TypeOK /\ JobOK
    BY DEF FilesInv, TypeOK
  <1>b. r \in Actors
    BY DEF Actors
  <1>c. UNCHANGED <<files, flock>>
    BY DEF AskLogin, FinishSms, Publish, AskIdentify, RefuseSms, Begin, SmsRequired, WrongCode,
           CloudFails, Identified, Verified, NothingToPublish, Reload, secret
  <1>d. ASSUME TypeOK', \A x \in Actors : InCommit(x)' => job'[x] = job[x] PROVE FilesInv'
    BY <1>c, <1>d, Elsewhere DEF FilesInv, TypeOK
  <1>1. CASE Begin(r)
    <2>1. JobOK' /\ \A x \in Actors : InCommit(x)' => job'[x] = job[x]
      <3>1. job[r].id \in Ids
        BY <1>1, <1>a, <1>b DEF Begin, JobOK
      <3> QED
        BY <1>1, <1>b, <3>1, GoesElsewhere DEF Begin, Steps
    <2>2. TypeOK'
      BY <1>1, <1>a, <1>b, <2>1 DEF Begin, TypeOK, files, secret, JobOK, Jobs
    <2> QED
      BY <1>d, <2>1, <2>2
  <1>2. CASE SmsRequired(r)
    <2>1. JobOK' /\ \A x \in Actors : InCommit(x)' => job'[x] = job[x]
      BY <1>2, <1>b, GoesElsewhere DEF SmsRequired, Steps
    <2>2. TypeOK'
      BY <1>2, <1>a, <1>b, <2>1 DEF SmsRequired, TypeOK, files, secret, JobOK, Jobs
    <2> QED
      BY <1>d, <2>1, <2>2
  <1>3. CASE WrongCode(r)
    <2>1. JobOK' /\ \A x \in Actors : InCommit(x)' => job'[x] = job[x]
      BY <1>3, <1>b, GoesElsewhere DEF WrongCode, Steps
    <2>2. TypeOK'
      BY <1>3, <1>a, <1>b, <2>1 DEF WrongCode, TypeOK, files, secret, JobOK, Jobs
    <2> QED
      BY <1>d, <2>1, <2>2
  <1>4. CASE CloudFails(r)
    <2>1. JobOK' /\ \A x \in Actors : InCommit(x)' => job'[x] = job[x]
      BY <1>4, <1>b, GoesElsewhere DEF CloudFails, Steps
    <2>2. TypeOK'
      <3>1. pending' \in Secrets
        BY <1>4, <1>a DEF CloudFails
      <3>2. armed' \subseteq Nat
        BY <1>4, <1>a DEF CloudFails
      <3> QED
        BY <1>4, <1>a, <2>1, <3>1, <3>2 DEF CloudFails, TypeOK, files
    <2> QED
      BY <1>d, <2>1, <2>2
  <1>5. CASE Identified(r)
    <2>1. JobOK' /\ \A x \in Actors : InCommit(x)' => job'[x] = job[x]
      BY <1>5, <1>b, GoesElsewhere DEF Identified, Steps
    <2>2. TypeOK'
      <3>1. pending' \in Secrets
        BY <1>5, <1>a DEF Identified
      <3>2. job[r].id \in Ids /\ generation + 1 \in Nat
        BY <1>5, <1>a, <1>b DEF Identified, JobOK, TypeOK
      <3>3. staged' \in Secrets
        BY <1>5, <3>2 DEF Identified, Modes
      <3>4. armed' \subseteq Nat
        BY <1>5, <1>a, <3>2 DEF Identified
      <3> QED
        BY <1>5, <1>a, <2>1, <3>1, <3>2, <3>3, <3>4 DEF Identified, TypeOK, files
    <2> QED
      BY <1>d, <2>1, <2>2
  <1>6. CASE NothingToPublish(r)
    <2>1. JobOK' /\ \A x \in Actors : InCommit(x)' => job'[x] = job[x]
      <3>1. job[r].id \in Ids
        BY <1>6, <1>a, <1>b DEF NothingToPublish, JobOK
      <3> QED
        BY <1>6, <1>b, <3>1, GoesElsewhere DEF NothingToPublish, Steps
    <2>2. TypeOK'
      BY <1>6, <1>a, <1>b, <2>1 DEF NothingToPublish, TypeOK, files, secret, JobOK, Jobs
    <2> QED
      BY <1>d, <2>1, <2>2
  <1>7. CASE Reload(r)
    <2>1. JobOK' /\ \A x \in Actors : InCommit(x)' => job'[x] = job[x]
      BY <1>7, <1>b, GoesElsewhere DEF Reload, Steps
    <2>2. TypeOK'
      BY <1>7, <1>a, <1>b, <2>1 DEF Reload, TypeOK, files, secret, JobOK, Jobs
    <2> QED
      BY <1>d, <2>1, <2>2
  <1>8. CASE Verified(r)
    <2>1. JobOK' /\ \A x \in Actors : InCommit(x)' => job'[x] = job[x]
      <3>1. job[r].id \in Ids
        BY <1>8, <1>a, <1>b DEF Verified, JobOK
      <3> QED
        BY <1>8, <1>b, <3>1, GoesElsewhere DEF Verified, Steps
    <2>2. TypeOK'
      BY <1>8, <1>a, <1>b, <2>1 DEF Verified, TypeOK, files, secret, JobOK, Jobs
    <2> QED
      BY <1>d, <2>1, <2>2
  <1>9. CASE AskLogin(r)
    <2> DEFINE j == Job("begin", "begin", "configured", settings)
    <2>0. j \in Jobs /\ ~(j.at \in {"updating", "token", "bind"}) /\ (j.at \notin {"idle", "done"} => j.id \in Ids)
      BY <1>9, <1>a DEF AskLogin, Job, Jobs, Steps, Modes, TypeOK, Secrets
    <2>1. JobOK' /\ \A x \in Actors : InCommit(x)' => job'[x] = job[x]
      BY <1>9, <1>b, <2>0, JobElsewhere DEF AskLogin
    <2>2. TypeOK'
      BY <1>9, <1>a, <1>b, <2>1 DEF AskLogin, TypeOK, files, secret
    <2> QED
      BY <1>d, <2>1, <2>2
  <1>10. ASSUME NEW i \in Ids, AskIdentify(r, i) PROVE FilesInv'
    <2> DEFINE j == Job("begin", "begin", "identify", i)
    <2>0. j \in Jobs /\ ~(j.at \in {"updating", "token", "bind"}) /\ (j.at \notin {"idle", "done"} => j.id \in Ids)
      BY <1>10, <1>a DEF AskIdentify, Job, Jobs, Steps, Modes, TypeOK, Secrets
    <2>1. JobOK' /\ \A x \in Actors : InCommit(x)' => job'[x] = job[x]
      BY <1>10, <1>b, <2>0, JobElsewhere DEF AskIdentify
    <2>2. TypeOK'
      BY <1>10, <1>a, <1>b, <2>1 DEF AskIdentify, TypeOK, files, secret
    <2> QED
      BY <1>d, <2>1, <2>2
  <1>11. ASSUME NEW mode \in {"configured", "identify"}, RefuseSms(r, mode) PROVE FilesInv'
    <2> DEFINE j == Job("done", "sms", mode, None)
    <2>0. j \in Jobs /\ ~(j.at \in {"updating", "token", "bind"}) /\ (j.at \notin {"idle", "done"} => j.id \in Ids)
      BY <1>11, <1>a DEF RefuseSms, Job, Jobs, Steps, Modes, TypeOK, Secrets
    <2>1. JobOK' /\ \A x \in Actors : InCommit(x)' => job'[x] = job[x]
      BY <1>11, <1>b, <2>0, JobElsewhere DEF RefuseSms
    <2>2. TypeOK'
      BY <1>11, <1>a, <1>b, <2>1 DEF RefuseSms, TypeOK, files, secret
    <2> QED
      BY <1>d, <2>1, <2>2
  <1>12. CASE FinishSms(r)
    <2> DEFINE j == Job("cloud", "sms", pending.mode, pending.id)
    <2>p. pending \in [mode : Modes, id : Ids, gen : Nat]
      BY <1>12, <1>a DEF FinishSms, TypeOK, Secrets
    <2>0. j \in Jobs /\ ~(j.at \in {"updating", "token", "bind"}) /\ (j.at \notin {"idle", "done"} => j.id \in Ids)
      BY <1>12, <1>a, <2>p DEF FinishSms, Job, Jobs, Steps, Modes, TypeOK, Secrets
    <2>1. JobOK' /\ \A x \in Actors : InCommit(x)' => job'[x] = job[x]
      BY <1>12, <1>b, <2>0, JobElsewhere DEF FinishSms
    <2>2. TypeOK'
      BY <1>12, <1>a, <1>b, <2>1 DEF FinishSms, TypeOK, files, secret
    <2> QED
      BY <1>d, <2>1, <2>2
  <1>13. CASE Publish(r)
    <2> DEFINE j == Job("flock", "save", "none", staged.id)
    <2>p. staged.id \in Ids
      BY <1>13, <1>a, <1>b DEF Publish, Publishable, JobOK
    <2>0. j \in Jobs /\ ~(j.at \in {"updating", "token", "bind"}) /\ (j.at \notin {"idle", "done"} => j.id \in Ids)
      BY <1>13, <1>a, <2>p DEF Publish, Job, Jobs, Steps, Modes, TypeOK, Secrets
    <2>1. JobOK' /\ \A x \in Actors : InCommit(x)' => job'[x] = job[x]
      BY <1>13, <1>b, <2>0, JobElsewhere DEF Publish
    <2>2. TypeOK'
      BY <1>13, <1>a, <1>b, <2>1 DEF Publish, TypeOK, files, secret
    <2> QED
      BY <1>d, <2>1, <2>2
  <1> QED
    BY <1>1, <1>2, <1>3, <1>4, <1>5, <1>6, <1>7, <1>8, <1>9, <1>10, <1>11, <1>12, <1>13

\* A step of persist_bound_token, of the wizard or of the tool: whoever takes
\* it after TakeFlock holds the file lock, so nobody else is in a commit.
LEMMA CommitStep ==
    ASSUME FilesInv, NEW a \in Actors, Commit(a)
    PROVE  FilesInv'
  <1> USE NothingType, KeepType, RemainingType
  <1>a. TypeOK /\ JobOK
    BY DEF FilesInv, TypeOK
  <1>b. InCommit(a) => flock = a /\ \A x \in Actors : InCommit(x) => x = a
    BY DEF FilesInv, Exclusive
  <1>c. job[a].at \notin {"idle", "done"} => job[a].id \in Ids
    BY <1>a DEF JobOK
  <1>d. ASSUME NEW at \in Steps, Goes(a, at), job[a].at \notin {"idle", "done"}
        PROVE  /\ JobOK'
               /\ job'[a].at = at /\ job'[a].id = job[a].id
               /\ \A x \in Actors : x # a => job'[x] = job[x]
    BY <1>a, <1>c, <1>d, GoesType
  <1>1. CASE TakeFlock(a)
    <2>1. JobOK' /\ job'[a].at = "updating" /\ \A x \in Actors : x # a => job'[x] = job[x]
      BY <1>1, <1>d DEF TakeFlock, Steps
    <2>2. TypeOK'
      BY <1>1, <1>a, <2>1 DEF TakeFlock, TypeOK, files, secret
    <2>3. \A x \in Actors : ~InCommit(x)
      <3>1. flock = Nobody
        BY <1>1 DEF TakeFlock
      <3> QED
        BY <3>1, BindingAssumption DEF FilesInv, Exclusive, Actors
    <2>4. Exclusive' /\ Protocol'
      BY <1>1, <2>1, <2>3 DEF TakeFlock, Exclusive, Protocol, InCommit
    <2>5. FailsClosed'
      BY <1>1 DEF TakeFlock, FilesInv, FailsClosed, files
    <2> QED
      BY <2>2, <2>4, <2>5 DEF FilesInv
  <1>2. CASE WriteUpdating(a)
    <2>1. JobOK' /\ job'[a].at = "token" /\ \A x \in Actors : x # a => job'[x] = job[x]
      BY <1>2, <1>d DEF WriteUpdating, Steps
    <2>2. TypeOK'
      BY <1>2, <1>a, <2>1 DEF WriteUpdating, TypeOK, files, secret
    <2>3. Exclusive' /\ Protocol'
      BY <1>2, <1>b, <2>1 DEF WriteUpdating, Exclusive, Protocol, InCommit
    <2>4. FailsClosed'
      BY <1>2, BindingAssumption DEF WriteUpdating, FailsClosed
    <2> QED
      BY <2>2, <2>3, <2>4 DEF FilesInv
  <1>3. CASE WriteToken(a)
    <2>1. /\ JobOK' /\ job'[a].at = "bind" /\ job'[a].id = job[a].id
          /\ \A x \in Actors : x # a => job'[x] = job[x]
      BY <1>3, <1>d DEF WriteToken, Steps
    <2>2. TypeOK'
      BY <1>3, <1>a, <1>c, <2>1 DEF WriteToken, TypeOK, files, secret
    <2>3. auth = "updating" /\ auth' = auth
      BY <1>3 DEF WriteToken, FilesInv, Protocol
    <2>4. Exclusive' /\ Protocol'
      BY <1>3, <1>b, <2>1, <2>3 DEF WriteToken, Exclusive, Protocol, InCommit
    <2>5. FailsClosed'
      BY <2>3, BindingAssumption DEF FailsClosed
    <2> QED
      BY <2>2, <2>4, <2>5 DEF FilesInv
  <1>4. CASE WriteBinding(a)
    <2>1. /\ JobOK' /\ job'[a].at \in {"done", "persisted"}
          /\ \A x \in Actors : x # a => job'[x] = job[x]
      BY <1>4, <1>d DEF WriteBinding, Steps
    <2>2. TypeOK'
      BY <1>4, <1>a, <1>c, <2>1 DEF WriteBinding, TypeOK, files, secret
    <2>3. token = job[a].id
      BY <1>4 DEF WriteBinding, FilesInv, Protocol
    <2>4. Exclusive' /\ Protocol'
      BY <1>4, <1>b, <2>1 DEF WriteBinding, Exclusive, Protocol, InCommit
    <2>5. FailsClosed'
      BY <1>4, <2>3 DEF WriteBinding, FailsClosed
    <2> QED
      BY <2>2, <2>4, <2>5 DEF FilesInv
  <1>5. CASE WriteFails(a)
    <2>1. JobOK' /\ job'[a].at = "done" /\ \A x \in Actors : x # a => job'[x] = job[x]
      BY <1>5, <1>d DEF WriteFails, Steps
    <2>2. pending' \in Secrets /\ armed' \subseteq Nat
      BY <1>5, <1>a DEF WriteFails
    <2>3. TypeOK'
      BY <1>5, <1>a, <2>1, <2>2 DEF WriteFails, TypeOK, files
    <2>4. Exclusive' /\ Protocol'
      BY <1>5, <1>b, <2>1 DEF WriteFails, FilesInv, Exclusive, Protocol, InCommit, files
    <2>5. FailsClosed'
      BY <1>5 DEF WriteFails, FilesInv, FailsClosed, files
    <2> QED
      BY <2>3, <2>4, <2>5 DEF FilesInv
  <1> QED
    BY <1>1, <1>2, <1>3, <1>4, <1>5 DEF Commit

\* A save replaces the settings, which no binding depends on.
LEMMA SaveStep ==
    ASSUME FilesInv, NEW r \in Requests, NEW i \in Ids, SaveSettings(r, i)
    PROVE  FilesInv'
  <1> DEFINE j == Job("commit", "save", "none", i)
  <1>1. j \in Jobs /\ ~(j.at \in {"updating", "token", "bind"}) /\ j.id \in Ids
    BY DEF Job, Jobs, Steps, Modes
  <1>2. JobOK' /\ \A x \in Actors : InCommit(x)' => job'[x] = job[x]
    BY <1>1, JobElsewhere DEF SaveSettings, Actors
  <1>3. TypeOK'
    BY <1>2 DEF SaveSettings, FilesInv, TypeOK, secret
  <1> QED
    BY <1>2, <1>3 DEF SaveSettings, FilesInv, Exclusive, Protocol, FailsClosed, InCommit

LEMMA PersistedStep ==
    ASSUME FilesInv, NEW r \in Requests, Persisted(r)
    PROVE  FilesInv'
  <1> USE NothingType, KeepType, RemainingType
  <1>a. TypeOK /\ JobOK /\ r \in Actors
    BY DEF FilesInv, TypeOK, Actors
  <1>1. job[r].id \in Ids
    BY <1>a DEF Persisted, JobOK
  <1>2. JobOK' /\ \A x \in Actors : InCommit(x)' => job'[x] = job[x]
    <2>1. CASE job[r].op = "save"
      BY <1>a, <1>1, <2>1, GoesElsewhere DEF Persisted, Steps
    <2>2. CASE job[r].op # "save"
      BY <1>a, <1>1, <2>2, GoesElsewhere DEF Persisted, Steps
    <2> QED
      BY <2>1, <2>2
  <1>3. pending' \in Secrets /\ staged' \in Secrets /\ armed' \subseteq Nat
    BY <1>a DEF Persisted, TypeOK
  <1>4. TypeOK'
    <2>1. reload' \in BOOLEAN
      BY DEF Persisted
    <2> QED
      BY <1>a, <1>2, <1>3, <2>1 DEF Persisted, TypeOK, files
  <1> QED
    BY <1>2, <1>4, Elsewhere DEF Persisted, FilesInv

LEMMA ToolStep ==
    ASSUME FilesInv, NEW t \in Tools, (\E i \in Ids : ToolVerified(t, i)) \/ Kill(t)
    PROVE  FilesInv'
  <1>a. TypeOK /\ JobOK /\ t \in Actors
    BY DEF FilesInv, TypeOK, Actors
  <1>1. ASSUME NEW i \in Ids, ToolVerified(t, i) PROVE FilesInv'
    <2> DEFINE j == Job("flock", "tool", "configured", i)
    <2>1. j \in Jobs /\ ~(j.at \in {"updating", "token", "bind"}) /\ j.id \in Ids
      BY DEF Job, Jobs, Steps, Modes
    <2>2. JobOK' /\ \A x \in Actors : InCommit(x)' => job'[x] = job[x]
      BY <1>1, <1>a, <2>1, JobElsewhere DEF ToolVerified
    <2>3. TypeOK'
      BY <1>1, <1>a, <2>2 DEF ToolVerified, TypeOK, files, secret
    <2> QED
      BY <1>1, <2>2, <2>3, Elsewhere DEF ToolVerified, FilesInv
  <1>2. CASE Kill(t)
    <2>1. JobOK' /\ job'[t].at = "done" /\ \A x \in Actors : x # t => job'[x] = job[x]
      BY <1>2, <1>a, GoesType DEF Kill, Steps
    <2>2. TypeOK'
      BY <1>2, <1>a, <2>1 DEF Kill, TypeOK, files, secret
    <2>3. Exclusive' /\ Protocol'
      BY <1>2, <2>1 DEF Kill, FilesInv, Exclusive, Protocol, InCommit, files
    <2>4. FailsClosed'
      BY <1>2 DEF Kill, FilesInv, FailsClosed, files
    <2> QED
      BY <2>2, <2>3, <2>4 DEF FilesInv
  <1> QED
    BY <1>1, <1>2

LEMMA TimeoutStep ==
    ASSUME FilesInv, NEW g \in Nat, Expire(g) \/ ExpiryCallback(g)
    PROVE  FilesInv'
  <1> USE NothingType, KeepType
  <1>a. TypeOK
    BY DEF FilesInv
  <1>1. TypeOK'
    <2>1. CASE Expire(g)
      BY <1>a, <2>1 DEF Expire, TypeOK, JobOK, files
    <2>2. CASE ExpiryCallback(g)
      <3>1. pending' \in Secrets /\ staged' \in Secrets /\ armed' \subseteq Nat
        BY <1>a, <2>2 DEF ExpiryCallback, TypeOK
      <3> QED
        BY <1>a, <2>2, <3>1 DEF ExpiryCallback, TypeOK, JobOK, files
    <2> QED
      BY <2>1, <2>2
  <1>2. UNCHANGED <<files, flock, job>>
    BY DEF Expire, ExpiryCallback
  <1> QED
    BY <1>1, <1>2, Elsewhere DEF FilesInv, TypeOK

LEMMA CrashStep ==
    ASSUME FilesInv, Crash
    PROVE  FilesInv'
  <1>a. TypeOK /\ JobOK
    BY DEF FilesInv, TypeOK
  <1>1. \A a \in Actors : \/ job'[a] = job[a] /\ (a \in Tools \/ job[a].at = "idle")
                          \/ job'[a] = Job("done", "none", "none", None)
    BY DEF Crash
  <1>2. JobOK'
    <2>1. Job("done", "none", "none", None) \in Jobs
      BY DEF Job, Jobs, Steps, Modes
    <2>2. \A a \in Actors : job'[a] \in Jobs
      BY <1>1, <1>a, <2>1 DEF JobOK
    <2>3. job' \in [Actors -> Jobs]
      BY <2>2 DEF Crash
    <2>4. \A a \in Actors : job'[a].at \notin {"idle", "done"} => job'[a].id \in Ids
      BY <1>1, <1>a DEF JobOK, Job
    <2> QED
      BY <2>3, <2>4 DEF JobOK
  <1>3. TypeOK'
    <2>1. restarts' \in 0..MaxCrashes
      BY <1>a, BindingAssumption DEF Crash, TypeOK
    <2>2. pending' \in Secrets /\ staged' \in Secrets
      BY NothingType DEF Crash
    <2>3. /\ settings' = settings /\ token' = token /\ auth' = auth /\ generation' = generation
          /\ late' = late /\ armed' = {} /\ fired' = {}
          /\ lock' = Nobody /\ reload' = FALSE /\ touched' = FALSE
          /\ flock' \in {flock, Nobody}
      BY DEF Crash
    <2> QED
      BY <1>a, <1>2, <2>1, <2>2, <2>3 DEF TypeOK
  <1>4. Exclusive'
    <2> SUFFICES ASSUME NEW a \in Actors, InCommit(a)' PROVE flock' = a
      BY DEF Exclusive
    <2>1. job'[a] = job[a] /\ a \in Tools
      BY <1>1 DEF InCommit, Job
    <2>2. flock = a
      BY <2>1 DEF FilesInv, Exclusive, InCommit
    <2> QED
      BY <2>1, <2>2, BindingAssumption DEF Crash
  <1>5. Protocol'
    BY <1>1 DEF Crash, FilesInv, Protocol, Job
  <1>6. FailsClosed'
    BY DEF Crash, FilesInv, FailsClosed
  <1> QED
    BY <1>3, <1>4, <1>5, <1>6 DEF FilesInv

\* Every step keeps the invariant of the files.
LEMMA FilesStep == FilesInv /\ [Next]_vars => FilesInv'
  <1> SUFFICES ASSUME FilesInv, [Next]_vars PROVE FilesInv'
    OBVIOUS
  <1>1. ASSUME NEW r \in Requests, Ask(r) \/ Handle(r) PROVE FilesInv'
    <2>1. CASE Ask(r)
      BY <2>1, QuietStep, SaveStep DEF Ask
    <2>2. CASE Commit(r) \/ Persisted(r)
      BY <2>2, CommitStep, PersistedStep DEF Actors
    <2>3. CASE Handle(r) /\ ~Commit(r) /\ ~Persisted(r)
      BY <2>3, QuietStep DEF Handle
    <2> QED
      BY <1>1, <2>1, <2>2, <2>3
  <1>2. ASSUME NEW t \in Tools, (\E i \in Ids : ToolVerified(t, i)) \/ Commit(t) \/ Kill(t)
        PROVE  FilesInv'
    BY <1>2, CommitStep, ToolStep DEF Actors
  <1>3. CASE Timeouts
    <2>1. \A g \in 1..generation : g \in Nat
      BY DEF FilesInv, TypeOK
    <2> QED
      BY <1>3, <2>1, TimeoutStep DEF Timeouts
  <1>4. CASE Crash
    BY <1>4, CrashStep
  <1>5. CASE UNCHANGED vars
    <2>1. TypeOK'
      BY <1>5 DEF FilesInv, TypeOK, JobOK, vars, files, secret
    <2> QED
      BY <1>5, <2>1, Elsewhere DEF vars, FilesInv, TypeOK
  <1>6. CASE Idle
    BY <1>5, <1>6 DEF Idle
  <1> QED
    BY <1>1, <1>2, <1>3, <1>4, <1>5, <1>6 DEF Next

\* The invariant of the files: in every reachable state, whatever crashes and
\* whoever else commits.
THEOREM FilesInvariance == Spec => []FilesInv
  BY FilesInit, FilesStep, PTL DEF Spec

\* Every variable of Binding keeps its type.
THEOREM TypeCorrect == Spec => []TypeOK
  BY FilesInvariance, PTL DEF FilesInv

\* persist_bound_token fails closed: for any number of wizard requests, tool
\* runs and crashes, what is bound on disk is what was verified.
THEOREM BindingIsTruth == Spec => []FailsClosed
  BY FilesInvariance, PTL DEF FilesInv

(***************************************************************************)
(* What the supervisor relies on                                           *)
(***************************************************************************)
LEMMA KeepsFilesStep == FilesInv /\ [Next]_vars => [D!Next]_(D!files)
  <1> SUFFICES ASSUME FilesInv, [Next]_vars PROVE [D!Next]_(D!files)
    OBVIOUS
  <1>a. ASSUME UNCHANGED files PROVE UNCHANGED D!files
    BY <1>a DEF files, D!files
  <1>1. ASSUME NEW a \in Actors, Commit(a) PROVE [D!Next]_(D!files)
    <2>1. CASE TakeFlock(a) \/ WriteFails(a)
      BY <2>1, <1>a DEF TakeFlock, WriteFails
    <2>2. CASE WriteUpdating(a)
      BY <2>2 DEF WriteUpdating, D!Next, D!Change, D!Unbind
    <2>3. CASE WriteToken(a)
      <3>1. auth = "updating" /\ job[a].id \in Ids
        BY <2>3 DEF WriteToken, FilesInv, Protocol, TypeOK, JobOK
      <3>2. D!Replace(job[a].id) /\ touched' = TRUE
        BY <2>3, <3>1 DEF WriteToken, D!Replace
      <3> QED
        BY <3>1, <3>2 DEF D!Next, D!Change
    <2>4. CASE WriteBinding(a)
      <3>1. auth = "updating" /\ token = job[a].id /\ job[a].id \in Ids
        BY <2>4 DEF WriteBinding, FilesInv, Protocol, TypeOK, JobOK
      <3>2. D!Bind /\ touched' = TRUE
        BY <2>4, <3>1 DEF WriteBinding, D!Bind
      <3> QED
        BY <3>2 DEF D!Next, D!Change
    <2> QED
      BY <1>1, <2>1, <2>2, <2>3, <2>4 DEF Commit
  <1>2. ASSUME NEW r \in Requests, NEW i \in Ids, SaveSettings(r, i) PROVE [D!Next]_(D!files)
    <2>1. D!Select(i) /\ touched' = TRUE
      BY <1>2 DEF SaveSettings, D!Select
    <2> QED
      BY <2>1 DEF D!Next, D!Change
  <1>3. ASSUME NEW r \in Requests, Ask(r), ~ \E i \in Ids : SaveSettings(r, i)
        PROVE  UNCHANGED files
    BY <1>3 DEF Ask, AskLogin, FinishSms, AskIdentify, RefuseSms
  <1>4. ASSUME NEW r \in Requests, Handle(r), ~Commit(r) PROVE UNCHANGED files
    BY <1>4 DEF Handle, Begin, SmsRequired, WrongCode, CloudFails, Identified, Verified,
                NothingToPublish, Publish, Persisted, Reload
  <1>5. ASSUME NEW t \in Tools, (\E i \in Ids : ToolVerified(t, i)) \/ Kill(t)
        PROVE  UNCHANGED files
    BY <1>5 DEF ToolVerified, Kill
  <1>6. CASE Timeouts \/ Idle \/ UNCHANGED vars
    <2>1. UNCHANGED files
      BY <1>6 DEF Timeouts, Expire, ExpiryCallback, Idle, vars
    <2> QED
      BY <2>1, <1>a
  <1>7. CASE Crash
    BY <1>7 DEF Crash, D!Next, D!Noted
  <1> QED
    BY <1>a, <1>1, <1>2, <1>3, <1>4, <1>5, <1>6, <1>7 DEF Next, Actors

\* The requests, the tool and the crashes change the files in the discipline
\* that module Supervisor assumes of them, for any number of each.
THEOREM ImplementsFiles == Spec => KeepsFiles
  <1>1. Init => D!Init
    BY DEF Init, D!Init
  <1> QED
    BY <1>1, FilesInvariance, KeepsFilesStep, PTL DEF Spec, KeepsFiles, D!Spec

(***************************************************************************)
(* Timers                                                                  *)
(***************************************************************************)
TimerInv == SecretsAreTimed /\ FiredAreLate

\* The timers kept after a change are those of what is still there.
LEMMA KeepsTimers ==
    ASSUME SecretsAreTimed, NEW p \in {pending, Nothing}, NEW s \in {staged, Nothing},
           pending' = p, staged' = s, armed' = Keep(p, s), fired' = fired
    PROVE  SecretsAreTimed'
  BY DEF SecretsAreTimed, Keep

LEMMA TimerStep == TypeOK /\ TimerInv /\ [Next]_vars => TimerInv'
  <1> SUFFICES ASSUME TypeOK, TimerInv, [Next]_vars PROVE TimerInv'
    OBVIOUS
  <1>a. ASSUME UNCHANGED secret PROVE TimerInv'
    BY <1>a DEF secret, TimerInv, SecretsAreTimed, FiredAreLate
  <1>b. ASSUME SecretsAreTimed', UNCHANGED <<late, fired>> PROVE TimerInv'
    BY <1>b DEF TimerInv, FiredAreLate
  <1>c. ASSUME NEW r PROVE Remaining(r) \in {pending, Nothing}
    BY DEF Remaining
  <1>1. ASSUME NEW r \in Requests,
               Ask(r) \/ WrongCode(r) \/ Verified(r) \/ Publish(r) \/ Reload(r)
        PROVE  TimerInv'
    <2>1. CASE \E mode \in {"configured", "identify"} : RefuseSms(r, mode)
      <3>1. pending' \in {pending, Nothing}
        BY <2>1 DEF RefuseSms
      <3>2. SecretsAreTimed'
        BY <2>1, <3>1, KeepsTimers DEF RefuseSms, TimerInv
      <3> QED
        BY <1>b, <2>1, <3>2 DEF RefuseSms
    <2>2. CASE UNCHANGED secret
      BY <2>2, <1>a
    <2>3. AskLogin(r) \/ FinishSms(r) \/ (\E i \in Ids : AskIdentify(r, i) \/ SaveSettings(r, i))
          \/ WrongCode(r) \/ Verified(r) \/ Publish(r) \/ Reload(r) => UNCHANGED secret
      BY DEF AskLogin, FinishSms, AskIdentify, SaveSettings, WrongCode, Verified, Publish, Reload
    <2> QED
      BY <1>1, <2>1, <2>2, <2>3 DEF Ask
  <1>2. ASSUME NEW r \in Requests, Begin(r) PROVE TimerInv'
    <2>1. SecretsAreTimed'
      BY <1>2 DEF Begin, SecretsAreTimed
    <2> QED
      BY <1>b, <1>2, <2>1 DEF Begin
  <1>3. ASSUME NEW r \in Requests, SmsRequired(r) PROVE TimerInv'
    <2>1. SecretsAreTimed'
      BY <1>3 DEF SmsRequired, SecretsAreTimed, TimerInv, Secret
    <2> QED
      BY <1>b, <1>3, <2>1 DEF SmsRequired
  <1>4. ASSUME NEW r \in Requests, CloudFails(r) \/ NothingToPublish(r) \/ Persisted(r)
        PROVE  TimerInv'
    <2>1. pending' \in {pending, Nothing} /\ staged' \in {staged, Nothing}
      BY <1>4, <1>c DEF CloudFails, NothingToPublish, Persisted
    <2>2. armed' = Keep(pending', staged')
      BY <1>4 DEF CloudFails, NothingToPublish, Persisted, Keep
    <2>3. UNCHANGED <<late, fired>>
      BY <1>4 DEF CloudFails, NothingToPublish, Persisted
    <2>4. SecretsAreTimed'
      BY <2>1, <2>2, <2>3, KeepsTimers DEF TimerInv
    <2> QED
      BY <1>b, <2>3, <2>4
  <1>5. ASSUME NEW r \in Requests, Identified(r) PROVE TimerInv'
    <2>1. staged'.gen = generation + 1
      BY <1>5 DEF Identified, Secret
    <2>2. pending' \in {pending, Nothing} /\ fired' = fired
      BY <1>5, <1>c DEF Identified
    <2>3. pending' # Nothing => pending'.gen \in armed \cup fired
      BY <2>2 DEF TimerInv, SecretsAreTimed
    <2>4. generation + 1 \in armed' /\ armed \cap {pending'.gen} \subseteq armed'
      BY <1>5 DEF Identified, Keep
    <2>5. SecretsAreTimed'
      BY <2>1, <2>2, <2>3, <2>4 DEF SecretsAreTimed
    <2> QED
      BY <1>b, <1>5, <2>5 DEF Identified
  <1>6. ASSUME NEW a \in Actors, Commit(a) PROVE TimerInv'
    <2>1. CASE WriteFails(a)
      <3>1. SecretsAreTimed'
        BY <2>1, <1>c, KeepsTimers DEF WriteFails, TimerInv
      <3> QED
        BY <1>b, <2>1, <3>1 DEF WriteFails
    <2>2. CASE ~WriteFails(a)
      BY <1>6, <2>2, <1>a DEF Commit, TakeFlock, WriteUpdating, WriteToken, WriteBinding
    <2> QED
      BY <2>1, <2>2
  <1>7. ASSUME NEW t \in Tools, (\E i \in Ids : ToolVerified(t, i)) \/ Kill(t) PROVE TimerInv'
    BY <1>7, <1>a DEF ToolVerified, Kill
  <1>8. ASSUME NEW g \in Nat, Expire(g) PROVE TimerInv'
    <2>1. SecretsAreTimed'
      BY <1>8 DEF Expire, TimerInv, SecretsAreTimed
    <2> QED
      BY <1>8, <2>1 DEF Expire, TimerInv, FiredAreLate
  <1>9. ASSUME NEW g \in Nat, ExpiryCallback(g) PROVE TimerInv'
    <2>1. pending' # Nothing => pending' = pending /\ pending.gen # g
      BY <1>9 DEF ExpiryCallback
    <2>2. staged' # Nothing => staged' = staged /\ staged.gen # g
      BY <1>9 DEF ExpiryCallback
    <2>3. \A x : x \in armed /\ x \in {pending'.gen, staged'.gen} => x \in armed'
      BY <1>9 DEF ExpiryCallback, Keep
    <2>4. \A x \in fired : x # g => x \in fired'
      BY <1>9 DEF ExpiryCallback
    <2>5. SecretsAreTimed'
      BY <2>1, <2>2, <2>3, <2>4 DEF TimerInv, SecretsAreTimed
    <2> QED
      BY <1>9, <2>5 DEF ExpiryCallback, TimerInv, FiredAreLate
  <1>10. CASE Crash
    BY <1>10 DEF Crash, TimerInv, SecretsAreTimed, FiredAreLate
  <1>11. CASE UNCHANGED vars \/ Idle
    BY <1>11, <1>a DEF vars, Idle
  <1>12. ASSUME NEW r \in Requests, Handle(r) PROVE TimerInv'
    BY <1>12, <1>1, <1>2, <1>3, <1>4, <1>5, <1>6 DEF Handle, Actors
  <1>13. ASSUME NEW t \in Tools, Commit(t) PROVE TimerInv'
    BY <1>13, <1>6 DEF Actors
  <1>14. CASE Timeouts
    <2>1. \A g \in 1..generation : g \in Nat
      BY DEF TypeOK
    <2> QED
      BY <1>14, <2>1, <1>8, <1>9 DEF Timeouts
  <1> QED
    BY <1>1, <1>7, <1>10, <1>11, <1>12, <1>13, <1>14 DEF Next

LEMMA TimerInvariance == Spec => []TimerInv
  <1>1. Init => TimerInv
    BY DEF Init, TimerInv, SecretsAreTimed, FiredAreLate
  <1> QED
    BY <1>1, TimerStep, TypeCorrect, PTL DEF Spec

\* Whatever is kept in memory for an unfinished login has a timer that will
\* drop it, for any number of requests.
THEOREM NothingUntimed == Spec => []SecretsAreTimed
  BY TimerInvariance, PTL DEF TimerInv

\* A late callback of an earlier login never drops a newer secret.
THEOREM OwnDeadlineOnly == Spec => SecretUntilDue
  <1> DEFINE Step ==
        job' = job /\ restarts' = restarts =>
          /\ staged # Nothing /\ staged' # staged => staged.gen \in late
          /\ pending # Nothing /\ pending' # pending => pending.gen \in late
  <1>1. TypeOK /\ TimerInv /\ [Next]_vars => [Step]_vars
    <2> SUFFICES ASSUME TypeOK, TimerInv, Next, job' = job, restarts' = restarts
                 PROVE  /\ staged # Nothing /\ staged' # staged => staged.gen \in late
                        /\ pending # Nothing /\ pending' # pending => pending.gen \in late
      OBVIOUS
    <2>1. ASSUME NEW a \in Actors, NEW at, job[a].at # at, Goes(a, at) PROVE FALSE
      BY <2>1 DEF Goes, Job, TypeOK, JobOK
    <2>2. ASSUME NEW a \in Actors, NEW j, j.at # job[a].at, job' = [job EXCEPT ![a] = j] PROVE FALSE
      BY <2>2 DEF TypeOK, JobOK
    <2>3. ASSUME NEW r \in Requests, Ask(r) PROVE FALSE
      <3>1. r \in Actors /\ \A at, op, mode, id : Job(at, op, mode, id).at = at
        BY DEF Actors, Job
      <3> QED
        BY <2>2, <2>3, <3>1 DEF Ask, AskLogin, AskIdentify, FinishSms, RefuseSms, SaveSettings
    <2>4. ASSUME NEW a \in Actors, Commit(a) PROVE FALSE
      BY <2>1, <2>4 DEF Commit, TakeFlock, WriteUpdating, WriteToken, WriteBinding, WriteFails
    <2>5. ASSUME NEW r \in Requests, Handle(r) PROVE FALSE
      <3>1. r \in Actors /\ \A at, op, mode, id : Job(at, op, mode, id).at = at
        BY DEF Actors, Job
      <3>2. CASE Commit(r)
        BY <3>1, <3>2, <2>4
      <3>3. CASE Publish(r)
        <4>1. Job("flock", "save", "none", staged.id).at # job[r].at
          BY <3>3 DEF Publish, Job
        <4>2. job' = [job EXCEPT ![r] = Job("flock", "save", "none", staged.id)]
          BY <3>3 DEF Publish
        <4> QED
          BY <3>1, <4>1, <4>2, <2>2
      <3>4. CASE Persisted(r)
        BY <3>1, <3>4, <2>1 DEF Persisted
      <3>5. CASE Handle(r) /\ ~Commit(r) /\ ~Publish(r) /\ ~Persisted(r)
        BY <3>1, <3>5, <2>1 DEF Handle, Begin, SmsRequired, WrongCode, CloudFails, Identified,
                                Verified, NothingToPublish, Reload
      <3> QED
        BY <2>5, <3>2, <3>3, <3>4, <3>5
    <2>6. ASSUME NEW t \in Tools, (\E i \in Ids : ToolVerified(t, i)) \/ Commit(t) \/ Kill(t)
          PROVE  FALSE
      <3>1. t \in Actors /\ \A at, op, mode, id : Job(at, op, mode, id).at = at
        BY DEF Actors, Job
      <3>2. ~Commit(t)
        BY <3>1, <2>4
      <3>3. ~Kill(t)
        BY <3>1, <2>1 DEF Kill
      <3>4. ASSUME NEW i \in Ids, ToolVerified(t, i) PROVE FALSE
        <4>1. Job("flock", "tool", "configured", i).at # job[t].at
          BY <3>4 DEF ToolVerified, Job
        <4>2. job' = [job EXCEPT ![t] = Job("flock", "tool", "configured", i)]
          BY <3>4 DEF ToolVerified
        <4> QED
          BY <3>1, <4>1, <4>2, <2>2
      <3> QED
        BY <2>6, <3>2, <3>3, <3>4
    <2>7. ~Crash
      BY DEF Crash, TypeOK
    <2>8. CASE Timeouts
      BY <2>8 DEF Timeouts, Expire, ExpiryCallback, TimerInv, FiredAreLate
    <2>9. CASE Idle
      BY <2>9 DEF Idle, vars, secret
    <2> QED
      BY <2>3, <2>5, <2>6, <2>7, <2>8, <2>9 DEF Next
  <1> QED
    BY <1>1, TypeCorrect, TimerInvariance, PTL DEF Spec, SecretUntilDue
=============================================================================
