------------------------------ MODULE Accounts ------------------------------
(***************************************************************************)
(* The clients of the camera clouds and what they share: pkg/ring api.go,     *)
(* pkg/nest api.go, pkg/xiaomi cloud.go with internal/xiaomi, pkg/wyze cloud.go  *)
(* with internal/wyze, pkg/tuya with internal/tuya.  Requests of dials and of  *)
(* the web page run at the same time, each in a worker; they share clients,    *)
(* tokens, caches and a login that takes several requests.  A step is what     *)
(* happens between two answers of the cloud or two mutexes.                    *)
(***************************************************************************)
EXTENDS Integers, Sequences, FiniteSets, SequencesExt

CONSTANTS Workers,      \* numbered: a request gets the first that is idle
          Users,
          Retries,      \* maxRetries: 3 with ring, 2 with nest
          RingUsers,    \* ring's accounts share nothing but the map of their clients
          MaxJobs,      \* bound: requests, by vendor
          MaxIssued,    \* bound: tokens issued
          Rooms, Shared \* tuya: the cameras of each room, and those shared by others

VARIABLES vendor,
          job,            \* of each worker: where it is in its request, and what it knows
          lock,           \* which worker holds the mutex of the cache, 0 for none
          objs,           \* the clients: RingApi, nest API, xiaomi Cloud
          cache,          \* user -> client: clientCache, cache, clouds
          auth,           \* xiaomi: the client of the login under way
          tokens, saved,  \* user -> credentials in memory, in the configuration
          issued, jobs, refused  \* tokens the cloud has issued; requests so far; a token was refused

vars == <<vendor, job, lock, objs, cache, auth, tokens, saved, issued, jobs, refused>>
memory == <<cache, auth, tokens, saved>>

Vendors == {"ring", "ringEmail", "nest", "xiaomi", "wyze", "tuya"}
IsRing == vendor \in {"ring", "ringEmail"}
NoToken == <<"nobody", 0>>
NewJob(u) == [at |-> "idle", user |-> u, obj |-> 0, sent |-> NoToken, bad |-> NoToken, attempt |-> 0,
              got |-> NoToken, found |-> <<>>, back |-> "header", pass |-> "none"]
Idle == NewJob(CHOOSE u \in Users : TRUE)

Init ==
    /\ vendor \in Vendors
    /\ job = [w \in Workers |-> Idle]
    /\ lock = 0 /\ objs = <<>> /\ cache = [u \in Users |-> 0] /\ auth = 0
    /\ tokens = [u \in Users |-> "none"] /\ saved = [u \in Users |-> "none"]
    /\ issued = 0 /\ jobs = 0 /\ refused = FALSE

At(w, p) == job[w].at = p
Become(w, p, j) == job' = [job EXCEPT ![w] = [j EXCEPT !.at = p]]
Go(w, p) == Become(w, p, job[w])
Ends(w) == job' = [job EXCEPT ![w] = Idle]
Mine(w) == objs[job[w].obj]
Set(w, o) == objs' = [objs EXCEPT ![job[w].obj] = o]
Free == lock = 0
\* The cloud issues a token for user u to worker w, which has not read it yet.
Issue(w, u, p) == /\ issued < MaxIssued /\ issued' = issued + 1
                  /\ Become(w, p, [job[w] EXCEPT !.got = <<u, issued + 1>>])
-----------------------------------------------------------------------------
\* Ring.

\* A client holds its access token, the refresh token it goes with, the session, whether
\* the token is still valid by its expiry, and its two mutexes.  Its first refresh token is
\* that of the source's URL; "spent" are those it has exchanged, with an answer it could read.
RingClient(u) == [user |-> u, token |-> NoToken, rt |-> <<u, 0>>, spent |-> {},
                  session |-> FALSE, fresh |-> TRUE, sessionMutex |-> 0, authMutex |-> 0]
Valid(o) == o.token # NoToken /\ o.fresh

\* NewRestClient: the cached client while its token is valid; otherwise a new one, which
\* knows only the refresh token of the source's URL again: nobody stores a later one (Dial
\* gives no onTokenRefresh).  With an e-mail address GetAuth comes first (apiRing).
NewRestClient(w, u) ==
    /\ IsRing /\ Free
    /\ IF cache[u] # 0 /\ Valid(objs[cache[u]]) THEN UNCHANGED <<objs, cache>>
       ELSE objs' = Append(objs, RingClient(u)) /\ cache' = [cache EXCEPT ![u] = Len(objs) + 1]
    /\ Become(w, IF vendor = "ring" THEN "ensureSession" ELSE "getAuth", [NewJob(u) EXCEPT !.obj = cache'[u]])
    /\ UNCHANGED <<lock, auth, tokens, saved, issued, refused>>

\* GetAuth takes no mutex.  The cloud may ask for a code, or refuse.
GetAuth(w) ==
    /\ At(w, "getAuth")
    /\ Issue(w, Mine(w).user, "gotAuth") \/ (Ends(w) /\ UNCHANGED issued)
    /\ UNCHANGED <<lock, objs, memory, refused>>
GotAuth(w) ==
    /\ At(w, "gotAuth") /\ Free
    /\ Set(w, [Mine(w) EXCEPT !.token = job[w].got, !.rt = job[w].got, !.fresh = TRUE])
    /\ cache' = [cache EXCEPT ![job[w].user] = job[w].obj]
    /\ Go(w, "ensureSession")
    /\ UNCHANGED <<lock, auth, tokens, saved, issued, refused>>

\* ensureSession: a session that is still valid is all it asks for.
EnsureSession(w) ==
    /\ At(w, "ensureSession") /\ Mine(w).sessionMutex = 0
    /\ IF Mine(w).session THEN Go(w, job[w].back) /\ UNCHANGED objs
       ELSE Set(w, [Mine(w) EXCEPT !.sessionMutex = w]) /\ Go(w, "ensureAuth")
    /\ UNCHANGED <<lock, memory, issued, refused>>

\* ensureAuth, under the session's mutex.
EnsureAuth(w) ==
    /\ At(w, "ensureAuth") /\ Mine(w).authMutex = 0
    /\ IF Valid(Mine(w)) THEN Go(w, "postSession") /\ UNCHANGED objs
       ELSE Set(w, [Mine(w) EXCEPT !.authMutex = w]) /\ Go(w, "refresh")
    /\ UNCHANGED <<lock, memory, issued, refused>>

\* The refresh token is exchanged for a new pair, or refused; or it is exchanged, and the
\* answer is lost or cannot be read.
Granted(w) ==
    /\ Issue(w, Mine(w).user, "refreshed")
    /\ Set(w, [Mine(w) EXCEPT !.spent = @ \cup {Mine(w).rt}])
Unread == issued' = issued \/ (issued < MaxIssued /\ issued' = issued + 1)
\* Mutant: an error leaves the mutexes locked.
RefreshKeeps(w) ==
    /\ At(w, "refresh") /\ (Granted(w) \/ (Ends(w) /\ Unread /\ UNCHANGED objs))
    /\ UNCHANGED <<lock, memory, refused>>
Refresh(w) ==
    /\ At(w, "refresh")
    /\ \/ Granted(w)
       \/ /\ Set(w, [Mine(w) EXCEPT !.authMutex = 0, !.sessionMutex = 0])
          /\ Ends(w) /\ Unread
    /\ UNCHANGED <<lock, memory, refused>>

\* Mutant: the old refresh token stays in authConfig.
RefreshedForgets(w) ==
    /\ At(w, "refreshed") /\ Free /\ Go(w, "postSession")
    /\ Set(w, [Mine(w) EXCEPT !.token = job[w].got, !.fresh = TRUE, !.authMutex = 0])
    /\ cache' = [cache EXCEPT ![job[w].user] = job[w].obj]
    /\ UNCHANGED <<lock, auth, tokens, saved, issued, refused>>
Refreshed(w) ==
    /\ At(w, "refreshed") /\ Free /\ Go(w, "postSession")
    /\ Set(w, [Mine(w) EXCEPT !.token = job[w].got, !.rt = job[w].got, !.fresh = TRUE, !.authMutex = 0])
    /\ cache' = [cache EXCEPT ![job[w].user] = job[w].obj]
    /\ UNCHANGED <<lock, auth, tokens, saved, issued, refused>>

\* The session is made with the token, which is nil when another request has just been
\* refused.
PostSession(w) ==
    /\ At(w, "postSession") /\ Free
    /\ \/ /\ Mine(w).token # NoToken /\ Go(w, job[w].back)
          /\ Set(w, [Mine(w) EXCEPT !.session = TRUE, !.sessionMutex = 0])
          /\ cache' = [cache EXCEPT ![job[w].user] = job[w].obj]
       \/ /\ IF Mine(w).token = NoToken THEN Go(w, "panic") ELSE Ends(w)
          /\ Set(w, [Mine(w) EXCEPT !.sessionMutex = 0]) /\ UNCHANGED cache
    /\ UNCHANGED <<lock, auth, tokens, saved, issued, refused>>

\* Mutant: the retry keeps the header of the first attempt.
HeaderKept(w) ==
    /\ At(w, "header")
    /\ IF Mine(w).token = NoToken THEN Go(w, "panic")
       ELSE Become(w, "do", [job[w] EXCEPT !.sent = IF job[w].attempt = 0 THEN Mine(w).token ELSE @])
    /\ UNCHANGED <<lock, objs, memory, issued, refused>>
\* Request reads the token without a mutex, after each ensureSession but the one for a
\* session that the cloud has lost.
Header(w) ==
    /\ At(w, "header")
    /\ IF Mine(w).token = NoToken THEN Go(w, "panic")
       ELSE Become(w, "do", [job[w] EXCEPT !.sent = Mine(w).token])
    /\ UNCHANGED <<lock, objs, memory, issued, refused>>

NoMore(w) == job[w].attempt = Retries
Again(w, p, back) ==
    /\ ~NoMore(w)
    /\ Become(w, p, [job[w] EXCEPT !.attempt = @ + 1, !.back = back,
                                   !.bad = IF back = "header" THEN job[w].sent ELSE @])

\* Request's loop: an answer; an error of the network; the token refused (401), which
\* discards token and session; the session lost (404), which discards the session.
Do(w) ==
    /\ At(w, "do")
    /\ \/ (Ends(w) \/ Again(w, "do", "do")) /\ UNCHANGED <<objs, refused>>
       \/ /\ Mine(w).authMutex = 0 /\ refused' = TRUE /\ Set(w, [Mine(w) EXCEPT !.token = NoToken])
          /\ (NoMore(w) /\ Ends(w)) \/ Again(w, "dropSession", "header")
       \/ /\ Mine(w).sessionMutex = 0 /\ Set(w, [Mine(w) EXCEPT !.session = FALSE]) /\ UNCHANGED refused
          /\ (NoMore(w) /\ Ends(w)) \/ Again(w, "ensureSession", "do")
    /\ UNCHANGED <<lock, memory, issued>>
DropSession(w) ==
    /\ At(w, "dropSession") /\ Mine(w).sessionMutex = 0
    /\ Set(w, [Mine(w) EXCEPT !.session = FALSE]) /\ Go(w, "ensureSession")
    /\ UNCHANGED <<lock, memory, issued, refused>>

RingStep(w) == GetAuth(w) \/ GotAuth(w) \/ EnsureSession(w) \/ EnsureAuth(w) \/ Refresh(w) \/ Refreshed(w)
               \/ PostSession(w) \/ Header(w) \/ Do(w) \/ DropSession(w)
-----------------------------------------------------------------------------
\* Nest: a client per refresh token, cached while its token is valid.

NestClient(u, t) == [user |-> u, token |-> t, fresh |-> TRUE]

\* NewAPI asks the cloud while it holds cacheMu; Dial and refreshToken call it.
NestDial(w, u) ==
    /\ vendor = "nest" /\ Become(w, "newAPI", NewJob(u))
    /\ UNCHANGED <<lock, objs, memory, issued, refused>>
NewAPI(w) ==
    /\ At(w, "newAPI") /\ Free
    /\ LET c == cache[job[w].user]
       IN IF c # 0 /\ objs[c].fresh
          THEN /\ Become(w, "gotAPI", [job[w] EXCEPT !.got = objs[c].token, !.obj = IF @ = 0 THEN c ELSE @])
               /\ UNCHANGED lock
          ELSE lock' = w /\ Go(w, "askToken")
    /\ UNCHANGED <<objs, memory, issued, refused>>
AskToken(w) ==
    /\ At(w, "askToken") /\ lock' = 0
    /\ \/ /\ issued < MaxIssued /\ issued' = issued + 1
          /\ LET t == <<job[w].user, issued + 1>>
             IN /\ objs' = Append(objs, NestClient(job[w].user, t))
                /\ Become(w, "gotAPI", [job[w] EXCEPT !.got = t, !.obj = IF @ = 0 THEN Len(objs) + 1 ELSE @])
          /\ cache' = [cache EXCEPT ![job[w].user] = Len(objs) + 1]
       \/ Ends(w) /\ UNCHANGED <<issued, objs, cache>>
    /\ UNCHANGED <<auth, tokens, saved, refused>>
\* After a refresh the dial's own client takes the token of the cached one.
GotAPI(w) ==
    /\ At(w, "gotAPI") /\ Set(w, [Mine(w) EXCEPT !.token = job[w].got, !.fresh = TRUE])
    /\ Become(w, "do", [job[w] EXCEPT !.sent = job[w].got])
    /\ UNCHANGED <<lock, memory, issued, refused>>

\* ExchangeSDP: an answer, an error, or a status after which the token is refreshed.
ExchangeSDP(w) ==
    /\ At(w, "do")
    /\ Ends(w) \/ Again(w, "refreshToken", "header")
    /\ UNCHANGED <<lock, objs, memory, issued, refused>>

\* Mutant: the first entry of the cache is taken for ours.
RefreshTokenOfAnybody(w) ==
    /\ At(w, "refreshToken") /\ Free
    /\ LET keys == {u \in Users : cache[u] # 0}
       IN IF keys = {} THEN Ends(w)
          ELSE \E u \in keys : Become(w, "newAPI", [job[w] EXCEPT !.user = u])
    /\ UNCHANGED <<lock, objs, memory, issued, refused>>
\* refreshToken finds the credentials by the token, in the cache.
RefreshToken(w) ==
    /\ At(w, "refreshToken") /\ Free
    /\ LET keys == {u \in Users : cache[u] # 0 /\ objs[cache[u]].token = Mine(w).token}
       IN IF keys = {} THEN Ends(w)
          ELSE \E u \in keys : Become(w, "newAPI", [job[w] EXCEPT !.user = u])
    /\ UNCHANGED <<lock, objs, memory, issued, refused>>
NestStep(w) == NewAPI(w) \/ AskToken(w) \/ GotAPI(w) \/ ExchangeSDP(w) \/ RefreshToken(w)

\* Time: a token reaches its expiry.
Expire ==
    /\ IsRing \/ vendor = "nest"
    /\ \E k \in DOMAIN objs :
         /\ objs[k].fresh /\ objs[k].token # NoToken
         /\ objs' = [objs EXCEPT ![k].fresh = FALSE]
    /\ UNCHANGED <<vendor, job, lock, memory, issued, jobs, refused>>
-----------------------------------------------------------------------------
\* Xiaomi: a login takes several requests of the web page, through the one variable auth.

\* ck and flag are the captcha's and the verification's entries of Cloud.auth.
Cloud(u) == [user |-> u, open |-> FALSE, ick |-> FALSE, flag |-> FALSE, uid |-> "none", tok |-> "none"]

\* Mutant: a login goes on with the client of an earlier one.
LoginReuses(w, u) ==
    /\ vendor = "xiaomi" /\ auth' = (IF auth = 0 THEN Len(objs) + 1 ELSE auth)
    /\ objs' = IF auth = 0 THEN Append(objs, Cloud(u)) ELSE [objs EXCEPT ![auth].user = u]
    /\ Become(w, "login", [NewJob(u) EXCEPT !.obj = auth'])
    /\ UNCHANGED <<lock, cache, tokens, saved, issued, refused>>
\* apiAuth with a name and a password.
Login(w, u) ==
    /\ vendor = "xiaomi" /\ auth' = Len(objs) + 1 /\ objs' = Append(objs, Cloud(u))
    /\ Become(w, "login", [NewJob(u) EXCEPT !.obj = auth'])
    /\ UNCHANGED <<lock, cache, tokens, saved, issued, refused>>
\* ... with a captcha or a code, for whatever login is under way.  Without one, or at the
\* wrong step, it panics; the HTTP server recovers.
LoginWithCaptcha(w) ==
    /\ vendor = "xiaomi" /\ auth # 0 /\ objs[auth].open /\ objs[auth].ick
    /\ Become(w, IF objs[auth].flag THEN "sendTicket" ELSE "login", [NewJob(objs[auth].user) EXCEPT !.obj = auth])
    /\ UNCHANGED <<lock, objs, memory, issued, refused>>
LoginWithVerify(w) ==
    /\ vendor = "xiaomi" /\ auth # 0 /\ objs[auth].open /\ objs[auth].flag
    /\ Become(w, "verify", [NewJob(objs[auth].user) EXCEPT !.obj = auth])
    /\ UNCHANGED <<lock, objs, memory, issued, refused>>

\* Login's answer: refused; a captcha (getCaptcha); a verification (authStart, then
\* sendTicket); or the pass token, and finishAuth is next.
LoginAnswer(w) ==
    /\ At(w, "login")
    /\ \/ Ends(w) /\ \E o \in BOOLEAN : Set(w, [Mine(w) EXCEPT !.open = @ \/ o])
       \/ Ends(w) /\ Set(w, [Mine(w) EXCEPT !.open = TRUE, !.ick = TRUE, !.flag = FALSE])
       \/ Go(w, "sendTicket") /\ Set(w, [Mine(w) EXCEPT !.open = TRUE, !.ick = FALSE, !.flag = TRUE])
       \/ Go(w, "finishAuth") /\ Set(w, [Mine(w) EXCEPT !.open = FALSE, !.tok = Mine(w).user])
    /\ UNCHANGED <<lock, memory, issued, refused>>
SendTicket(w) ==
    /\ At(w, "sendTicket") /\ Ends(w)
    /\ \/ UNCHANGED objs
       \/ Mine(w).open /\ Set(w, [Mine(w) EXCEPT !.ick = TRUE])
    /\ UNCHANGED <<lock, memory, issued, refused>>
Verify(w) ==
    /\ At(w, "verify") /\ (Ends(w) \/ Go(w, "finishAuth"))
    /\ UNCHANGED <<lock, objs, memory, issued, refused>>

\* finishAuth reads user and pass token from the cookies.
FinishAuth(w) ==
    /\ At(w, "finishAuth")
    /\ \/ Ends(w) /\ UNCHANGED objs
       \/ /\ Set(w, [Mine(w) EXCEPT !.uid = Mine(w).user, !.tok = Mine(w).user])
          /\ Go(w, IF lock = w THEN "loggedIn" ELSE "userToken")
    /\ lock' = IF job'[w].at = "idle" /\ lock = w THEN 0 ELSE lock
    /\ UNCHANGED <<memory, issued, refused>>

\* Back in apiAuth the variable auth may be another login's client, or nil: then it
\* panics.  cloudsMu guards the map only.
UserToken(w) ==
    /\ At(w, "userToken") /\ auth' = 0
    /\ IF auth = 0 THEN Ends(w)
       ELSE Become(w, "storeToken", [job[w] EXCEPT !.got = <<objs[auth].uid, 0>>, !.pass = objs[auth].tok])
    /\ UNCHANGED <<lock, objs, cache, tokens, saved, issued, refused>>
\* An entry for the empty name is nobody's.
StoreToken(w) ==
    /\ At(w, "storeToken") /\ Free /\ Go(w, "patchConfig")
    /\ tokens' = [u \in Users |-> IF u = job[w].got[1] THEN job[w].pass ELSE tokens[u]]
    /\ UNCHANGED <<lock, objs, cache, auth, saved, issued, refused>>

\* PatchConfig, of xiaomi and wyze; it may fail.
PatchConfig(w) ==
    /\ At(w, "patchConfig")
    /\ \/ /\ saved' = [u \in Users |-> IF u = job[w].got[1] THEN job[w].pass ELSE saved[u]]
          /\ IF vendor = "wyze" THEN Go(w, "remember") ELSE Ends(w)
       \/ Ends(w) /\ UNCHANGED saved
    /\ UNCHANGED <<lock, objs, cache, auth, tokens, issued, refused>>

\* getCloud of a dial or the device list: the cached client, or a login with the token
\* under cloudsMu.  The cached one stays for ever.
GetCloud(w, u) ==
    /\ vendor = "xiaomi" /\ Free
    /\ IF cache[u] # 0
       THEN Become(w, "do", [NewJob(u) EXCEPT !.obj = cache[u]]) /\ UNCHANGED <<objs, lock>>
       ELSE /\ lock' = w /\ tokens[u] # "none" /\ objs' = Append(objs, Cloud(tokens[u]))
            /\ Become(w, "finishAuth", [NewJob(u) EXCEPT !.obj = Len(objs) + 1])
    /\ UNCHANGED <<memory, issued, refused>>
LoggedIn(w) ==
    /\ At(w, "loggedIn") /\ cache' = [cache EXCEPT ![job[w].user] = job[w].obj]
    /\ lock' = 0 /\ Go(w, "do")
    /\ UNCHANGED <<objs, auth, tokens, saved, issued, refused>>
\* Cloud.Request signs with the client's key; the answer, or an error.
CloudRequest(w) ==
    /\ At(w, "do") /\ Ends(w)
    /\ UNCHANGED <<lock, objs, memory, issued, refused>>
XiaomiStep(w) == LoginAnswer(w) \/ SendTicket(w) \/ Verify(w) \/ FinishAuth(w) \/ UserToken(w)
                 \/ StoreToken(w) \/ PatchConfig(w) \/ LoggedIn(w) \/ CloudRequest(w)
-----------------------------------------------------------------------------
\* Wyze: an account is tried before it is stored.

WyzeAuth(w, u) ==
    /\ vendor = "wyze"
    /\ \E p \in {u, "wrong"} : Become(w, "tryLogin", [NewJob(u) EXCEPT !.got = <<u, 0>>, !.pass = p])
    /\ UNCHANGED <<lock, objs, memory, issued, refused>>
\* Mutant: stored first, tried later.
TryLoginLater(w) ==
    /\ At(w, "tryLogin") /\ (Ends(w) \/ Go(w, "patchConfig"))
    /\ UNCHANGED <<lock, objs, memory, issued, refused>>
\* A wrong password, a second factor that is asked for, or no answer end it.
TryLogin(w) ==
    /\ At(w, "tryLogin") /\ (Ends(w) \/ (job[w].pass # "wrong" /\ Go(w, "patchConfig")))
    /\ UNCHANGED <<lock, objs, memory, issued, refused>>
Remember(w) ==
    /\ At(w, "remember") /\ tokens' = [tokens EXCEPT ![job[w].user] = job[w].pass] /\ Go(w, "cameras")
    /\ UNCHANGED <<lock, objs, cache, auth, saved, issued, refused>>
\* getCloud logs in for each list; the list is the last request.
WyzeList(w, u) ==
    /\ vendor = "wyze" /\ tokens[u] # "none" /\ Become(w, "listLogin", NewJob(u))
    /\ UNCHANGED <<lock, objs, memory, issued, refused>>
ListLogin(w) ==
    /\ At(w, "listLogin") /\ (Ends(w) \/ Go(w, "cameras"))
    /\ UNCHANGED <<lock, objs, memory, issued, refused>>
Cameras(w) == At(w, "cameras") /\ Ends(w) /\ UNCHANGED <<lock, objs, memory, issued, refused>>
WyzeStep(w) == TryLogin(w) \/ PatchConfig(w) \/ Remember(w) \/ ListLogin(w) \/ Cameras(w)
-----------------------------------------------------------------------------
\* Tuya: a client per request.  apiTuya logs in and lists the cameras of all rooms and of
\* shared homes; a dial gets its token, the camera's settings and the address of MQTT.

TuyaRequest(w, u) ==
    /\ vendor = "tuya" /\ \E p \in {"listToken", "initToken"} : Become(w, p, NewJob(u))
    /\ UNCHANGED <<lock, objs, memory, issued, refused>>
TuyaGoes(w, from, to) ==
    /\ At(w, from) /\ (Ends(w) \/ Go(w, to))
    /\ UNCHANGED <<lock, objs, memory, issued, refused>>
TuyaLogin(w) == TuyaGoes(w, "listToken", "login") \/ TuyaGoes(w, "login", "room1")
TuyaInit(w) == \/ TuyaGoes(w, "initToken", "webrtcConfig") \/ TuyaGoes(w, "webrtcConfig", "hubConfig")
               \/ TuyaGoes(w, "hubConfig", "mqtt") \/ TuyaGoes(w, "mqtt", "cameras")

\* Mutant: nobody looks whether a camera is already there.
AddDevicesTwice(found, cams) == found \o cams
\* A camera that is already there is left out (containsDevice).
AddDevices(found, cams) == found \o SelectSeq(cams, LAMBDA c : ~Contains(found, c))

\* A list that cannot be read is skipped.
RoomStep == [k \in 1..Len(Rooms) + 1 |-> "room" \o ToString(k)]
TuyaRoom(w) ==
    /\ \E k \in 1..Len(Rooms) :
         /\ At(w, RoomStep[k])
         /\ \E c \in {Rooms[k], <<>>} :
              Become(w, RoomStep[k + 1], [job[w] EXCEPT !.found = AddDevices(@, c)])
    /\ UNCHANGED <<lock, objs, memory, issued, refused>>
TuyaShared(w) ==
    /\ At(w, RoomStep[Len(Rooms) + 1])
    /\ \E c \in {Shared, <<>>} : Become(w, "cameras", [job[w] EXCEPT !.found = AddDevices(@, c)])
    /\ UNCHANGED <<lock, objs, memory, issued, refused>>
TuyaStep(w) == TuyaLogin(w) \/ TuyaInit(w) \/ TuyaRoom(w) \/ TuyaShared(w) \/ Cameras(w)
-----------------------------------------------------------------------------
Request ==
    /\ jobs < MaxJobs[vendor] /\ jobs' = jobs + 1 /\ UNCHANGED vendor
    /\ \E w \in Workers : At(w, "idle") /\ (\A x \in Workers : x < w => ~At(x, "idle")) /\
         \/ \E u \in RingUsers : NewRestClient(w, u)
         \/ \E u \in Users : \/ NestDial(w, u) \/ Login(w, u) \/ GetCloud(w, u)
                             \/ WyzeAuth(w, u) \/ WyzeList(w, u) \/ TuyaRequest(w, u)
         \/ LoginWithCaptcha(w) \/ LoginWithVerify(w)
Work(w) ==
    /\ \/ IsRing /\ RingStep(w)
       \/ vendor = "nest" /\ NestStep(w)
       \/ vendor = "xiaomi" /\ XiaomiStep(w)
       \/ vendor = "wyze" /\ WyzeStep(w)
       \/ vendor = "tuya" /\ TuyaStep(w)
    /\ UNCHANGED <<vendor, jobs>>
Next == Request \/ Expire \/ \E w \in Workers : Work(w)

Spec == Init /\ [][Next]_vars
-----------------------------------------------------------------------------
\* Every variable has its type.
TypeOK ==
    /\ vendor \in Vendors /\ lock \in Workers \cup {0}
    /\ cache \in [Users -> 0..Len(objs)] /\ auth \in 0..Len(objs)
    /\ issued \in 0..MaxIssued /\ jobs \in 0..MaxJobs[vendor] /\ refused \in BOOLEAN
    /\ \A w \in Workers : job[w].obj \in 0..Len(objs) /\ job[w].attempt \in 0..Retries
    /\ tokens \in [Users -> Users \cup {"none", "wrong"}] /\ saved \in [Users -> Users \cup {"none", "wrong"}]

\* A ring client never goes back to a refresh token that it has exchanged (ensureAuth), and
\* no client sends one that another client has exchanged, except that of the source's URL:
\* to that one each new client of the account returns (NewRestClient), whatever the clients
\* before it were given.  (GetAuth takes no mutex: two logins with the same address may end
\* the other way round.)
Refreshing(k) == \E w \in Workers : At(w, "refreshed") /\ job[w].obj = k
LatestIsKept ==
    vendor = "ring" => \A k \in DOMAIN objs :
        /\ objs[k].rt \in objs[k].spent => Refreshing(k)
        /\ \A j \in DOMAIN objs \ {k} : objs[k].rt \in objs[j].spent => objs[k].rt = <<objs[k].user, 0>>

\* After a refusal a request comes back with another token (Request, ExchangeSDP has no
\* such promise: NewAPI hands out the cached token until it expires).
RetryIsNewer == \A w \in Workers : (IsRing /\ At(w, "do")) => job[w].sent # job[w].bad

\* A token is missing only where the cloud has refused one: another request, between its
\* refresh of the session and its own request, then reads nil (Request).
NilAfterRefusal == (\E w \in Workers : At(w, "panic")) => refused

\* A client never gets another account's token (refreshToken, which finds the account
\* by the token), and never sends one.
TokenOfItsAccount ==
    /\ vendor = "nest" => \A k \in DOMAIN objs : objs[k].token[1] = objs[k].user
    /\ \A w \in Workers : At(w, "do") /\ vendor = "nest" => job[w].sent[1] = objs[job[w].obj].user

\* What is stored for a user is that user's, and the cloud has accepted it, whatever
\* logins overlap (apiAuth of xiaomi and wyze).
StoredIsConfirmed == \A u \in Users : {tokens[u], saved[u]} \subseteq {"none", u}

\* The list of tuya cameras names each camera once (apiTuya).
ListedOnce == \A w \in Workers : IsInjective(job[w].found)

\* Some request can go on while there are any: no mutex is kept by a request that is
\* over, or waited for in a circle (Request, ensureSession, refreshToken, getCloud).  As
\* each step leads on and the retries are bounded, every request then comes to its end.
SomeCanGoOn == (\E w \in Workers : job[w].at \notin {"idle", "panic"})
                  => \E w \in Workers : ENABLED Work(w)

\* What the module promises.
Promise == /\ [](TypeOK /\ LatestIsKept /\ RetryIsNewer /\ NilAfterRefusal
                 /\ TokenOfItsAccount /\ StoredIsConfirmed /\ ListedOnce)
           /\ []SomeCanGoOn
=============================================================================
