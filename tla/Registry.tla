------------------------------ MODULE Registry -----------------------------
(***************************************************************************)
(* The named streams of go2rtc and the HTTP handlers that change them        *)
(* (internal/streams: streams.go, api.go, preload.go, publish.go).  The two  *)
(* maps have a mutex each and the configuration file a third one, so the     *)
(* steps of two handlers on one name interleave.  A stream that is replaced   *)
(* or deleted loses its name and keeps its consumers.                        *)
(* Each request is one HTTP call; its consumer, if it makes one, is named     *)
(* after it.  What a stream does with its consumers is the module Streams.   *)
(***************************************************************************)
EXTENDS FiniteSets

CONSTANTS Names, StreamIds, Requests, None,
          Queries,    \* what a request can ask for; "" when it names no medium
          AtStart     \* name -> stream: what the configuration file names

VARIABLES streams,    \* name -> stream or None
          unused,     \* streams not made yet: the bound on New and Patch
          preloads,   \* name -> [stream, cons, query] or None
          configured, \* "preload" of the configuration file: name -> query as asked, or None
          attached,   \* stream -> consumers
          preloadsMu, \* who holds it
          step, of, held, query, \* a request: where it is, its name, stream and query
          met,        \* history: preload requests that ran beside another on their name
          unsaved     \* history: names last written by one of those, or not written

maps == <<streams, unused, attached>>
request == <<of, held, query>>
history == <<met, unsaved>>
vars == <<maps, preloads, configured, preloadsMu, step, request, history>>

Init ==
    /\ streams = AtStart /\ unused = StreamIds \ {AtStart[n] : n \in Names}
    /\ preloads = [n \in Names |-> None] /\ configured = preloads
    /\ attached = [s \in StreamIds |-> {}] /\ preloadsMu = None
    /\ step = [r \in Requests |-> "new"] /\ of = [r \in Requests |-> None]
    /\ held = of /\ query = of /\ met = {} /\ unsaved = {}
-----------------------------------------------------------------------------
\* A request goes on, or is answered and forgotten.
Goto(r, s) == step' = [step EXCEPT ![r] = s] /\ UNCHANGED request
Answered(r) ==
    /\ step' = [step EXCEPT ![r] = "done"] /\ of' = [of EXCEPT ![r] = None]
    /\ held' = [held EXCEPT ![r] = None] /\ query' = [query EXCEPT ![r] = None]

\* New, NewStream: the name now means a stream without consumers.
Name(n, s) == streams' = [streams EXCEPT ![n] = s] /\ unused' = unused \ {s}

\* PUT api/streams; DELETE writes to the map without its mutex.
Put(r, n) == /\ step[r] = "new" /\ Answered(r) /\ \E s \in unused : Name(n, s)
             /\ UNCHANGED <<attached, preloads, configured, preloadsMu, history>>
Delete(r, n) ==
    /\ step[r] = "new" /\ Answered(r) /\ streams' = [streams EXCEPT ![n] = None]
    /\ UNCHANGED <<unused, attached, preloads, configured, preloadsMu, history>>

\* Patch: a source that is the name of a stream makes n an alias of it; else the
\* stream of that name gets another source, or one is made.
Patch(r, n) ==
    /\ step[r] = "new" /\ Answered(r)
    /\ \/ \E m \in Names : streams[m] # None
            /\ streams' = [streams EXCEPT ![n] = streams[m]] /\ UNCHANGED unused
       \/ streams[n] # None /\ UNCHANGED <<streams, unused>>
       \/ streams[n] = None /\ \E s \in unused : Name(n, s)
    /\ UNCHANGED <<attached, preloads, configured, preloadsMu, history>>

\* AddConsumer on the stream of the request: it may fail, and then attaches nothing.
Attach(r, s) == attached' = [attached EXCEPT ![s] = @ \cup {r}]
Detach(c, s) == attached' = [attached EXCEPT ![s] = @ \ {c}]

\* GET api/streams?src: a probe joins, the stream is written out, the probe leaves.
\* POST: a consumer made from the destination joins.
Join(r, n, next) ==
    /\ step[r] = "new" /\ streams[n] # None
    /\ Attach(r, streams[n]) /\ step' = [step EXCEPT ![r] = next]
    /\ held' = [held EXCEPT ![r] = streams[n]]
    /\ UNCHANGED <<streams, unused, preloads, configured, preloadsMu, of, query, history>>
ProbeLeaves(r) ==
    /\ step[r] = "probe" /\ Answered(r) /\ Detach(r, held[r])
    /\ UNCHANGED <<streams, unused, preloads, configured, preloadsMu, history>>

\* Publish: when the destination hangs up the consumer leaves; five seconds later
\* it is dialled again, and the first failure ends the loop.
RunEnds(r) ==
    /\ step[r] = "publish" /\ Goto(r, "sleep") /\ Detach(r, held[r])
    /\ UNCHANGED <<streams, unused, preloads, configured, preloadsMu, history>>
PublishAgain(r) ==
    /\ step[r] = "sleep"
    /\ \/ Goto(r, "publish") /\ Attach(r, held[r])
       \/ Answered(r) /\ UNCHANGED attached
    /\ UNCHANGED <<streams, unused, preloads, configured, preloadsMu, history>>
-----------------------------------------------------------------------------
\* PUT and DELETE api/preload.
Preloading(n) == {r \in Requests : of[r] = n /\ step[r] \notin {"new", "done"}}

AskPreload(r, n) ==
    /\ step[r] = "new" /\ \E s \in {"add", "del"} : step' = [step EXCEPT ![r] = s]
    /\ of' = [of EXCEPT ![r] = n] /\ \E q \in Queries : query' = [query EXCEPT ![r] = q]
    /\ met' = IF Preloading(n) = {} THEN met ELSE met \cup {r} \cup Preloading(n)
    /\ UNCHANGED <<maps, preloads, configured, preloadsMu, held, unsaved>>

\* The query AddPreload works with and keeps.  The file gets the one that was asked.
Parsed(q) == IF q = "" THEN "video&audio" ELSE q

\* Mutant: the return for an unknown stream keeps the lock.
AddPreloadAndKeep(r) ==
    /\ step[r] = "add" /\ preloadsMu = None /\ preloadsMu' = r
    /\ LET p == preloads[of[r]] IN
         IF p # None THEN Detach(p.cons, p.stream) ELSE UNCHANGED attached
    /\ IF streams[of[r]] = None
       THEN Answered(r)
       ELSE /\ step' = [step EXCEPT ![r] = "attach"] /\ UNCHANGED <<of, query>>
            /\ held' = [held EXCEPT ![r] = streams[of[r]]]
    /\ UNCHANGED <<streams, unused, preloads, configured, history>>

\* AddPreload: with the lock taken the old consumer leaves its own stream, and
\* the stream of the name is looked up.
AddPreload(r) ==
    /\ step[r] = "add" /\ preloadsMu = None
    /\ LET p == preloads[of[r]] IN
         IF p # None THEN Detach(p.cons, p.stream) ELSE UNCHANGED attached
    /\ IF streams[of[r]] = None
       THEN Answered(r) /\ UNCHANGED preloadsMu
       ELSE /\ step' = [step EXCEPT ![r] = "attach"] /\ preloadsMu' = r
            /\ held' = [held EXCEPT ![r] = streams[of[r]]] /\ UNCHANGED <<of, query>>
    /\ UNCHANGED <<streams, unused, preloads, configured, history>>

\* Mutant: the error is answered and the configuration written all the same.
AddConsumerAndSave(r) ==
    /\ step[r] = "attach" /\ preloadsMu' = None /\ Goto(r, "save")
    /\ \/ /\ Attach(r, held[r])
          /\ preloads' = [preloads EXCEPT ![of[r]] =
                            [stream |-> held[r], cons |-> r, query |-> Parsed(query[r])]]
       \/ UNCHANGED <<attached, preloads>>
    /\ UNCHANGED <<streams, unused, configured, history>>

\* AddConsumer and its two ways out; the lock is released on both.
AddConsumer(r) ==
    /\ step[r] = "attach" /\ preloadsMu' = None
    /\ \/ /\ Attach(r, held[r]) /\ Goto(r, "save")
          /\ preloads' = [preloads EXCEPT ![of[r]] =
                            [stream |-> held[r], cons |-> r, query |-> Parsed(query[r])]]
       \/ Answered(r) /\ UNCHANGED <<attached, preloads>>
    /\ UNCHANGED <<streams, unused, configured, history>>

\* Mutant: the consumer is taken off the stream that has the name now.
DelPreloadByName(r) ==
    /\ step[r] = "del" /\ preloadsMu = None
    /\ LET p == preloads[of[r]] IN
         IF p = None THEN Answered(r) /\ UNCHANGED <<attached, preloads>>
         ELSE /\ Goto(r, "clear") /\ preloads' = [preloads EXCEPT ![of[r]] = None]
              /\ IF streams[of[r]] = None THEN UNCHANGED attached
                                          ELSE Detach(p.cons, streams[of[r]])
    /\ UNCHANGED <<streams, unused, configured, preloadsMu, history>>

\* DelPreload: the consumer leaves the stream it was attached to.
DelPreload(r) ==
    /\ step[r] = "del" /\ preloadsMu = None
    /\ LET p == preloads[of[r]] IN
         IF p = None THEN Answered(r) /\ UNCHANGED <<attached, preloads>>
         ELSE /\ Detach(p.cons, p.stream) /\ Goto(r, "clear")
              /\ preloads' = [preloads EXCEPT ![of[r]] = None]
    /\ UNCHANGED <<streams, unused, configured, preloadsMu, history>>

\* PatchConfig: the file is written after the lock was released, or cannot be.  Two
\* requests on a name may write in another order than they changed the registry.
PatchConfig(r) ==
    /\ step[r] \in {"save", "clear"} /\ Answered(r)
    /\ \/ /\ configured' = [configured EXCEPT ![of[r]] =
                              IF step[r] = "save" THEN query[r] ELSE None]
          /\ unsaved' = IF r \in met THEN unsaved \cup {of[r]} ELSE unsaved \ {of[r]}
       \/ UNCHANGED configured /\ unsaved' = unsaved \cup {of[r]}
    /\ UNCHANGED <<maps, preloads, preloadsMu, met>>

Request(r) == AddPreload(r) \/ AddConsumer(r) \/ DelPreload(r) \/ PatchConfig(r)
Next ==
    \E r \in Requests :
       \/ \E n \in Names : \/ Put(r, n) \/ Delete(r, n) \/ Patch(r, n) \/ AskPreload(r, n)
                           \/ \E s \in {"probe", "publish"} : Join(r, n, s)
       \/ ProbeLeaves(r) \/ RunEnds(r) \/ PublishAgain(r) \/ Request(r)
Fairness == \A r \in Requests : WF_vars(Request(r))
Spec == Init /\ [][Next]_vars /\ Fairness
-----------------------------------------------------------------------------
\* Every variable has its type.
TypeOK ==
    /\ streams \in [Names -> StreamIds \cup {None}] /\ unused \subseteq StreamIds
    /\ preloads \in [Names -> [stream : StreamIds, cons : Requests,
                              query : {Parsed(q) : q \in Queries}] \cup {None}]
    /\ configured \in [Names -> Queries \cup {None}]
    /\ attached \in [StreamIds -> SUBSET Requests] /\ preloadsMu \in Requests \cup {None}
    /\ step \in [Requests -> {"new", "probe", "publish", "sleep", "add", "attach", "save",
                              "del", "clear", "done"}]
    /\ of \in [Requests -> Names \cup {None}] /\ held \in [Requests -> StreamIds \cup {None}]
    /\ query \in [Requests -> Queries \cup {None}] /\ met \subseteq Requests
    /\ unsaved \subseteq Names

\* A consumer on a stream, named or not, belongs to somebody who will take it off:
\* a request on its way, a publish loop, or the preload the registry still names.
\* (preload.go RemoveConsumer on p.stream; api.go probe; publish.go.)
NobodyLeft ==
    \A s \in StreamIds : \A c \in attached[s] :
        \/ step[c] \in {"probe", "publish"} /\ held[c] = s
        \/ \E n \in Names : preloads[n] # None /\ preloads[n].cons = c /\ preloads[n].stream = s

\* What AddPreload makes of the file's query at the next start is the preload the
\* registry shows, once a request that no other on its name ran beside has changed and
\* written it, whatever happened before; a request that fails changes neither.  Requests
\* that overlap can leave the two different, until the next one that does not
\* (api.go apiPreload writes after the lock is gone).
PreloadIsSaved ==
    \A n \in Names :
        Preloading(n) = {} /\ n \notin unsaved =>
            IF preloads[n] = None
            THEN configured[n] = None
            ELSE configured[n] # None /\ Parsed(configured[n]) = preloads[n].query

\* A preload request is answered: none of its ways out keeps the lock (preload.go).
PreloadsAnswered == \A r \in Requests : step[r] \in {"add", "del"} ~> step[r] = "done"

\* What the module promises.  However the requests interleave no consumer is left
\* behind and every request is answered; the registry and the file agree after a request
\* that had its name to itself (preload.go, api.go, publish.go).
Promise == [](TypeOK /\ NobodyLeft /\ PreloadIsSaved) /\ PreloadsAnswered
=============================================================================
