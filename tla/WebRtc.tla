------------------------------- MODULE WebRtc ------------------------------
(***************************************************************************)
(* WebRTC viewers and publishers: the asynchronous exchange over a websocket *)
(* (internal/webrtc asyncHandler, candidates.go; api/ws runs each message in *)
(* a goroutine of its own) and the exchange in one HTTP request (ExchangeSDP,*)
(* inputWebRTC).  pion is external: it gathers local candidates once the     *)
(* answer is set, refuses remote ones before the offer is, and fails by       *)
(* itself when the player goes away, which is all that ends a connection.    *)
(***************************************************************************)
EXTENDS Integers, FiniteSets

CONSTANTS Conns,        \* peer connections: one for each offer
          Candidates,   \* remote candidates sent over the websocket
          None

VARIABLES kind,         \* "ws", "whep" or "whip"
          step,         \* where the handler of the offer is
          sendAnswer,   \* the waiter of asyncHandler was released
          answered,     \* the player has the answer
          local,        \* the local candidate: gathered, and sent
          pc,           \* state of the peer connection
          event,        \* its Closed event is still to be fired
          attached,     \* on the stream, as consumer or producer
          sessions,     \* WHIP sessions that DELETE can name
          ctxConn, ctxList,  \* the websocket's context: connection, early candidates
          remote,       \* remote candidates: where they are
          added         \* those the connection was given

offer == <<kind, step, sendAnswer, answered, attached, sessions>>
peer == <<local, pc, event>>
socket == <<ctxConn, ctxList, remote, added>>
vars == <<offer, peer, socket>>

Init ==
    /\ kind = [c \in Conns |-> None] /\ step = [c \in Conns |-> "new"]
    /\ sendAnswer = {} /\ answered = {} /\ local = [c \in Conns |-> "none"]
    /\ pc = [c \in Conns |-> "new"] /\ event = {} /\ attached = {} /\ sessions = {}
    /\ ctxConn = None /\ ctxList = {} /\ remote = [m \in Candidates |-> "unsent"]
    /\ added = [c \in Conns |-> {}]
-----------------------------------------------------------------------------
Goto(c, s) == step' = [step EXCEPT ![c] = s]
Closed(c) == pc' = [pc EXCEPT ![c] = "closed"] /\ event' = event \cup {c}

\* Mutant: the context knows the connection from the start.
SetOfferInContext(c) ==
    /\ step[c] = "new" /\ kind' = [kind EXCEPT ![c] = "ws"] /\ ctxConn' = c
    /\ Goto(c, "offered")
    /\ UNCHANGED <<sendAnswer, answered, attached, sessions, peer, ctxList, remote, added>>

\* NewConn and SetOffer.  A refused offer ends the handler and leaves the peer
\* connection as it is.
SetOffer(c) ==
    /\ step[c] = "new" /\ \E k \in {"ws", "whep", "whip"} : kind' = [kind EXCEPT ![c] = k]
    /\ \/ Goto(c, "offered") /\ UNCHANGED sendAnswer
       \/ Goto(c, "failed") /\ sendAnswer' = sendAnswer \cup {c}
    /\ UNCHANGED <<answered, attached, sessions, peer, socket>>

\* AddConsumer or AddProducer; a consumer that finds no track is closed.  WHIP
\* comes to this after its answer is made.
Join(c) ==
    /\ step[c] = "offered" /\ kind[c] # "whip"
    /\ \/ Goto(c, "joined") /\ attached' = attached \cup {c}
          /\ UNCHANGED <<sendAnswer, pc, event>>
       \/ /\ Goto(c, "failed") /\ sendAnswer' = sendAnswer \cup {c} /\ Closed(c)
          /\ UNCHANGED attached
    /\ UNCHANGED <<kind, answered, sessions, local, socket>>

\* GetAnswer: the remote description, then the local one, which starts gathering.
\* An error leaves what has joined where it is.
GetAnswer(c) ==
    /\ step[c] = IF kind[c] = "whip" THEN "offered" ELSE "joined"
    /\ \/ /\ Goto(c, "described") /\ local' = [local EXCEPT ![c] = "gathering"]
          /\ UNCHANGED sendAnswer
       \/ Goto(c, "failed") /\ sendAnswer' = sendAnswer \cup {c} /\ UNCHANGED local
    /\ UNCHANGED <<kind, answered, attached, sessions, pc, event, socket>>

\* tr.Write of the answer, and the waiter of the local candidates.
WriteAnswer(c) ==
    /\ kind[c] = "ws" /\ step[c] = "described" /\ Goto(c, "answered")
    /\ answered' = answered \cup {c}
    /\ UNCHANGED <<kind, sendAnswer, attached, sessions, peer, socket>>
AnswerDone(c) ==
    /\ step[c] = "answered" /\ Goto(c, "released") /\ sendAnswer' = sendAnswer \cup {c}
    /\ UNCHANGED <<kind, answered, attached, sessions, peer, socket>>

\* Mutant: the early candidates are kept in the context, not given on.
AsyncCandidatesKeeps(c) ==
    /\ step[c] = "released" /\ Goto(c, "done") /\ ctxConn' = c
    /\ UNCHANGED <<kind, sendAnswer, answered, attached, sessions, peer, ctxList, remote, added>>

\* asyncCandidates: under the lock of the context the early candidates are given
\* to the connection, and the later ones will find it.
AsyncCandidates(c) ==
    /\ step[c] = "released" /\ Goto(c, "done") /\ ctxConn' = c /\ ctxList' = {}
    /\ added' = [added EXCEPT ![c] = @ \cup ctxList]
    /\ UNCHANGED <<kind, sendAnswer, answered, attached, sessions, peer, remote>>

\* GetCompleteAnswer waits for the last candidate; the answer of the HTTP request
\* carries them all.
GetCompleteAnswer(c) ==
    /\ step[c] = "described" /\ local[c] = "gathered" /\ Goto(c, "done")
    /\ answered' = answered \cup {c} /\ local' = [local EXCEPT ![c] = "sent"]
    /\ UNCHANGED <<kind, sendAnswer, pc, event, socket>>

\* The viewer of the request is on the stream already; the publisher is named,
\* listened to and added before it has its answer.
OutputWebRTC(c) ==
    /\ kind[c] = "whep" /\ GetCompleteAnswer(c)
    /\ UNCHANGED <<sessions, attached>>
InputWebRTC(c) ==
    /\ kind[c] = "whip" /\ GetCompleteAnswer(c)
    /\ sessions' = sessions \cup {c} /\ attached' = attached \cup {c}

\* DELETE api/webrtc?id.
DeleteSession(c) ==
    /\ c \in sessions /\ sessions' = sessions \ {c}
    /\ IF pc[c] = "closed" THEN UNCHANGED <<pc, event>> ELSE Closed(c)
    /\ UNCHANGED <<kind, step, sendAnswer, answered, attached, local, socket>>
-----------------------------------------------------------------------------
\* Messages of the player: a candidate may come before, with or after its offer,
\* and its handler runs when it likes.
SendCandidate(m) ==
    /\ remote[m] = "unsent" /\ remote' = [remote EXCEPT ![m] = "read"]
    /\ UNCHANGED <<offer, peer, ctxConn, ctxList, added>>

\* candidateHandler, under the lock of the context.
CandidateHandler(m) ==
    /\ remote[m] = "read" /\ remote' = [remote EXCEPT ![m] = "handled"]
    /\ IF ctxConn # None
       THEN added' = [added EXCEPT ![ctxConn] = @ \cup {m}] /\ UNCHANGED ctxList
       ELSE ctxList' = ctxList \cup {m} /\ UNCHANGED added
    /\ UNCHANGED <<offer, peer, ctxConn>>

\* OnICECandidate of asyncHandler: waits for the answer, then writes.
Gathered(c) ==
    /\ local[c] = "gathering" /\ local' = [local EXCEPT ![c] = "gathered"]
    /\ UNCHANGED <<offer, pc, event, socket>>
\* Mutant: the candidate does not wait for the answer.
WriteLocalAtOnce(c) ==
    /\ kind[c] = "ws" /\ local[c] = "gathered" /\ local' = [local EXCEPT ![c] = "sent"]
    /\ UNCHANGED <<offer, pc, event, socket>>

WriteLocal(c) ==
    /\ kind[c] = "ws" /\ local[c] = "gathered" /\ c \in sendAnswer
    /\ local' = [local EXCEPT ![c] = "sent"]
    /\ UNCHANGED <<offer, pc, event, socket>>

\* pion: the checks start with the answer; a connection that stood is disconnected
\* before it fails, one that never stood fails at once.
Connected(c) ==
    /\ pc[c] = "new" /\ c \in answered /\ pc' = [pc EXCEPT ![c] = "connected"]
    /\ UNCHANGED <<offer, local, event, socket>>
PlayerGone(c) ==
    /\ c \in answered /\ pc[c] \in {"new", "connected"}
    /\ pc' = [pc EXCEPT ![c] = IF pc[c] = "connected" THEN "disconnected" ELSE "failed"]
    /\ UNCHANGED <<offer, local, event, socket>>

\* Mutant: "failed" is taken to come after "disconnected" always.
StateChangeOnDisconnect(c) ==
    /\ pc[c] = "disconnected" /\ Closed(c)
    /\ UNCHANGED <<offer, local, socket>>

\* OnConnectionStateChange: both bad states close the connection, which fires
\* Closed; the listener then takes the connection off the stream.
StateChange(c) ==
    /\ pc[c] \in {"disconnected", "failed"} /\ Closed(c)
    /\ UNCHANGED <<offer, local, socket>>
FireClosed(c) ==
    /\ c \in event /\ event' = event \ {c} /\ attached' = attached \ {c}
    /\ sessions' = sessions \ {c}
    /\ UNCHANGED <<kind, step, sendAnswer, answered, local, pc, socket>>

AsyncHandler(c) ==
    kind[c] = "ws" /\ (Join(c) \/ GetAnswer(c) \/ WriteAnswer(c) \/ AnswerDone(c)
                       \/ AsyncCandidates(c))
ExchangeSDP(c) == kind[c] = "whep" /\ (Join(c) \/ GetAnswer(c) \/ OutputWebRTC(c))
Publish(c) == kind[c] = "whip" /\ (GetAnswer(c) \/ InputWebRTC(c))
Handler(c) == AsyncHandler(c) \/ ExchangeSDP(c) \/ Publish(c)
Pion(c) == Gathered(c) \/ WriteLocal(c) \/ StateChange(c) \/ FireClosed(c)
Next ==
    \/ \E c \in Conns : SetOffer(c) \/ Handler(c) \/ Pion(c) \/ DeleteSession(c)
                        \/ Connected(c) \/ PlayerGone(c)
    \/ \E m \in Candidates : SendCandidate(m) \/ CandidateHandler(m)
Fairness ==
    /\ \A c \in Conns : WF_vars(Handler(c)) /\ WF_vars(Pion(c))
    /\ \A m \in Candidates : WF_vars(CandidateHandler(m))
Spec == Init /\ [][Next]_vars /\ Fairness
-----------------------------------------------------------------------------
\* Every variable has its type.
TypeOK ==
    /\ kind \in [Conns -> {None, "ws", "whep", "whip"}]
    /\ step \in [Conns -> {"new", "offered", "joined", "described", "answered", "released",
                           "done", "failed"}]
    /\ local \in [Conns -> {"none", "gathering", "gathered", "sent"}]
    /\ pc \in [Conns -> {"new", "connected", "disconnected", "failed", "closed"}]
    /\ UNION {sendAnswer, answered, event, attached, sessions} \subseteq Conns
    /\ ctxConn \in Conns \cup {None} /\ ctxList \subseteq Candidates
    /\ remote \in [Candidates -> {"unsent", "read", "handled"}]
    /\ added \in [Conns -> SUBSET Candidates]

\* No local candidate overtakes the answer it belongs to (webrtc.go, sendAnswer).
AnswerFirst == \A c \in Conns : local[c] = "sent" => c \in answered

\* A remote candidate is given to a connection only when that has its remote
\* description: pion drops it otherwise (candidates.go).
OfferFirst == \A c \in Conns : added[c] # {} => local[c] # "none"

\* A remote candidate is kept for the connection however its handler and that of
\* the offer are scheduled (asyncCandidates, candidateHandler).
CandidatesReach ==
    \A m \in Candidates : remote[m] = "read" /\ (\E c \in Conns : step[c] = "released")
                              ~> \E c \in Conns : m \in added[c]

\* When the player of an answered connection goes away, or the session is deleted,
\* the connection leaves the stream and its name (conn.go, the listeners).
GoneLeaves ==
    \A c \in Conns : pc[c] \in {"disconnected", "failed", "closed"}
                         ~> c \notin attached \cup sessions

\* What the module promises.  Offers, answers and candidates keep their order, no candidate is lost, and who
\* is gone leaves (webrtc.go, candidates.go, conn.go).
Promise == [](TypeOK /\ AnswerFirst /\ OfferFirst) /\ CandidatesReach /\ GoneLeaves
=============================================================================
