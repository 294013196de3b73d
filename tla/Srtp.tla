-------------------------------- MODULE Srtp --------------------------------
(***************************************************************************)
(* The shared SRTP server (pkg/srtp/server.go): one UDP socket that opens   *)
(* with the first session and closes with the last, and a goroutine that    *)
(* reads it.  Its users are the HomeKit producers (pkg/homekit/producer.go),*)
(* whose Start registers sessions and whose Stop removes them, in any order *)
(* and more than once, from different goroutines.                           *)
(*                                                                         *)
(* The reader takes s.conn without the mutex at the top of its loop, so one *)
(* that was busy with a packet may find the next socket there.              *)
(* Every session has its own SSRC (32 random bits of the peer).             *)
(***************************************************************************)
EXTENDS Integers, FiniteSets

CONSTANTS Users,    \* producers, one session each
          Readers,  \* goroutines of handle(), at most so many at once
          MaxSockets

VARIABLES
    sessions, \* registered users
    sock,     \* s.conn: 0 is nil, n the n-th socket
    open,     \* the sockets that are open
    conn,     \* per user: session.conn
    reader,   \* per goroutine: "off", "top", "busy", or the socket it reads
    panicked  \* a reader used the nil socket

vars == <<sessions, sock, open, conn, reader, panicked>>

Sockets == 1..MaxSockets

TypeOK ==
    /\ sessions \subseteq Users
    /\ sock \in {0} \cup Sockets
    /\ open \subseteq Sockets
    /\ conn \in [Users -> {0} \cup Sockets]
    /\ reader \in [Readers -> [at: {"off", "top", "busy", "read"}, on: {0} \cup Sockets]]
    /\ panicked \in BOOLEAN

Idle == [at |-> "off", on |-> 0]
Top == [at |-> "top", on |-> 0]

Init ==
    /\ sessions = {} /\ sock = 0 /\ open = {}
    /\ conn = [u \in Users |-> 0]
    /\ reader = [r \in Readers |-> Idle]
    /\ panicked = FALSE

Fresh == CHOOSE n \in Sockets : n # sock /\ n \notin open /\ \A r \in Readers : reader[r].on # n

\* The first session opens a socket and starts a reader.
Listen(u) ==
    /\ sessions = {}
    /\ sock' = Fresh /\ open' = open \cup {Fresh}
    /\ \E r \in Readers :
         /\ reader[r].at = "off"
         /\ reader' = [reader EXCEPT ![r] = Top]
    /\ conn' = [conn EXCEPT ![u] = Fresh]
    /\ sessions' = {u}

\* The port is taken: s.conn becomes nil and the session is not registered.
ListenFails(u) ==
    /\ sessions = {}
    /\ sock' = 0
    /\ UNCHANGED <<sessions, open, conn, reader>>

\* Mutant: every session opens a socket of its own.
RegisterAnew(u) ==
    /\ sessions # {}
    /\ sock' = Fresh /\ open' = open \cup {Fresh}
    /\ conn' = [conn EXCEPT ![u] = Fresh]
    /\ sessions' = sessions \cup {u}
    /\ UNCHANGED reader

Register(u) ==
    /\ sessions # {}
    /\ conn' = [conn EXCEPT ![u] = sock]
    /\ sessions' = sessions \cup {u}
    /\ UNCHANGED <<sock, open, reader>>

AddSession(u) ==
    /\ Listen(u) \/ ListenFails(u) \/ Register(u)
    /\ UNCHANGED panicked

\* Mutant: the socket stays open.
DelSessionOnly(u) ==
    /\ sessions' = sessions \ {u}
    /\ UNCHANGED <<sock, open, conn, reader, panicked>>

\* Mutant: the socket closes with any session.
DelSessionAndSocket(u) ==
    /\ sessions' = sessions \ {u}
    /\ open' = open \ {sock}
    /\ UNCHANGED <<sock, conn, reader, panicked>>

\* A session may be removed twice; the socket closes when none is left.
DelSession(u) ==
    /\ sessions' = sessions \ {u}
    /\ open' = IF sessions' = {} THEN open \ {sock} ELSE open
    /\ UNCHANGED <<sock, conn, reader, panicked>>

\* The top of the loop: ReadFrom on whatever s.conn is now.
ReadFrom(r) ==
    /\ reader[r].at = "top"
    /\ IF sock = 0 THEN panicked' = TRUE /\ UNCHANGED reader
       ELSE /\ reader' = [reader EXCEPT ![r] = [at |-> "read", on |-> sock]]
            /\ UNCHANGED panicked
    /\ UNCHANGED <<sessions, sock, open, conn>>

\* A datagram came in; it is decrypted and passed on outside the lock.
Packet(r) ==
    /\ reader[r].at = "read" /\ reader[r].on \in open
    /\ reader' = [reader EXCEPT ![r] = [at |-> "busy", on |-> 0]]
    /\ UNCHANGED <<sessions, sock, open, conn, panicked>>

Handled(r) ==
    /\ reader[r].at = "busy"
    /\ reader' = [reader EXCEPT ![r] = Top]
    /\ UNCHANGED <<sessions, sock, open, conn, panicked>>

\* Mutant: the goroutine reads again after an error.
ReadsAgain(r) ==
    /\ reader[r].at = "read" /\ reader[r].on \notin open
    /\ reader' = [reader EXCEPT ![r] = Top]
    /\ UNCHANGED <<sessions, sock, open, conn, panicked>>

\* Reading a closed socket ends the goroutine.
Ended(r) ==
    /\ reader[r].at = "read" /\ reader[r].on \notin open
    /\ reader' = [reader EXCEPT ![r] = Idle]
    /\ UNCHANGED <<sessions, sock, open, conn, panicked>>

Next ==
    /\ ~panicked
    /\ \/ \E u \in Users : AddSession(u) \/ DelSession(u)
       \/ \E r \in Readers : ReadFrom(r) \/ Packet(r) \/ Handled(r) \/ Ended(r)

Fairness == \A r \in Readers : WF_vars(ReadFrom(r)) /\ WF_vars(Handled(r)) /\ WF_vars(Ended(r))

-----------------------------------------------------------------------------
\* A registered session is served: its own socket is the open one, and a reader
\* has it or comes back to it, whoever closed and opened sockets in between.
SessionsAreServed ==
    \A u \in sessions :
        /\ conn[u] = sock /\ sock \in open
        /\ \E r \in Readers : reader[r].at \in {"top", "busy"} \/ reader[r].on = sock

\* No socket outlives its sessions: one is open at most, and none without a session.
NoSocketLeak == open = IF sessions = {} THEN {} ELSE {sock}

\* Readers of a socket that was closed do not pile up.
ReadersEnd ==
    (sessions = {}) ~> (panicked \/ sessions # {} \/ \A r \in Readers : reader[r].at = "off")

\* What the module promises.  One socket with a reader while there are sessions, none without (pkg/srtp).
Promise == [](TypeOK /\ SessionsAreServed /\ NoSocketLeak) /\ ReadersEnd
=============================================================================
