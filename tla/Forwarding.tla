----------------------------- MODULE Forwarding -----------------------------
(***************************************************************************)
(* Messages between WebSocket sessions (internal/signaling/server.go):     *)
(* what a session's read loop does with the messages of its peer.          *)
(*                                                                         *)
(* A message is answered on the session's own Conn, forwarded to the       *)
(* session that the map of connections holds for msg.To, or neither.  The  *)
(* read loop itself writes: it looks the target up under s.mu, lets go of  *)
(* the lock, and writes to the Conn it found, with a deadline.  What is    *)
(* hard about it is what may happen in between and meanwhile: the target   *)
(* is replaced or ends, its peer does not read, somebody else writes to    *)
(* the same Conn: another read loop, the target's monitor with a ping, or  *)
(* a REST request (ClientConnect).  None of them takes a lock for it.      *)
(*                                                                         *)
(* Of the WebSocket library three things are modelled.  A Conn that could  *)
(* not write in time takes no more messages.  A second writer closes the   *)
(* writer of the first, whose message is cut short, unless the Conn        *)
(* notices it and panics, or nothing comes of it; the panic ends the       *)
(* session of the read loop it is raised in (or the REST request, or, in   *)
(* the monitor, the process: Signaling).  And a Conn goes back into a pool *)
(* when its session's handler returns, and may serve a later session,      *)
(* while those who looked it up still have it.                             *)
(*                                                                         *)
(* Pings and REST requests are not messages of log: of them, only what     *)
(* they do to the messages of others is modelled.                          *)
(*                                                                         *)
(* The life of a session is that of Signaling with larger steps.           *)
(***************************************************************************)
EXTENDS Naturals, Sequences

CONSTANTS
    Session,     \* the sessions that ever connect
    Id,          \* the peers' ids
    IdOf,        \* the id each session announces
    MaySend,     \* the messages the peer of each session may send
    Reply,       \* stands for all messages the server answers
    Ignored,     \* those of an unknown type or without a recipient
    NoSession,
    Quota,       \* how many messages each peer sends
    Cap          \* how many messages a socket holds for its peer

Message == Id \cup {Reply, Ignored}

ASSUME ForwardingAssumption ==
    /\ IdOf \in [Session -> Id]
    /\ MaySend \in [Session -> SUBSET Message]
    /\ NoSession \notin Session
    /\ Reply \notin Id /\ Ignored \notin Id
    /\ Quota \in [Session -> Nat]
    /\ Cap \in Nat

VARIABLES
    connections,  \* Server.connections: the session stored under an id
    at,           \* where each session's handler is
    conn,         \* the Conn of each session, named after its first user
    sent,         \* the messages each peer has sent
    taken,        \* how many of them the read loop has taken
    dest,         \* the Conn looked up, then the session written to
    log,          \* what has been written to each session, in order
    got,          \* how much of it the peer has read
    closed,       \* the sessions whose Conn the server has closed
    broken,       \* the sessions whose Conn has missed a write deadline
    raced         \* history: the sessions to which two read loops wrote at
                  \* once, or on whose Conn a write was cut short

vars == <<connections, at, conn, sent, taken, dest, log, got, closed,
          broken, raced>>

(* The handler: not yet called; about to read; with a message and the      *)
(* Conn to write it to; in the write; past the read loop; returned.        *)
HandlerState == {"new", "read", "send", "write", "forget", "gone"}

\* The n-th message of a session.
Entry == [from : Session, n : Nat]

TypeOK ==
    /\ connections \in [Id -> Session \cup {NoSession}]
    /\ at \in [Session -> HandlerState]
    /\ conn \in [Session -> Session]
    /\ sent \in [Session -> Seq(Message)]
    /\ taken \in [Session -> Nat]
    /\ dest \in [Session -> Session \cup {NoSession}]
    /\ log \in [Session -> Seq(Entry)]
    /\ got \in [Session -> Nat]
    /\ closed \in SUBSET Session
    /\ broken \in SUBSET Session
    /\ raced \in SUBSET Session

Init ==
    /\ connections = [i \in Id |-> NoSession]
    /\ at = [s \in Session |-> "new"]
    /\ conn = [s \in Session |-> s]
    /\ sent = [s \in Session |-> <<>>]
    /\ taken = [s \in Session |-> 0]
    /\ dest = [s \in Session |-> NoSession]
    /\ log = [s \in Session |-> <<>>]
    /\ got = [s \in Session |-> 0]
    /\ closed = {}
    /\ broken = {}
    /\ raced = {}

-----------------------------------------------------------------------------
(* Definitions that the actions share.                                     *)

Live(s) == at[s] \notin {"new", "gone"}

\* The session a Conn belongs to now; a pooled one belongs to nobody.
Holders(k) == {c \in Session : conn[c] = k /\ Live(c)}

\* The message a read loop is working on.
Current(s) == [from |-> s, n |-> taken[s]]

HasRoom(c) == Len(log[c]) - got[c] < Cap

\* A read loop other than that of s writes to c.
Collides(s, c) == \E u \in Session \ {s} : at[u] = "write" /\ dest[u] = c

\* The message is dealt with, whatever became of it.
Return(s) ==
    /\ at' = [at EXCEPT ![s] = "read"]
    /\ dest' = [dest EXCEPT ![s] = NoSession]

\* The handler panics; the deferred function closes the Conn.
Panic(s) ==
    /\ at' = [at EXCEPT ![s] = "forget"]
    /\ dest' = [dest EXCEPT ![s] = NoSession]
    /\ closed' = closed \cup {s}

-----------------------------------------------------------------------------
(* Mutated forms of the definitions below: each breaks a property on       *)
(* purpose, which shows that the property depends on the code.             *)

\* Closes the old session without looking whether there is one.
RegisterNoCheck(s) ==
    /\ at[s] = "new"
    /\ closed' = closed \cup {connections[IdOf[s]]}
    /\ connections' = [connections EXCEPT ![IdOf[s]] = s]
    /\ at' = [at EXCEPT ![s] = "read"]
    /\ UNCHANGED <<conn, sent, taken, dest, log, got, broken, raced>>

\* Answers, too, go to whoever is under the id.
TargetById(s, m) ==
    CASE m = Reply -> connections[IdOf[s]]
      [] m \in Id -> connections[m]
      [] OTHER     -> NoSession

\* Overtakes what the peer has not read yet.
WriteDoneUrgent(s) ==
    /\ at[s] = "write"
    /\ dest[s] \notin closed \cup broken
    /\ log' = [log EXCEPT ![dest[s]] =
                  SubSeq(@, 1, got[dest[s]]) \o <<Current(s)>>
                  \o SubSeq(@, got[dest[s]] + 1, Len(@))]
    /\ Return(s)
    /\ UNCHANGED <<connections, conn, sent, taken, got, closed, broken,
                   raced>>

\* Drops the message for a full socket and goes on with the next.
WriteTimesOutDrops(s) ==
    /\ at[s] = "write"
    /\ ~HasRoom(dest[s])
    /\ Return(s)
    /\ UNCHANGED <<connections, conn, sent, taken, log, got, closed, broken,
                   raced>>

\* No write deadline.
WriteTimesOutNever(s) == FALSE

-----------------------------------------------------------------------------
(* Sessions.                                                               *)

\* handleWebSocket up to the read loop: takes over the id, and a Conn of
\* its own or one that a session before it has left in the pool.
Register(s) ==
    /\ at[s] = "new"
    /\ \E k \in {s} \cup {conn[d] : d \in {e \in Session : at[e] = "gone"}} :
           /\ Holders(k) = {}
           /\ conn' = [conn EXCEPT ![s] = k]
    /\ closed' = closed \cup ({connections[IdOf[s]]} \ {NoSession})
    /\ connections' = [connections EXCEPT ![IdOf[s]] = s]
    /\ at' = [at EXCEPT ![s] = "read"]
    /\ UNCHANGED <<sent, taken, dest, log, got, broken, raced>>

\* The read fails: the Conn is closed, the peer has left or sent nonsense, or
\* nothing came for readWait.
EndReadLoop(s) ==
    /\ at[s] = "read"
    /\ at' = [at EXCEPT ![s] = "forget"]
    /\ closed' = closed \cup {s}
    /\ UNCHANGED <<connections, conn, sent, taken, dest, log, got, broken,
                   raced>>

\* The rest of the deferred function and the return: whoever is under the
\* id loses the entry, and the Conn goes into the pool.
Forget(s) ==
    /\ at[s] = "forget"
    /\ connections' = [connections EXCEPT ![IdOf[s]] = NoSession]
    /\ at' = [at EXCEPT ![s] = "gone"]
    /\ UNCHANGED <<conn, sent, taken, dest, log, got, closed, broken, raced>>

\* The cleanup loop finds that no ping has been answered for longer than
\* session_timeout, whose value nobody checks: with one below pingInterval it
\* takes peers in the best of health.  It leaves the Conn open.
Expire(s) ==
    /\ Live(s)
    /\ connections' = [connections EXCEPT ![IdOf[s]] = NoSession]
    /\ UNCHANGED <<at, conn, sent, taken, dest, log, got, closed, broken,
                   raced>>

-----------------------------------------------------------------------------
(* Messages.                                                               *)

\* An answer is for the session itself, a forward for whoever is under msg.To
\* at this moment, and the rest for nobody.
Target(s, m) ==
    CASE m = Reply -> s
      [] m \in Id -> connections[m]
      [] OTHER     -> NoSession

\* The read loop and handleMessage, up to the lookup.  A closed Conn may
\* still hand out messages that it had buffered.
ReadMessage(s) ==
    /\ at[s] = "read"
    /\ taken[s] < Len(sent[s])
    /\ taken' = [taken EXCEPT ![s] = @ + 1]
    /\ LET target == Target(s, sent[s][taken[s] + 1])
       IN  IF target = NoSession
           THEN UNCHANGED <<at, dest>>
           ELSE /\ at' = [at EXCEPT ![s] = "send"]
                /\ dest' = [dest EXCEPT ![s] = conn[target]]
    /\ UNCHANGED <<connections, conn, sent, log, got, closed, broken, raced>>

\* sendMessage begins to write to the session that has the Conn by now.
BeginWrite(s) ==
    /\ at[s] = "send"
    /\ \E c \in Holders(dest[s]) :
           /\ at' = [at EXCEPT ![s] = "write"]
           /\ dest' = [dest EXCEPT ![s] = c]
           /\ raced' = IF Collides(s, c) THEN raced \cup {c} ELSE raced
    /\ UNCHANGED <<connections, conn, sent, taken, log, got, closed, broken>>

\* The Conn is in the pool: it is empty, and using it panics.
WriteToPooled(s) ==
    /\ at[s] = "send"
    /\ Holders(dest[s]) = {}
    /\ Panic(s)
    /\ UNCHANGED <<connections, conn, sent, taken, log, got, broken, raced>>

\* The Conn notices that somebody else writes to it, be it a read loop, a
\* ping or a REST request.
WriteCollides(s) ==
    /\ at[s] = "write"
    /\ Panic(s)
    /\ UNCHANGED <<connections, conn, sent, taken, log, got, broken, raced>>

\* Another write begins, of whichever kind, and closes the writer of this
\* one: the peer gets a piece of the message at most, and the error for the
\* rest is only logged.
WriteCut(s) ==
    /\ at[s] = "write"
    /\ raced' = raced \cup {dest[s]}
    /\ Return(s)
    /\ UNCHANGED <<connections, conn, sent, taken, log, got, closed, broken>>

\* The message is in the socket's buffer.
WriteDone(s) ==
    /\ at[s] = "write"
    /\ dest[s] \notin closed \cup broken
    /\ HasRoom(dest[s])
    /\ log' = [log EXCEPT ![dest[s]] = Append(@, Current(s))]
    /\ Return(s)
    /\ UNCHANGED <<connections, conn, sent, taken, got, closed, broken,
                   raced>>

\* The Conn is closed, or takes no more after a missed deadline; the error
\* is logged, and that is all.
WriteFails(s) ==
    /\ at[s] = "write"
    /\ dest[s] \in closed \cup broken
    /\ Return(s)
    /\ UNCHANGED <<connections, conn, sent, taken, log, got, closed, broken,
                   raced>>

\* The peer has left no room for writeWait.
WriteTimesOut(s) ==
    /\ at[s] = "write"
    /\ dest[s] \notin closed \cup broken
    /\ ~HasRoom(dest[s])
    /\ broken' = broken \cup {dest[s]}
    /\ Return(s)
    /\ UNCHANGED <<connections, conn, sent, taken, log, got, closed, raced>>

\* A ping or a REST request misses its deadline instead.
PingTimesOut(c) ==
    /\ Live(c)
    /\ c \notin closed \cup broken
    /\ ~HasRoom(c)
    /\ broken' = broken \cup {c}
    /\ UNCHANGED <<connections, at, conn, sent, taken, dest, log, got, closed,
                   raced>>

-----------------------------------------------------------------------------
(* The peers.                                                              *)

PeerSends(s) ==
    /\ Live(s)
    /\ s \notin closed
    /\ Len(sent[s]) < Quota[s]
    /\ \E m \in MaySend[s] : sent' = [sent EXCEPT ![s] = Append(@, m)]
    /\ UNCHANGED <<connections, at, conn, taken, dest, log, got, closed,
                   broken, raced>>

PeerReads(s) ==
    /\ got[s] < Len(log[s])
    /\ got' = [got EXCEPT ![s] = @ + 1]
    /\ UNCHANGED <<connections, at, conn, sent, taken, dest, log, closed,
                   broken, raced>>

-----------------------------------------------------------------------------

\* What becomes of a message that is to be written, if nobody interferes.
Writing(s) ==
    \/ BeginWrite(s) \/ WriteToPooled(s)
    \/ WriteDone(s) \/ WriteFails(s) \/ WriteTimesOut(s)

Handler(s) ==
    \/ Register(s) \/ EndReadLoop(s) \/ Forget(s) \/ ReadMessage(s)
    \/ Writing(s) \/ WriteCollides(s) \/ WriteCut(s)

Next == \E s \in Session :
    Handler(s) \/ Expire(s) \/ PingTimesOut(s) \/ PeerSends(s)
    \/ PeerReads(s)

Spec == Init /\ [][Next]_vars

(* A write begins, and ends at its deadline if not before.  Nothing is     *)
(* assumed of the peers, none of which has to send or to read, nor of      *)
(* other writers, none of which has to interfere.                          *)
Fairness == \A s \in Session : WF_vars(Writing(s))

FairSpec == Spec /\ Fairness

-----------------------------------------------------------------------------
(* What forwarding promises.                                               *)

\* The messages of one session reach another in the order they were sent,
\* each at most once (handleMessage runs in the read loop; forwardMessage
\* and sendMessage return before the next message is read).
PerSenderOrder == \A c \in Session : \A i, j \in 1..Len(log[c]) :
    /\ i < j
    /\ log[c][i].from = log[c][j].from
    => log[c][i].n < log[c][j].n

\* What the message e is written to c for.
Addressed(e, c) ==
    LET m == sent[e.from][e.n]
    IN  m = IdOf[c] \/ (m = Reply /\ e.from = c)

\* A session whose Conn is new is forwarded only messages for its id and
\* gets only answers to its own requests, though targets are replaced between
\* the lookup and the write.  A Conn from the pool promises less: it gets what
\* others looked it up for before.
OnlyAddressed == \A c \in Session : conn[c] = c =>
    \A i \in 1..Len(log[c]) : Addressed(log[c][i], c)

\* The only session of its id that ever came, still in the map, and no two
\* writes to it got in each other's way.
Undisturbed(c) ==
    /\ at[c] \in {"read", "send", "write"}
    /\ connections[IdOf[c]] = c
    /\ c \notin closed \cup broken \cup raced
    /\ \A d \in Session \ {c} : IdOf[d] = IdOf[c] => at[d] = "new"

\* Of what is written to a session one message at a time nothing gets lost in
\* the middle: once a session without rivals has got a message of some
\* sender, it gets all later ones, except the one at which the sender's own
\* session ended (forwardMessage drops messages silently).
NoGaps == \A c, s \in Session : Undisturbed(c) =>
    \A i \in 1..Len(log[c]), m \in 1..taken[s] :
        /\ log[c][i].from = s
        /\ log[c][i].n < m
        /\ sent[s][m] = IdOf[c]
        => \/ \E j \in 1..Len(log[c]) : log[c][j] = [from |-> s, n |-> m]
           \/ m = taken[s] /\ at[s] # "read"

\* No peer that does not read can hold up another's read loop for ever, nor
\* can several whose sockets are full of each other's messages (sendMessage
\* sets a write deadline).
ReadLoopsGoOn == \A s \in Session :
    at[s] \in {"send", "write"} ~> at[s] \notin {"send", "write"}

=============================================================================
