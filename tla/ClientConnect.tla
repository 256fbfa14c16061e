--------------------------- MODULE ClientConnect ----------------------------
(***************************************************************************)
(* The rendezvous behind POST /signaling/client/connect.  A REST request   *)
(* looks its edge up under s.mu, hangs a fresh channel into the edge       *)
(* session's ClientDataChans under the client's id, sends the edge an      *)
(* api-connect-request and waits.  The edge's WebSocket handler puts an    *)
(* api-connect-response into the channel it finds under the client id that *)
(* the response names, whatever the edge was asked.  The request's         *)
(* deferred function closes and deletes what it finds there under s.mu.    *)
(*                                                                         *)
(* ClientDataChans is written under s.mu and read by the handler without   *)
(* it.  A channel is named by the request that made it, as every request   *)
(* makes at most one.  Sessions are registered and removed in one step     *)
(* here; Signaling has the detail.  A session's Conn goes back to the      *)
(* library's pool when its handler returns, and may serve another session  *)
(* while a request still holds it; Forwarding has more about that.         *)
(***************************************************************************)
CONSTANTS
    Request,    \* the REST requests
    Client,     \* the client ids in their bodies
    ClientOf,   \* the client id of each request
    EdgeIdOf,   \* the edge id each request asks for
    Session,    \* the WebSocket sessions
    Edge,       \* those of type "edge", which have ClientDataChans
    Id,         \* the ids of sessions
    IdOf,       \* the id of each session
    None        \* no session, no channel, no message, nobody

ASSUME ConnectAssumption ==
    /\ ClientOf \in [Request -> Client]
    /\ EdgeIdOf \in [Request -> Id]
    /\ Edge \subseteq Session
    /\ IdOf \in [Session -> Id]
    /\ None \notin Session \cup Request

VARIABLES
    mu,         \* s.mu: the request that holds it across steps, or None
    online,     \* Server.connections
    chans,      \* ClientDataChans of each session: the channel of a client
    buf,        \* the message in each channel, which has room for one
    chClosed,   \* the channels that were closed
    pcR,        \* where each request's handler is
    sess,       \* edgeConn: the session each request found
    result,     \* how each request was answered
    got,        \* the message each request received
    pcE,        \* where each session's handler is
    inbox,      \* the requests that were written to each session
    msg,        \* the response the session's handler is processing
    tgt,        \* the channel it found for it
    stop,       \* how far Stop has come
    overlapped  \* history: requests that shared a client id on a session

requestVars == <<pcR, sess, result, got>>
chanVars == <<chans, buf, chClosed>>
edgeVars == <<pcE, inbox, msg, tgt>>
vars == <<mu, online, chanVars, requestVars, edgeVars, stop, overlapped>>

\* A response comes from a session and names the client it is for.
Message == [from : Session, to : Client]

(* A request's handler: not yet called; in its first critical section;     *)
(* about to write to the edge; in the select; past the return statement;   *)
(* in its second critical section, before the close and before the delete; *)
(* returned; panicked in that section.  "crashed" is for everything that   *)
(* was running when the process died.                                      *)
RequestState == {"idle", "locked", "sending", "waiting", "leaving",
                 "cleaning", "deleting", "done", "wedged", "crashed"}

TypeOK ==
    /\ mu \in Request \cup {None}
    /\ online \in [Id -> Session \cup {None}]
    /\ chans \in [Session -> [Client -> Request \cup {None}]]
    /\ buf \in [Request -> Message \cup {None}]
    /\ chClosed \in SUBSET Request
    /\ pcR \in [Request -> RequestState]
    /\ sess \in [Request -> Session \cup {None}]
    /\ result \in [Request -> {"none", "notOnline", "notEdge", "sendFailed",
                               "sendPanicked", "ok", "timeout", "panic"}]
    /\ got \in [Request -> Message \cup {None}]
    /\ pcE \in [Session -> {"offline", "reading", "sending", "leaving",
                            "gone", "crashed"}]
    /\ inbox \in [Session -> SUBSET Request]
    /\ msg \in [Session -> Message \cup {None}]
    /\ tgt \in [Session -> Request \cup {None}]
    /\ stop \in {"up", "stopping", "down", "crashed"}
    /\ overlapped \in SUBSET Request

Init ==
    /\ mu = None
    /\ online = [i \in Id |-> None]
    /\ chans = [e \in Session |-> [k \in Client |-> None]]
    /\ buf = [r \in Request |-> None]
    /\ chClosed = {}
    /\ pcR = [r \in Request |-> "idle"]
    /\ sess = [r \in Request |-> None]
    /\ result = [r \in Request |-> "none"]
    /\ got = [r \in Request |-> None]
    /\ pcE = [e \in Session |-> "offline"]
    /\ inbox = [e \in Session |-> {}]
    /\ msg = [e \in Session |-> None]
    /\ tgt = [e \in Session |-> None]
    /\ stop = "up"
    /\ overlapped = {}

\* The channel stored for r's client on the session r found.
Found(r) == chans[sess[r]][ClientOf[r]]

\* The requests for r's client that are between setup and clean-up on e.
InFlight(r, e) ==
    {q \in Request \ {r} : /\ ClientOf[q] = ClientOf[r]
                           /\ sess[q] = e
                           /\ pcR[q] \in {"sending", "waiting", "leaving"}}

\* The handler returns: a result for the HTTP client, then the deferred
\* function.
Leave(r, res) ==
    /\ pcR' = [pcR EXCEPT ![r] = "leaving"]
    /\ result' = [result EXCEPT ![r] = res]
    /\ UNCHANGED <<mu, online, chanVars, sess, edgeVars, stop, overlapped>>

-----------------------------------------------------------------------------
(* Mutated forms of the definitions below: each breaks a property on       *)
(* purpose, which shows that the property depends on the code.             *)

\* Returns without unlocking s.mu.
RefuseNoUnlock(r, res) ==
    /\ pcR' = [pcR EXCEPT ![r] = "done"]
    /\ result' = [result EXCEPT ![r] = res]
    /\ UNCHANGED <<mu, online, chanVars, sess, got, edgeVars, stop, overlapped>>

\* Waits for the edge without a timeout.
ReqTimeoutNever(r) == FALSE /\ Leave(r, "timeout")

\* Leaves the closed channel in the map.
ReqDeleteNothing(r) ==
    /\ pcR[r] = "deleting"
    /\ mu' = None
    /\ pcR' = [pcR EXCEPT ![r] = "done"]
    /\ UNCHANGED <<online, chanVars, sess, result, got, edgeVars, stop,
                   overlapped>>

\* Looks for the channel on the session that now has the sender's id.
WaitingChannelByConn(e, k) ==
    IF online[IdOf[e]] = None THEN None ELSE chans[online[IdOf[e]]][k]

\* The key in place of the channel.
WaitingChannelKey(e, k) == IF chans[e][k] = None THEN None ELSE k

\* Cleans up on the session that now has the edge's id.
ReqCloseByConn(r) ==
    LET e == online[EdgeIdOf[r]]
        c == IF e = None THEN None ELSE chans[e][ClientOf[r]] IN
    /\ pcR[r] = "cleaning"
    /\ c # None
    /\ chClosed' = chClosed \cup {c}
    /\ pcR' = [pcR EXCEPT ![r] = "deleting"]
    /\ UNCHANGED <<mu, online, chans, buf, sess, result, got, edgeVars, stop,
                   overlapped>>

\* A session that reconnects takes over the channels of the one it
\* replaces.
EdgeConnectMoveChans(e) ==
    LET old == online[IdOf[e]] IN
    /\ pcE[e] = "offline"
    /\ mu = None
    /\ online' = [online EXCEPT ![IdOf[e]] = e]
    /\ chans' = IF old = None THEN chans
                ELSE [chans EXCEPT ![e] = chans[old],
                                   ![old] = [k \in Client |-> None]]
    /\ pcE' = [pcE EXCEPT ![e] = "reading"]
    /\ UNCHANGED <<mu, buf, chClosed, requestVars, inbox, msg, tgt, stop,
                   overlapped>>

-----------------------------------------------------------------------------
(* handleClientConnect.                                                    *)

\* The body has been parsed and its fields are there; s.mu is taken.  The
\* router calls no handler once it is being shut down.
ReqLock(r) ==
    /\ pcR[r] = "idle"
    /\ stop = "up"
    /\ mu = None
    /\ mu' = r
    /\ pcR' = [pcR EXCEPT ![r] = "locked"]
    /\ UNCHANGED <<online, chanVars, sess, result, got, edgeVars, stop,
                   overlapped>>

Refuse(r, res) ==
    /\ mu' = None
    /\ pcR' = [pcR EXCEPT ![r] = "done"]
    /\ result' = [result EXCEPT ![r] = res]
    /\ UNCHANGED <<online, chanVars, sess, got, edgeVars, stop, overlapped>>

\* Nobody is online under the id, or a session of type "client" is.
ReqRefused(r) ==
    /\ pcR[r] = "locked"
    /\ online[EdgeIdOf[r]] \notin Edge
    /\ Refuse(r, IF online[EdgeIdOf[r]] = None THEN "notOnline" ELSE "notEdge")

\* The new channel replaces whatever is stored for the client.
ReqSetup(r) ==
    LET e == online[EdgeIdOf[r]] IN
    /\ pcR[r] = "locked"
    /\ e \in Edge
    /\ sess' = [sess EXCEPT ![r] = e]
    /\ chans' = [chans EXCEPT ![e][ClientOf[r]] = r]
    /\ overlapped' = IF InFlight(r, e) = {} THEN overlapped
                     ELSE overlapped \cup InFlight(r, e) \cup {r}
    /\ mu' = None
    /\ pcR' = [pcR EXCEPT ![r] = "sending"]
    /\ UNCHANGED <<online, buf, chClosed, result, got, edgeVars, stop>>

\* The sessions whose socket the Conn that r has looked up now writes to.
\* Once its own handler has returned that is any other one's, or nobody's.
Reaches(r) ==
    IF pcE[sess[r]] # "gone" THEN {sess[r]}
    ELSE {e \in Session \ {sess[r]} : pcE[e] # "gone"}

\* The write succeeds; whether it arrives is up to the network.
ReqSend(r) ==
    /\ pcR[r] = "sending"
    /\ \E e \in Reaches(r) : inbox' = [inbox EXCEPT ![e] = @ \cup {r}]
    /\ pcR' = [pcR EXCEPT ![r] = "waiting"]
    /\ UNCHANGED <<mu, online, chanVars, sess, result, got, pcE, msg, tgt,
                   stop, overlapped>>

ReqSendFails(r) ==
    /\ pcR[r] = "sending"
    /\ Leave(r, "sendFailed")
    /\ UNCHANGED got

\* The write panics: the Conn is in the pool, or somebody else (the read
\* loop of a session that forwards to this one, its monitor's ping, another
\* request) is writing to it.  The deferred function runs all the same, and
\* the router's recover middleware answers.
ReqSendPanics(r) ==
    /\ pcR[r] = "sending"
    /\ Leave(r, "sendPanicked")
    /\ UNCHANGED got

ReqReceive(r) ==
    /\ pcR[r] = "waiting"
    /\ buf[r] # None
    /\ got' = [got EXCEPT ![r] = buf[r]]
    /\ pcR' = [pcR EXCEPT ![r] = "leaving"]
    /\ result' = [result EXCEPT ![r] = "ok"]
    /\ buf' = [buf EXCEPT ![r] = None]
    /\ UNCHANGED <<mu, online, chans, chClosed, sess, edgeVars, stop,
                   overlapped>>

\* A receive from a closed channel yields nil, and msg.Data panics.
ReqReceivesNil(r) ==
    /\ pcR[r] = "waiting"
    /\ buf[r] = None /\ r \in chClosed
    /\ Leave(r, "panic")
    /\ UNCHANGED got

\* Ten seconds pass.
ReqTimeout(r) ==
    /\ pcR[r] = "waiting"
    /\ Leave(r, "timeout")
    /\ UNCHANGED got

\* The deferred function takes s.mu ...
ReqLockCleanup(r) ==
    /\ pcR[r] = "leaving"
    /\ mu = None
    /\ mu' = r
    /\ pcR' = [pcR EXCEPT ![r] = "cleaning"]
    /\ UNCHANGED <<online, chanVars, sess, result, got, edgeVars, stop,
                   overlapped>>

\* ... closes the channel stored for the client ...
ReqClose(r) ==
    /\ pcR[r] = "cleaning"
    /\ Found(r) \notin chClosed \cup {None}
    /\ chClosed' = chClosed \cup {Found(r)}
    /\ pcR' = [pcR EXCEPT ![r] = "deleting"]
    /\ UNCHANGED <<mu, online, chans, buf, sess, result, got, edgeVars, stop,
                   overlapped>>

\* ... and deletes it.
ReqDelete(r) ==
    /\ pcR[r] = "deleting"
    /\ chans' = [chans EXCEPT ![sess[r]][ClientOf[r]] = None]
    /\ mu' = None
    /\ pcR' = [pcR EXCEPT ![r] = "done"]
    /\ UNCHANGED <<online, buf, chClosed, sess, result, got, edgeVars, stop,
                   overlapped>>

\* If none is stored, close(nil) panics, as would a second close; the unlock
\* that follows is never reached.  The recover middleware answers here too.
ReqClosePanics(r) ==
    /\ pcR[r] = "cleaning"
    /\ Found(r) \in chClosed \cup {None}
    /\ pcR' = [pcR EXCEPT ![r] = "wedged"]
    /\ result' = [result EXCEPT ![r] = "panic"]
    /\ UNCHANGED <<mu, online, chanVars, sess, got, edgeVars, stop, overlapped>>

-----------------------------------------------------------------------------
(* The WebSocket side.                                                     *)

\* A session registers and replaces the one with its id, which notices
\* later (Leaving).
EdgeConnect(e) ==
    /\ pcE[e] = "offline"
    /\ mu = None
    /\ online' = [online EXCEPT ![IdOf[e]] = e]
    /\ pcE' = [pcE EXCEPT ![e] = "reading"]
    /\ UNCHANGED <<mu, chanVars, requestVars, inbox, msg, tgt, stop, overlapped>>

WaitingChannel(e, k) == chans[e][k]

\* handleAPIConnectResponse, up to the lookup, which takes no lock.  A session
\* may send a response for any client at any time: late, twice, unasked, or
\* after a reconnect to what its predecessor was asked.
EdgeResponse(e, k) ==
    /\ pcE[e] = "reading"
    /\ IF WaitingChannel(e, k) = None
         THEN UNCHANGED <<pcE, msg, tgt>>
         ELSE /\ pcE' = [pcE EXCEPT ![e] = "sending"]
              /\ msg' = [msg EXCEPT ![e] = [from |-> e, to |-> k]]
              /\ tgt' = [tgt EXCEPT ![e] = WaitingChannel(e, k)]
    /\ UNCHANGED <<mu, online, chanVars, requestVars, inbox, stop, overlapped>>

\* The requests that hold s.mu and are about to write e's ClientDataChans.
Writers(e) ==
    {r \in Request : \/ pcR[r] = "locked" /\ online[EdgeIdOf[r]] = e /\ e \in Edge
                     \/ pcR[r] = "deleting" /\ sess[r] = e}

\* The process ends, and all memory with it.
Dies ==
    /\ pcR' = [r \in Request |-> "crashed"]
    /\ pcE' = [s \in Session |-> "crashed"]
    /\ stop' = "crashed"
    /\ mu' = None
    /\ online' = [i \in Id |-> None]
    /\ chans' = [s \in Session |-> [k \in Client |-> None]]
    /\ buf' = [r \in Request |-> None]
    /\ chClosed' = {}
    /\ msg' = [s \in Session |-> None]
    /\ tgt' = [s \in Session |-> None]
    /\ UNCHANGED <<sess, result, got, inbox, overlapped>>

\* The lookup races with the write of a request that holds s.mu: the
\* runtime may detect it and end the process.
EdgeResponseRaces(e) ==
    /\ pcE[e] = "reading"
    /\ Writers(e) # {}
    /\ Dies

\* The ping of e's monitor meets the write of a request to e and panics,
\* where nothing recovers.
PingPanics(e) ==
    /\ \E r \in Request : pcR[r] = "sending" /\ e \in Reaches(r)
    /\ pcE[e] # "offline"
    /\ Dies

EdgeBackToReading(e) ==
    /\ pcE' = [pcE EXCEPT ![e] = "reading"]
    /\ msg' = [msg EXCEPT ![e] = None]
    /\ tgt' = [tgt EXCEPT ![e] = None]
    /\ UNCHANGED <<mu, online, chans, chClosed, requestVars, inbox, stop,
                   overlapped>>

EdgeDeliver(e) ==
    /\ pcE[e] = "sending"
    /\ tgt[e] \notin chClosed
    /\ buf[tgt[e]] = None
    /\ buf' = [buf EXCEPT ![tgt[e]] = msg[e]]
    /\ EdgeBackToReading(e)

\* channelSendTimeout passes while the channel is full.
EdgeSendTimeout(e) ==
    /\ pcE[e] = "sending"
    /\ tgt[e] \notin chClosed
    /\ buf[tgt[e]] # None
    /\ EdgeBackToReading(e)
    /\ UNCHANGED buf

\* A send on a closed channel panics: it was closed since the lookup, or
\* before it and not yet deleted.  The panic ends the handler; the deferred
\* function runs all the same.
EdgeSendPanics(e) ==
    /\ pcE[e] = "sending"
    /\ tgt[e] \in chClosed
    /\ pcE' = [pcE EXCEPT ![e] = "leaving"]
    /\ msg' = [msg EXCEPT ![e] = None]
    /\ tgt' = [tgt EXCEPT ![e] = None]
    /\ UNCHANGED <<mu, online, chanVars, requestVars, inbox, stop, overlapped>>

\* The connection breaks or is closed, by whichever side.
EdgeDrop(e) ==
    /\ pcE[e] = "reading"
    /\ pcE' = [pcE EXCEPT ![e] = "leaving"]
    /\ UNCHANGED <<mu, online, chanVars, requestVars, inbox, msg, tgt, stop,
                   overlapped>>

\* The deferred function deletes the entry of the session's id.
EdgeCleanup(e) ==
    /\ pcE[e] = "leaving"
    /\ mu = None
    /\ online' = [online EXCEPT ![IdOf[e]] = None]
    /\ pcE' = [pcE EXCEPT ![e] = "gone"]
    /\ UNCHANGED <<mu, chanVars, requestVars, inbox, msg, tgt, stop, overlapped>>

\* The cleanup loop takes a stale session out of the map.
Reap(i) ==
    /\ online[i] # None
    /\ mu = None
    /\ online' = [online EXCEPT ![i] = None]
    /\ UNCHANGED <<mu, chanVars, requestVars, edgeVars, stop, overlapped>>

-----------------------------------------------------------------------------
(* Shutdown: apiServer.Stop waits until every handler it called has        *)
(* returned; signaling.Stop, deferred before it, then needs s.mu to close  *)
(* the connections.                                                        *)

StopRequested ==
    /\ stop = "up"
    /\ stop' = "stopping"
    /\ UNCHANGED <<mu, online, chanVars, requestVars, edgeVars, overlapped>>

\* A handler that panicked has returned, with s.mu still locked.
HandlersReturned == \A r \in Request : pcR[r] \in {"idle", "done", "wedged"}

StopCloses ==
    /\ stop = "stopping"
    /\ HandlersReturned
    /\ mu = None
    /\ stop' = "down"
    /\ UNCHANGED <<mu, online, chanVars, requestVars, edgeVars, overlapped>>

RequestStep(r) ==
    \/ ReqLock(r)
    \/ ReqRefused(r)
    \/ ReqSetup(r)
    \/ ReqSend(r)
    \/ ReqSendFails(r)
    \/ ReqSendPanics(r)
    \/ ReqReceive(r)
    \/ ReqReceivesNil(r)
    \/ ReqTimeout(r)
    \/ ReqLockCleanup(r)
    \/ ReqClose(r)
    \/ ReqClosePanics(r)
    \/ ReqDelete(r)

SessionStep(e) ==
    \/ EdgeConnect(e)
    \/ \E k \in Client : EdgeResponse(e, k)
    \/ EdgeResponseRaces(e)
    \/ PingPanics(e)
    \/ EdgeDeliver(e)
    \/ EdgeSendTimeout(e)
    \/ EdgeSendPanics(e)
    \/ EdgeDrop(e)
    \/ EdgeCleanup(e)

Next ==
    \/ \E r \in Request : RequestStep(r)
    \/ \E e \in Session : SessionStep(e)
    \/ \E i \in Id : Reap(i)
    \/ StopRequested
    \/ StopCloses

Spec == Init /\ [][Next]_vars

\* What a running handler does without waiting for s.mu; the select in it
\* ends by its timer if not before.
GoesOn(r) ==
    \/ ReqRefused(r) \/ ReqSetup(r)
    \/ ReqSend(r) \/ ReqSendFails(r) \/ ReqSendPanics(r)
    \/ ReqReceive(r) \/ ReqReceivesNil(r) \/ ReqTimeout(r)
    \/ ReqClose(r) \/ ReqClosePanics(r) \/ ReqDelete(r)

(* A running handler goes on, and who waits for s.mu gets it once it stays *)
(* free; as each request takes it twice, weak fairness is enough.  No      *)
(* fairness of the sessions, of a handler being called, or of a stop being *)
(* requested.                                                              *)
Fairness ==
    /\ \A r \in Request : WF_vars(GoesOn(r)) /\ WF_vars(ReqLockCleanup(r))
    /\ WF_vars(StopCloses)

FairSpec == Spec /\ Fairness

=============================================================================
