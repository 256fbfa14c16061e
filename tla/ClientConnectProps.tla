------------------------ MODULE ClientConnectProps --------------------------
(***************************************************************************)
(* The properties of the REST rendezvous.                                  *)
(***************************************************************************)
EXTENDS ClientConnect

(* A response ends up only with a request for the client it is addressed   *)
(* to, and comes from the session that this request looked up: not from    *)
(* another client's channel, nor through a session that has been replaced  *)
(* or has replaced it, whatever the order of reconnects, retries and       *)
(* clean-ups.  It says nothing of which request the edge meant: a late     *)
(* response serves whichever request of the client hangs there.            *)
ResponseRouted ==
    \A r \in Request :
        result[r] = "ok" => got[r].from = sess[r] /\ got[r].to = ClientOf[r]

\* r has hung its channel up and has not yet come to close one.
WillCleanUp(r) == pcR[r] \in {"sending", "waiting", "leaving", "cleaning"}

\* A clean-up for k on e is between its close and its delete.
Deleting(e, k) ==
    \E q \in Request : /\ pcR[q] = "deleting" /\ mu = q
                       /\ sess[q] = e /\ ClientOf[q] = k

(* What the handler's unlocked lookup can find in ClientDataChans: the     *)
(* channel of a request of that client to that session which is open, and  *)
(* its request is still going to clean up, or which a clean-up has closed  *)
(* and, holding s.mu, is about to delete.  No other closed channel is ever *)
(* left there, and no open one that nobody will remove.                    *)
NoDanglingChannel ==
    \A e \in Session, k \in Client, r \in Request :
        chans[e][k] = r =>
            /\ sess[r] = e /\ ClientOf[r] = k
            /\ IF r \in chClosed THEN Deleting(e, k) ELSE WillCleanUp(r)

(* A request that shared its client id on its session with no other one    *)
(* keeps its own open channel until it closes it itself, receives no nil,  *)
(* closes no nil, and gives s.mu back, though the session may be replaced  *)
(* and another request of the client may run on its successor.  That its   *)
(* write to the edge does not panic is not claimed ("sendPanicked").       *)
SoleRequestSafe ==
    \A r \in Request \ overlapped :
        /\ result[r] # "panic"
        /\ pcR[r] # "wedged"
        /\ WillCleanUp(r) => Found(r) = r /\ r \notin chClosed

-----------------------------------------------------------------------------
(* The inductive invariant behind the three.  s.mu belongs to the request  *)
(* that is in a critical section; a request has a session and a channel    *)
(* once it has started to send; requests that share a client id on a       *)
(* session are in overlapped; a request that is deleting has closed what   *)
(* is stored; and what is on its way to a channel comes from the session   *)
(* of the request that made it and is for its client.                      *)
Sent(r) == pcR[r] \notin {"idle", "locked"}

Active(r) == pcR[r] \in {"sending", "waiting", "leaving", "cleaning", "deleting"}

LockHeld ==
    \A r \in Request :
        pcR[r] \in {"locked", "cleaning", "deleting", "wedged"} => mu = r

ActiveHasSession == \A r \in Request : Active(r) => sess[r] \in Session

ClosedWasSent == \A r \in chClosed : Sent(r)

DeletesClosed ==
    \A r \in Request : pcR[r] = "deleting" => Found(r) \in chClosed

SoleIsAlone ==
    \A r \in Request \ overlapped : \A q \in Request \ {r} :
        Active(r) /\ Active(q) /\ sess[q] = sess[r] => ClientOf[q] # ClientOf[r]

\* m comes from e and is for the client of r.
Answers(m, r, e) == m = [from |-> e, to |-> ClientOf[r]]

TargetsRouted ==
    \A e \in Session : pcE[e] = "sending" =>
        /\ tgt[e] \in Request
        /\ Sent(tgt[e]) /\ sess[tgt[e]] = e
        /\ Answers(msg[e], tgt[e], e)

BuffersRouted ==
    \A r \in Request : buf[r] # None =>
        Sent(r) /\ sess[r] \in Session /\ Answers(buf[r], r, sess[r])

ResultsRouted ==
    \A r \in Request : result[r] = "ok" =>
        Sent(r) /\ sess[r] \in Session /\ Answers(got[r], r, sess[r])

ConnectInv ==
    /\ TypeOK
    /\ LockHeld
    /\ ActiveHasSession
    /\ ClosedWasSent
    /\ DeletesClosed
    /\ NoDanglingChannel
    /\ SoleIsAlone
    /\ SoleRequestSafe
    /\ TargetsRouted
    /\ BuffersRouted
    /\ ResultsRouted

-----------------------------------------------------------------------------
Crashed == stop = "crashed"

\* A clean-up has panicked with s.mu locked; only requests that overlap do
\* (SoleRequestSafe).
Wedged == \E r \in Request : pcR[r] = "wedged"

\* Every request that has taken s.mu is answered and has cleaned up, even if
\* the edge never responds and whichever exit its handler takes, as long as
\* no two requests of one client have wedged the server.
EveryRequestReturns ==
    \A r \in Request : pcR[r] = "locked" ~> (pcR[r] = "done" \/ Crashed \/ Wedged)

\* A stop that has been requested waits for the requests in flight and is
\* carried out, with the same exception.
ShutdownCompletes == stop = "stopping" ~> (stop = "down" \/ Crashed \/ Wedged)

\* "`SIGINT`/`SIGTERM` - Graceful shutdown" (README.md:292): a stop that has
\* been requested is carried out, with no exception but a crash.
ShutdownIsGraceful == stop = "stopping" ~> (stop = "down" \/ Crashed)

-----------------------------------------------------------------------------
(* The rendezvous as its clients see it.                                   *)

Phase == [e \in Session |-> CASE pcE[e] = "offline"             -> "new"
                              [] pcE[e] \in {"gone", "crashed"} -> "gone"
                              [] OTHER                           -> "live"]

Directory == INSTANCE PeerDirectory
             WITH dir <- online, phase <- Phase, NoSession <- None

\* Requests look their edges up in a directory of peers, while edges come and
\* go and until the process dies: the map gives them an edge in service.
OnlineIsDirectory == Directory!Spec

Outcome == [r \in Request |-> CASE result[r] = "none" -> "open"
                                [] result[r] = "ok"   -> "answered"
                                [] OTHER              -> "failed"]

\* The result of a handler that panics in the end replaces what it has got.
AnswerGot == [r \in Request |-> IF result[r] = "ok" THEN got[r] ELSE None]

Abstract == INSTANCE Rendezvous
            WITH dir <- online, phase <- Phase, NoSession <- None,
                 asked <- sess, outcome <- Outcome, answer <- AnswerGot

\* Channels, the lock, the deferred clean-up and a process that dies of a race
\* add up to the rendezvous that REST clients are promised, over a directory
\* of peers.
IsRendezvous == Abstract!Spec

=============================================================================
