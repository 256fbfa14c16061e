-------------------------- MODULE SignalingProps ----------------------------
(***************************************************************************)
(* The properties of the session life cycle.                               *)
(***************************************************************************)
EXTENDS Signaling

(* Neither map ever points to a session that is not there to serve it:     *)
(* whatever order supersession, clean-up by id and reaping take, a session *)
(* found in connections has a handler between Register and the end of its  *)
(* deferred function, and a Peer in the registry belongs to a handler that *)
(* has not yet removed it (forwardMessage, handleListPeers).               *)
NoDanglingConnection ==
    \A i \in Id : \A c \in Session :
        connections[i] = c => /\ IdOf[c] = i
                              /\ pc[c] \in {"reading", "closed", "removed"}

NoDanglingPeer ==
    \A i \in Id : \A c \in Session :
        peers[i] = c => /\ IdOf[c] = i
                        /\ pc[c] \in {"added", "reading", "closed"}

NoDanglingEntry == NoDanglingConnection /\ NoDanglingPeer

(* A session that shared its id with no other running session, while no    *)
(* reaping of that id is under way, is listed by the API as long as        *)
(* messages are forwarded to it; and unless something has cancelled it, it *)
(* is in both maps.  (The converse of the first part does not hold: a late *)
(* reaping leaves a session listed that nothing can be forwarded to.)      *)
SoleSessionReachable ==
    \A c \in Session :
        /\ pc[c] \in {"reading", "closed"}
        /\ c \notin overlapped
        /\ IdOf[c] \notin reaping
        => /\ connections[IdOf[c]] = c => peers[IdOf[c]] = c
           /\ c \notin cancelled => connections[IdOf[c]] = c

(* The API lists no Peer whose Connected flag has been cleared by          *)
(* RemovePeer or CleanupStale.                                             *)
ListedAreConnected == GetAllPeers \subseteq connected

(* The inductive invariant behind the two.  A session outside overlapped   *)
(* has no rivals now; ids are being reaped only between the two halves of  *)
(* a tick; a record can only be out of date once s.mu has been taken; and  *)
(* until then it is still the one in the registry.                         *)
AloneHasNoRivals ==
    \A c \in Session : Running(c) /\ c \notin overlapped => Rivals(c) = {}

ReapingInTick == reaper # "removing" => reaping = {}

StaleAfterRegister == \A c \in stale : pc[c] \notin {"idle", "added"}

AddedIsListed ==
    \A c \in Session :
        pc[c] = "added" /\ c \notin overlapped => peers[IdOf[c]] = c

ClosedIsCancelled ==
    \A c \in Session : pc[c] = "closed" => c \in cancelled

SoleUncancelledStored ==
    \A c \in Session :
        pc[c] = "reading" /\ c \notin overlapped \cup cancelled
            => connections[IdOf[c]] = c

SoleStoredIsListed ==
    \A c \in Session :
        /\ pc[c] \in {"reading", "closed"}
        /\ c \notin overlapped
        /\ IdOf[c] \notin reaping
        /\ connections[IdOf[c]] = c
        => peers[IdOf[c]] = c

IInv ==
    /\ TypeOK
    /\ NoDanglingEntry
    /\ ListedAreConnected
    /\ AloneHasNoRivals
    /\ ReapingInTick
    /\ StaleAfterRegister
    /\ AddedIsListed
    /\ ClosedIsCancelled
    /\ SoleUncancelledStored
    /\ SoleStoredIsListed

-----------------------------------------------------------------------------
\* A session whose remote end is gone leaves both maps, though no close
\* frame ever arrives.
DeadPeerForgotten ==
    \A c \in Session :
        c \in dead ~> (connections[IdOf[c]] # c /\ peers[IdOf[c]] # c)

\* Once a connection is closed both its goroutines end: neither the
\* handler nor the monitor leaks.
GoroutinesEnd ==
    \A c \in Session : c \in closed ~> (pc[c] = "done" /\ mon[c] = "done")

\* An out-of-date record does not stay in the registry while the server is
\* up: it is refreshed, replaced or removed.
StaleRecordRemoved ==
    \A c \in Session :
        (c \in stale /\ peers[IdOf[c]] = c) ~>
            (c \notin stale \/ peers[IdOf[c]] # c \/ stop # "up")

-----------------------------------------------------------------------------
(* Both maps are peer directories.                                         *)

PeersPhase == [c \in Session |->
                 IF pc[c] = "idle" THEN "new"
                 ELSE IF pc[c] \in {"removed", "done"} THEN "gone" ELSE "live"]

ConnectionsPhase == [c \in Session |->
                 IF pc[c] \in {"idle", "added"} THEN "new"
                 ELSE IF pc[c] = "done" THEN "gone" ELSE "live"]

RegistryDir == INSTANCE PeerDirectory WITH dir <- peers, phase <- PeersPhase
ConnDir == INSTANCE PeerDirectory
             WITH dir <- connections, phase <- ConnectionsPhase

\* The registry's map keeps the promises of PeerDirectory.
RegistryIsDirectory == RegistryDir!Spec

\* So does the map of connections.
ConnectionsAreDirectory == ConnDir!Spec

-----------------------------------------------------------------------------
(* What comments and tests say of the code, and the code does not do.      *)

\* A session nobody has closed or cancelled is the one stored under its id,
\* also when the session it replaced has cleaned up after itself
\* (TestDuplicateConnectionHandling: "Verify new connection is active").
NewConnectionActive ==
    \A c \in Session :
        pc[c] = "reading" /\ c \notin closed \cup cancelled
            => connections[IdOf[c]] = c

=============================================================================
