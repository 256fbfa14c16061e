----------------------------- MODULE Signaling ------------------------------
(***************************************************************************)
(* The session life cycle of the signaling server (internal/signaling).    *)
(*                                                                         *)
(* Every WebSocket session c runs three kinds of goroutines' steps:        *)
(*   - its handler (handleWebSocket): add the Peer to the registry, take   *)
(*     s.mu and take over the id, read until an error, clean up;           *)
(*   - its monitor (monitorConnection): ping until cancelled or the ping   *)
(*     cannot be written;                                                  *)
(*   - and it is a victim of the cleanup loop (cleanupLoop), of a newer    *)
(*     session with its id, and of Stop.                                   *)
(* A step here is one critical section or one call between two of them:    *)
(* the registry has its own lock, s.mu another, and nothing holds both, so *)
(* the two maps move apart at every point where one lock is released and   *)
(* the other not yet taken.                                                *)
(*                                                                         *)
(* Both maps are keyed by the id the peer chose, and every removal is by   *)
(* id: a session can remove the entry of another one.                      *)
(***************************************************************************)
EXTENDS Registry

VARIABLES
    connections,  \* Server.connections: the session stored under an id
    pc,           \* where each session's handler is
    cancelled,    \* the sessions on whose PeerConnection Cancel was called
    closed,       \* the sessions whose Conn the server has closed
    dead,         \* the sessions whose remote end is gone or silent
    mon,          \* each session's monitorConnection goroutine
    reaper,       \* the cleanupLoop goroutine
    reaping,      \* the ids CleanupStale returned, while s.mu is awaited
    stop,         \* how far Stop has come
    overlapped    \* history: sessions that ran beside another of their id

serverVars == <<connections, pc, cancelled, closed, dead, mon,
                reaper, reaping, stop, overlapped>>
vars == <<registryVars, serverVars>>

(* The handler: not yet called; peer in the registry, s.mu not yet taken;  *)
(* in the read loop; past cancel() and Close() of the deferred function;   *)
(* past RemovePeer; returned.                                              *)
HandlerState == {"idle", "added", "reading", "closed", "removed", "done"}

TypeOK ==
    /\ RegistryTypeOK
    /\ connections \in [Id -> Session \cup {NoSession}]
    /\ pc \in [Session -> HandlerState]
    /\ cancelled \in SUBSET Session
    /\ closed \in SUBSET Session
    /\ dead \in SUBSET Session
    /\ mon \in [Session -> {"off", "running", "done"}]
    /\ reaper \in {"waiting", "removing", "done"}
    /\ reaping \in SUBSET Id
    /\ stop \in {"up", "cancelled", "down", "crashed"}
    /\ overlapped \in SUBSET Session

Init ==
    /\ RegistryInit
    /\ connections = [i \in Id |-> NoSession]
    /\ pc = [c \in Session |-> "idle"]
    /\ cancelled = {}
    /\ closed = {}
    /\ dead = {}
    /\ mon = [c \in Session |-> "off"]
    /\ reaper = "waiting"
    /\ reaping = {}
    /\ stop = "up"
    /\ overlapped = {}

Running(c) == pc[c] \notin {"idle", "done"}

\* The other sessions of c's id whose handlers are running.
Rivals(c) == {d \in Session \ {c} : IdOf[d] = IdOf[c] /\ Running(d)}

\* The read loop ends and the deferred function starts: cancel(), Close().
LeaveReadLoop(c) ==
    /\ pc[c] = "reading"
    /\ pc' = [pc EXCEPT ![c] = "closed"]
    /\ cancelled' = cancelled \cup {c}
    /\ closed' = closed \cup {c}
    /\ UNCHANGED <<registryVars, connections, dead, mon, reaper, reaping,
                   stop, overlapped>>

-----------------------------------------------------------------------------
(* Mutated forms of the definitions below: each breaks a property on       *)
(* purpose, which shows that the property depends on the code.             *)

\* Made a child of the background context.
CtxDoneServerOnly(c) == stop # "up"

\* Keeps the old session in the map.
RegisterKeepOld(c) ==
    LET old == {connections[IdOf[c]]} \ {NoSession} IN
    /\ pc[c] = "added"
    /\ cancelled' = cancelled \cup old
    /\ closed' = closed \cup old
    /\ connections' = [connections EXCEPT ![IdOf[c]] =
                           IF @ = NoSession THEN c ELSE @]
    /\ mon' = [mon EXCEPT ![c] = "running"]
    /\ pc' = [pc EXCEPT ![c] = "reading"]
    /\ UNCHANGED <<registryVars, dead, reaper, reaping, stop, overlapped>>

\* No read deadline.
ReadFailsNoDeadline(c) == c \in closed /\ LeaveReadLoop(c)

\* Keeps the records that CleanupStale removed instead of their ids.
ReapRegistryRecords ==
    /\ reaper = "waiting"
    /\ CleanupStale
    /\ reaping' = {peers[i] : i \in StaleIds}
    /\ reaper' = IF StaleIds = {} THEN "waiting" ELSE "removing"
    /\ UNCHANGED <<connections, pc, cancelled, closed, dead, mon, stop,
                   overlapped>>

\* Deletes the entries and forgets to cancel.
ReapConnectionsNoCancel ==
    /\ reaper = "removing"
    /\ connections' = [i \in Id |-> IF i \in reaping THEN NoSession
                                    ELSE connections[i]]
    /\ reaper' = "waiting"
    /\ reaping' = {}
    /\ UNCHANGED <<registryVars, pc, cancelled, closed, dead, mon, stop,
                   overlapped>>

-----------------------------------------------------------------------------
\* PeerConnection.Ctx is a child of the server's context.
CtxDone(c) == c \in cancelled \/ stop # "up"

-----------------------------------------------------------------------------
(* handleWebSocket.  A handler may start after Stop: a connection already  *)
(* upgraded is not stopped by closing the listener.                        *)

Connect(c) ==
    /\ pc[c] = "idle"
    /\ AddPeer(c)
    /\ pc' = [pc EXCEPT ![c] = "added"]
    /\ overlapped' = IF Rivals(c) = {} THEN overlapped
                     ELSE overlapped \cup Rivals(c) \cup {c}
    /\ UNCHANGED <<connections, cancelled, closed, dead, mon, reaper,
                   reaping, stop>>

\* Under s.mu: cancel and close the session found under the id, store the
\* new one; then start its monitor.
Register(c) ==
    LET old == {connections[IdOf[c]]} \ {NoSession} IN
    /\ pc[c] = "added"
    /\ cancelled' = cancelled \cup old
    /\ closed' = closed \cup old
    /\ connections' = [connections EXCEPT ![IdOf[c]] = c]
    /\ mon' = [mon EXCEPT ![c] = "running"]
    /\ pc' = [pc EXCEPT ![c] = "reading"]
    /\ UNCHANGED <<registryVars, dead, reaper, reaping, stop, overlapped>>

\* The pong handler, called from within the read.
Pong(c) ==
    /\ pc[c] = "reading"
    /\ c \notin closed \cup dead
    /\ UpdateLastPing(IdOf[c])
    /\ UNCHANGED serverVars

\* ReadJSON fails: the server closed the connection, or the remote end
\* vanished and readWait has run out.
ReadFails(c) == c \in closed \cup dead /\ LeaveReadLoop(c)

\* The peer closes the connection, sends something that is not JSON, or
\* stays silent for readWait; or handling its message panics.
PeerLeaves(c) == c \notin closed \cup dead /\ LeaveReadLoop(c)

\* The deferred function goes on: first the registry ...
RemoveOwn(c) ==
    /\ pc[c] = "closed"
    /\ RemovePeer(IdOf[c])
    /\ pc' = [pc EXCEPT ![c] = "removed"]
    /\ UNCHANGED <<connections, cancelled, closed, dead, mon, reaper,
                   reaping, stop, overlapped>>

\* ... then, under s.mu, the connection, both by id.
DeleteOwn(c) ==
    /\ pc[c] = "removed"
    /\ connections' = [connections EXCEPT ![IdOf[c]] = NoSession]
    /\ pc' = [pc EXCEPT ![c] = "done"]
    /\ UNCHANGED <<registryVars, cancelled, closed, dead, mon, reaper,
                   reaping, stop, overlapped>>

-----------------------------------------------------------------------------
(* monitorConnection.                                                      *)

MonitorExit(c) ==
    /\ mon[c] = "running"
    /\ CtxDone(c)
    /\ mon' = [mon EXCEPT ![c] = "done"]
    /\ UNCHANGED <<registryVars, connections, pc, cancelled, closed, dead,
                   reaper, reaping, stop, overlapped>>

\* The write of a ping can fail or time out on any connection.  The context
\* is cancelled, the connection stays open and the handler keeps reading.
PingFails(c) ==
    /\ mon[c] = "running"
    /\ mon' = [mon EXCEPT ![c] = "done"]
    /\ cancelled' = cancelled \cup {c}
    /\ UNCHANGED <<registryVars, connections, pc, closed, dead, reaper,
                   reaping, stop, overlapped>>

\* Or it panics: a message is being written to the same Conn, or the handler
\* has returned and the Conn is back in the pool.  Nothing recovers a
\* monitor: the process ends.
PingPanics(c) ==
    /\ mon[c] = "running"
    /\ stop' = "crashed"
    /\ peers' = [i \in Id |-> NoSession]
    /\ connections' = [i \in Id |-> NoSession]
    /\ pc' = [d \in Session |-> "done"]
    /\ mon' = [d \in Session |-> "done"]
    /\ connected' = {}
    /\ stale' = {}
    /\ reaper' = "done"
    /\ reaping' = {}
    /\ UNCHANGED <<cancelled, closed, dead, overlapped>>

-----------------------------------------------------------------------------
(* cleanupLoop: one tick is a call of CleanupStale under the registry's    *)
(* lock and then, if it returned anything, a section under s.mu.           *)

ReapRegistry ==
    /\ reaper = "waiting"
    /\ CleanupStale
    /\ reaping' = StaleIds
    /\ reaper' = IF StaleIds = {} THEN "waiting" ELSE "removing"
    /\ UNCHANGED <<connections, pc, cancelled, closed, dead, mon, stop,
                   overlapped>>

ReapConnections ==
    /\ reaper = "removing"
    /\ cancelled' = cancelled \cup ({connections[i] : i \in reaping} \ {NoSession})
    /\ connections' = [i \in Id |-> IF i \in reaping THEN NoSession
                                    ELSE connections[i]]
    /\ reaper' = "waiting"
    /\ reaping' = {}
    /\ UNCHANGED <<registryVars, pc, closed, dead, mon, stop, overlapped>>

ReaperExit ==
    /\ reaper = "waiting"
    /\ stop # "up"
    /\ reaper' = "done"
    /\ UNCHANGED <<registryVars, connections, pc, cancelled, closed, dead,
                   mon, reaping, stop, overlapped>>

-----------------------------------------------------------------------------
(* Stop: cancel the server's context, then close what is in connections.   *)

StopCancel ==
    /\ stop = "up"
    /\ stop' = "cancelled"
    /\ UNCHANGED <<registryVars, connections, pc, cancelled, closed, dead,
                   mon, reaper, reaping, overlapped>>

StopClose ==
    LET open == {connections[i] : i \in Id} \ {NoSession} IN
    /\ stop = "cancelled"
    /\ stop' = "down"
    /\ cancelled' = cancelled \cup open
    /\ closed' = closed \cup open
    /\ UNCHANGED <<registryVars, connections, pc, dead, mon, reaper, reaping,
                   overlapped>>

-----------------------------------------------------------------------------
(* The environment.                                                        *)

\* The remote end crashes or the network to it is cut.
PeerDies(c) ==
    /\ pc[c] \in {"added", "reading"}
    /\ dead' = dead \cup {c}
    /\ UNCHANGED <<registryVars, connections, pc, cancelled, closed, mon,
                   reaper, reaping, stop, overlapped>>

\* SessionTimeout passes since the last pong.  It does not pass between
\* AddPeer and the taking of s.mu, which follow one another directly.
Age(c) ==
    /\ pc[c] # "added"
    /\ AgePing(c)
    /\ UNCHANGED serverVars

HandlerStep(c) ==
    \/ Connect(c)
    \/ Register(c)
    \/ Pong(c)
    \/ ReadFails(c)
    \/ PeerLeaves(c)
    \/ RemoveOwn(c)
    \/ DeleteOwn(c)

ServerStep ==
    \/ ReapRegistry
    \/ ReapConnections
    \/ ReaperExit
    \/ StopCancel
    \/ StopClose

Next ==
    \/ \E c \in Session : HandlerStep(c)
    \/ \E c \in Session : MonitorExit(c) \/ PingFails(c) \/ PingPanics(c)
    \/ \E c \in Session : PeerDies(c) \/ Age(c)
    \/ ServerStep

Spec == Init /\ [][Next]_vars

(* Go runs every runnable goroutine, a lock that is always released is     *)
(* eventually taken, a read has a deadline and the ticker ticks.  Nothing  *)
(* is assumed of the peers, of pings, or of Stop being called.             *)
Fairness ==
    /\ \A c \in Session : /\ WF_vars(Register(c))
                          /\ WF_vars(ReadFails(c))
                          /\ WF_vars(RemoveOwn(c))
                          /\ WF_vars(DeleteOwn(c))
                          /\ WF_vars(MonitorExit(c))
    /\ WF_vars(ReapRegistry)
    /\ WF_vars(ReapConnections)
    /\ WF_vars(StopClose)

FairSpec == Spec /\ Fairness

=============================================================================
