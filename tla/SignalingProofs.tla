-------------------------- MODULE SignalingProofs ---------------------------
(***************************************************************************)
(* Proofs about the session life cycle, for any set of sessions and ids:   *)
(* type correctness, NoDanglingEntry, ListedAreConnected and               *)
(* SoleSessionReachable.  IInv is the inductive invariant; each of its     *)
(* parts has a lemma that says every step preserves it.  A lemma has one   *)
(* step per action that changes what the part speaks of, and one for all   *)
(* the actions that leave it alone.  Then, that both maps implement        *)
(* PeerDirectory, and what that says of lookups.                           *)
(***************************************************************************)
EXTENDS SignalingProps, TLAPS

\* Every step keeps every variable in its type.
LEMMA TypeStep ==
    TypeOK /\ [Next]_vars => TypeOK'
<1> SUFFICES ASSUME TypeOK, [Next]_vars
             PROVE  TypeOK'
  OBVIOUS
<1> USE SessionAssumption DEF TypeOK, RegistryTypeOK, registryVars,
         serverVars, HandlerState
<1>1. ASSUME NEW c \in Session, Connect(c) PROVE TypeOK'
  BY <1>1 DEF Connect, AddPeer, Rivals
<1>2. ASSUME NEW c \in Session, Register(c) PROVE TypeOK'
  BY <1>2 DEF Register
<1>3. ASSUME NEW c \in Session, Pong(c) PROVE TypeOK'
  BY <1>3 DEF Pong, UpdateLastPing
<1>4. ASSUME NEW c \in Session, ReadFails(c) PROVE TypeOK'
  BY <1>4 DEF ReadFails, LeaveReadLoop
<1>5. ASSUME NEW c \in Session, PeerLeaves(c) PROVE TypeOK'
  BY <1>5 DEF PeerLeaves, LeaveReadLoop
<1>6. ASSUME NEW c \in Session, RemoveOwn(c) PROVE TypeOK'
  BY <1>6 DEF RemoveOwn, RemovePeer
<1>7. ASSUME NEW c \in Session, DeleteOwn(c) PROVE TypeOK'
  BY <1>7 DEF DeleteOwn
<1>8. ASSUME NEW c \in Session, MonitorExit(c) PROVE TypeOK'
  BY <1>8 DEF MonitorExit
<1>9. ASSUME NEW c \in Session, PingFails(c) PROVE TypeOK'
  BY <1>9 DEF PingFails
<1>10. ASSUME NEW c \in Session, PeerDies(c) PROVE TypeOK'
  BY <1>10 DEF PeerDies
<1>11. ASSUME NEW c \in Session, Age(c) PROVE TypeOK'
  BY <1>11 DEF Age, AgePing
<1>12. CASE ReapRegistry
  BY <1>12 DEF ReapRegistry, CleanupStale, StaleIds
<1>13. CASE ReapConnections
  BY <1>13 DEF ReapConnections
<1>14. CASE ReaperExit
  BY <1>14 DEF ReaperExit
<1>15. CASE StopCancel
  BY <1>15 DEF StopCancel
<1>16. CASE StopClose
  BY <1>16 DEF StopClose
<1>17. ASSUME NEW c \in Session, PingPanics(c) PROVE TypeOK'
  BY <1>17 DEF PingPanics
<1>18. CASE UNCHANGED vars
  BY <1>18 DEF vars, serverVars, registryVars
<1> QED
  BY <1>1, <1>2, <1>3, <1>4, <1>5, <1>6, <1>7, <1>8, <1>9, <1>10, <1>11,
     <1>12, <1>13, <1>14, <1>15, <1>16, <1>17, <1>18 DEF Next, HandlerStep,
     ServerStep

(* An entry is written by the session it names, and that session removes   *)
(* whatever stands under its id before it moves on.                        *)
LEMMA DanglingStep ==
    TypeOK /\ NoDanglingEntry /\ [Next]_vars => NoDanglingEntry'
<1> SUFFICES ASSUME TypeOK, NoDanglingEntry, [Next]_vars
             PROVE  NoDanglingEntry'
  OBVIOUS
<1> USE SessionAssumption DEF TypeOK, RegistryTypeOK, registryVars,
         serverVars, NoDanglingEntry, NoDanglingConnection, NoDanglingPeer
<1>1. ASSUME NEW c \in Session, Connect(c) PROVE NoDanglingEntry'
  BY <1>1 DEF Connect, AddPeer
<1>2. ASSUME NEW c \in Session, Register(c) PROVE NoDanglingEntry'
  BY <1>2 DEF Register
<1>3. ASSUME NEW c \in Session, ReadFails(c) PROVE NoDanglingEntry'
  BY <1>3 DEF ReadFails, LeaveReadLoop
<1>4. ASSUME NEW c \in Session, PeerLeaves(c) PROVE NoDanglingEntry'
  BY <1>4 DEF PeerLeaves, LeaveReadLoop
<1>5. ASSUME NEW c \in Session, RemoveOwn(c) PROVE NoDanglingEntry'
  BY <1>5 DEF RemoveOwn, RemovePeer
<1>6. ASSUME NEW c \in Session, DeleteOwn(c) PROVE NoDanglingEntry'
  BY <1>6 DEF DeleteOwn
<1>7. CASE ReapRegistry
  BY <1>7 DEF ReapRegistry, CleanupStale, StaleIds
<1>8. CASE ReapConnections
  BY <1>8 DEF ReapConnections
<1>9. ASSUME NEW c \in Session, PingPanics(c) PROVE NoDanglingEntry'
  BY <1>9 DEF PingPanics
<1>10. CASE UNCHANGED <<peers, connections, pc>>
  BY <1>10
<1> QED
  BY <1>1, <1>2, <1>3, <1>4, <1>5, <1>6, <1>7, <1>8, <1>9, <1>10 DEF Next,
     HandlerStep, ServerStep, Pong, UpdateLastPing, MonitorExit, PingFails,
     PeerDies, Age, AgePing, ReaperExit, StopCancel, StopClose, vars

(* Connected is cleared exactly for the records that are deleted: no       *)
(* record is stored under two ids.                                         *)
LEMMA ListedStep ==
    TypeOK /\ NoDanglingEntry
    /\ ListedAreConnected /\ [Next]_vars
    => ListedAreConnected'
<1> SUFFICES ASSUME TypeOK, NoDanglingEntry, ListedAreConnected, [Next]_vars
             PROVE  ListedAreConnected'
  OBVIOUS
<1> USE SessionAssumption DEF TypeOK, RegistryTypeOK, registryVars,
         serverVars, NoDanglingEntry, NoDanglingPeer, ListedAreConnected,
         GetAllPeers
<1>1. ASSUME NEW c \in Session, Connect(c) PROVE ListedAreConnected'
  BY <1>1 DEF Connect, AddPeer
<1>2. ASSUME NEW c \in Session, RemoveOwn(c) PROVE ListedAreConnected'
  BY <1>2 DEF RemoveOwn, RemovePeer
<1>3. CASE ReapRegistry
  BY <1>3 DEF ReapRegistry, CleanupStale, StaleIds
<1>4. ASSUME NEW c \in Session, PingPanics(c) PROVE ListedAreConnected'
  BY <1>4 DEF PingPanics
<1>5. CASE UNCHANGED <<peers, connected>>
  BY <1>5
<1> QED
  BY <1>1, <1>2, <1>3, <1>4, <1>5 DEF Next, HandlerStep, ServerStep, Register,
     Pong, UpdateLastPing, ReadFails, LeaveReadLoop, PeerLeaves, DeleteOwn,
     MonitorExit, PingFails, PeerDies, Age, AgePing, ReapConnections,
     ReaperExit, StopCancel, StopClose, vars

\* A session with rivals is recorded in overlapped when the later one of
\* the two connects.
LEMMA RivalsStep ==
    TypeOK /\ AloneHasNoRivals /\ [Next]_vars => AloneHasNoRivals'
<1> SUFFICES ASSUME TypeOK, AloneHasNoRivals, [Next]_vars
             PROVE  AloneHasNoRivals'
  OBVIOUS
<1> USE SessionAssumption DEF TypeOK, RegistryTypeOK, registryVars,
         serverVars, AloneHasNoRivals, Rivals, Running
<1>1. ASSUME NEW c \in Session, Connect(c) PROVE AloneHasNoRivals'
  BY <1>1 DEF Connect, AddPeer
<1>2. ASSUME NEW c \in Session, Register(c) PROVE AloneHasNoRivals'
  BY <1>2 DEF Register
<1>3. ASSUME NEW c \in Session, ReadFails(c) PROVE AloneHasNoRivals'
  BY <1>3 DEF ReadFails, LeaveReadLoop
<1>4. ASSUME NEW c \in Session, PeerLeaves(c) PROVE AloneHasNoRivals'
  BY <1>4 DEF PeerLeaves, LeaveReadLoop
<1>5. ASSUME NEW c \in Session, RemoveOwn(c) PROVE AloneHasNoRivals'
  BY <1>5 DEF RemoveOwn, RemovePeer
<1>6. ASSUME NEW c \in Session, DeleteOwn(c) PROVE AloneHasNoRivals'
  BY <1>6 DEF DeleteOwn
<1>7. ASSUME NEW c \in Session, PingPanics(c) PROVE AloneHasNoRivals'
  BY <1>7 DEF PingPanics
<1>8. CASE UNCHANGED <<pc, overlapped>>
  BY <1>8
<1> QED
  BY <1>1, <1>2, <1>3, <1>4, <1>5, <1>6, <1>7, <1>8 DEF Next, HandlerStep,
     ServerStep, Pong, UpdateLastPing, MonitorExit, PingFails, PeerDies, Age,
     AgePing, ReapRegistry, CleanupStale, StaleIds, ReapConnections,
     ReaperExit, StopCancel, StopClose, vars

\* reaping is filled and emptied together with the state of the loop.
LEMMA ReapingStep ==
    ReapingInTick /\ [Next]_vars => ReapingInTick'
<1> SUFFICES ASSUME ReapingInTick, [Next]_vars
             PROVE  ReapingInTick'
  OBVIOUS
<1> USE SessionAssumption DEF ReapingInTick, registryVars
<1>1. CASE ReapRegistry
  BY <1>1 DEF ReapRegistry, CleanupStale, StaleIds
<1>2. CASE ReapConnections
  BY <1>2 DEF ReapConnections
<1>3. CASE ReaperExit
  BY <1>3 DEF ReaperExit
<1>4. ASSUME NEW c \in Session, PingPanics(c) PROVE ReapingInTick'
  BY <1>4 DEF PingPanics
<1>5. CASE UNCHANGED <<reaper, reaping>>
  BY <1>5
<1> QED
  BY <1>1, <1>2, <1>3, <1>4, <1>5 DEF Next, HandlerStep, ServerStep, Connect,
     AddPeer, Register, Pong, UpdateLastPing, ReadFails, LeaveReadLoop,
     PeerLeaves, RemoveOwn, RemovePeer, DeleteOwn, MonitorExit, PingFails,
     PeerDies, Age, AgePing, StopCancel, StopClose, serverVars, vars

\* Only a record in the registry grows old, never one that was just added.
LEMMA StaleStep ==
    TypeOK /\ NoDanglingEntry
    /\ StaleAfterRegister /\ [Next]_vars
    => StaleAfterRegister'
<1> SUFFICES ASSUME TypeOK, NoDanglingEntry, StaleAfterRegister, [Next]_vars
             PROVE  StaleAfterRegister'
  OBVIOUS
<1> USE SessionAssumption DEF TypeOK, RegistryTypeOK, registryVars,
         serverVars, NoDanglingEntry, NoDanglingPeer, StaleAfterRegister
<1>1. ASSUME NEW c \in Session, Connect(c) PROVE StaleAfterRegister'
  BY <1>1 DEF Connect, AddPeer
<1>2. ASSUME NEW c \in Session, Register(c) PROVE StaleAfterRegister'
  BY <1>2 DEF Register
<1>3. ASSUME NEW c \in Session, Pong(c) PROVE StaleAfterRegister'
  BY <1>3 DEF Pong, UpdateLastPing
<1>4. ASSUME NEW c \in Session, ReadFails(c) PROVE StaleAfterRegister'
  BY <1>4 DEF ReadFails, LeaveReadLoop
<1>5. ASSUME NEW c \in Session, PeerLeaves(c) PROVE StaleAfterRegister'
  BY <1>5 DEF PeerLeaves, LeaveReadLoop
<1>6. ASSUME NEW c \in Session, RemoveOwn(c) PROVE StaleAfterRegister'
  BY <1>6 DEF RemoveOwn, RemovePeer
<1>7. ASSUME NEW c \in Session, DeleteOwn(c) PROVE StaleAfterRegister'
  BY <1>7 DEF DeleteOwn
<1>8. ASSUME NEW c \in Session, Age(c) PROVE StaleAfterRegister'
  BY <1>8 DEF Age, AgePing, GetAllPeers
<1>9. CASE ReapRegistry
  BY <1>9 DEF ReapRegistry, CleanupStale, StaleIds
<1>10. ASSUME NEW c \in Session, PingPanics(c) PROVE StaleAfterRegister'
  BY <1>10 DEF PingPanics
<1>11. CASE UNCHANGED <<stale, pc>>
  BY <1>11
<1> QED
  BY <1>1, <1>2, <1>3, <1>4, <1>5, <1>6, <1>7, <1>8, <1>9, <1>10, <1>11 DEF Next,
     HandlerStep, ServerStep, MonitorExit, PingFails, PeerDies,
     ReapConnections, ReaperExit, StopCancel, StopClose, vars

(* Between AddPeer and Register nothing but a rival could remove the       *)
(* record, as it is up to date.                                            *)
LEMMA AddedStep ==
    TypeOK /\ AloneHasNoRivals /\ StaleAfterRegister
    /\ AddedIsListed /\ [Next]_vars
    => AddedIsListed'
<1> SUFFICES ASSUME TypeOK, AloneHasNoRivals, StaleAfterRegister,
                    AddedIsListed, [Next]_vars
             PROVE  AddedIsListed'
  OBVIOUS
<1> USE SessionAssumption DEF TypeOK, RegistryTypeOK, registryVars,
         serverVars, AloneHasNoRivals, Rivals, Running, StaleAfterRegister,
         AddedIsListed
<1>1. ASSUME NEW c \in Session, Connect(c) PROVE AddedIsListed'
  BY <1>1 DEF Connect, AddPeer
<1>2. ASSUME NEW c \in Session, Register(c) PROVE AddedIsListed'
  BY <1>2 DEF Register
<1>3. ASSUME NEW c \in Session, ReadFails(c) PROVE AddedIsListed'
  BY <1>3 DEF ReadFails, LeaveReadLoop
<1>4. ASSUME NEW c \in Session, PeerLeaves(c) PROVE AddedIsListed'
  BY <1>4 DEF PeerLeaves, LeaveReadLoop
<1>5. ASSUME NEW c \in Session, RemoveOwn(c) PROVE AddedIsListed'
  BY <1>5 DEF RemoveOwn, RemovePeer
<1>6. ASSUME NEW c \in Session, DeleteOwn(c) PROVE AddedIsListed'
  BY <1>6 DEF DeleteOwn
<1>7. CASE ReapRegistry
  BY <1>7 DEF ReapRegistry, CleanupStale, StaleIds
<1>8. ASSUME NEW c \in Session, PingPanics(c) PROVE AddedIsListed'
  BY <1>8 DEF PingPanics
<1>9. CASE UNCHANGED <<peers, pc, overlapped>>
  BY <1>9
<1> QED
  BY <1>1, <1>2, <1>3, <1>4, <1>5, <1>6, <1>7, <1>8, <1>9 DEF Next, HandlerStep,
     ServerStep, Pong, UpdateLastPing, MonitorExit, PingFails, PeerDies, Age,
     AgePing, ReapConnections, ReaperExit, StopCancel, StopClose, vars

\* The deferred function cancels before anything else.
LEMMA ClosedStep ==
    TypeOK /\ ClosedIsCancelled /\ [Next]_vars => ClosedIsCancelled'
<1> SUFFICES ASSUME TypeOK, ClosedIsCancelled, [Next]_vars
             PROVE  ClosedIsCancelled'
  OBVIOUS
<1> USE SessionAssumption DEF TypeOK, RegistryTypeOK, registryVars,
         serverVars, ClosedIsCancelled
<1>1. ASSUME NEW c \in Session, Connect(c) PROVE ClosedIsCancelled'
  BY <1>1 DEF Connect, AddPeer
<1>2. ASSUME NEW c \in Session, Register(c) PROVE ClosedIsCancelled'
  BY <1>2 DEF Register
<1>3. ASSUME NEW c \in Session, ReadFails(c) PROVE ClosedIsCancelled'
  BY <1>3 DEF ReadFails, LeaveReadLoop
<1>4. ASSUME NEW c \in Session, PeerLeaves(c) PROVE ClosedIsCancelled'
  BY <1>4 DEF PeerLeaves, LeaveReadLoop
<1>5. ASSUME NEW c \in Session, RemoveOwn(c) PROVE ClosedIsCancelled'
  BY <1>5 DEF RemoveOwn, RemovePeer
<1>6. ASSUME NEW c \in Session, DeleteOwn(c) PROVE ClosedIsCancelled'
  BY <1>6 DEF DeleteOwn
<1>7. ASSUME NEW c \in Session, PingFails(c) PROVE ClosedIsCancelled'
  BY <1>7 DEF PingFails
<1>8. CASE ReapConnections
  BY <1>8 DEF ReapConnections
<1>9. CASE StopClose
  BY <1>9 DEF StopClose
<1>10. ASSUME NEW c \in Session, PingPanics(c) PROVE ClosedIsCancelled'
  BY <1>10 DEF PingPanics
<1>11. CASE UNCHANGED <<pc, cancelled>>
  BY <1>11
<1> QED
  BY <1>1, <1>2, <1>3, <1>4, <1>5, <1>6, <1>7, <1>8, <1>9, <1>10, <1>11 DEF Next,
     HandlerStep, ServerStep, Pong, UpdateLastPing, MonitorExit, PeerDies,
     Age, AgePing, ReapRegistry, CleanupStale, StaleIds, ReaperExit,
     StopCancel, vars

(* Whoever else takes a session's entry away is a rival, or cancels it in  *)
(* the same critical section.                                              *)
LEMMA UncancelledStep ==
    TypeOK /\ NoDanglingEntry /\ AloneHasNoRivals
    /\ SoleUncancelledStored /\ [Next]_vars
    => SoleUncancelledStored'
<1> SUFFICES ASSUME TypeOK, NoDanglingEntry, AloneHasNoRivals,
                    SoleUncancelledStored, [Next]_vars
             PROVE  SoleUncancelledStored'
  OBVIOUS
<1> USE SessionAssumption DEF TypeOK, RegistryTypeOK, registryVars,
         serverVars, NoDanglingEntry, NoDanglingConnection, AloneHasNoRivals,
         Rivals, Running, SoleUncancelledStored
<1>1. ASSUME NEW c \in Session, Connect(c) PROVE SoleUncancelledStored'
  BY <1>1 DEF Connect, AddPeer
<1>2. ASSUME NEW c \in Session, Register(c) PROVE SoleUncancelledStored'
  BY <1>2 DEF Register
<1>3. ASSUME NEW c \in Session, ReadFails(c) PROVE SoleUncancelledStored'
  BY <1>3 DEF ReadFails, LeaveReadLoop
<1>4. ASSUME NEW c \in Session, PeerLeaves(c) PROVE SoleUncancelledStored'
  BY <1>4 DEF PeerLeaves, LeaveReadLoop
<1>5. ASSUME NEW c \in Session, RemoveOwn(c) PROVE SoleUncancelledStored'
  BY <1>5 DEF RemoveOwn, RemovePeer
<1>6. ASSUME NEW c \in Session, DeleteOwn(c) PROVE SoleUncancelledStored'
  BY <1>6 DEF DeleteOwn
<1>7. ASSUME NEW c \in Session, PingFails(c) PROVE SoleUncancelledStored'
  BY <1>7 DEF PingFails
<1>8. CASE ReapConnections
  BY <1>8 DEF ReapConnections
<1>9. CASE StopClose
  BY <1>9 DEF StopClose
<1>10. ASSUME NEW c \in Session, PingPanics(c) PROVE SoleUncancelledStored'
  BY <1>10 DEF PingPanics
<1>11. CASE UNCHANGED <<pc, connections, cancelled, overlapped>>
  BY <1>11
<1> QED
  BY <1>1, <1>2, <1>3, <1>4, <1>5, <1>6, <1>7, <1>8, <1>9, <1>10, <1>11 DEF Next,
     HandlerStep, ServerStep, Pong, UpdateLastPing, MonitorExit, PeerDies,
     Age, AgePing, ReapRegistry, CleanupStale, StaleIds, ReaperExit,
     StopCancel, vars

(* A record that CleanupStale removes has its id in reaping until the      *)
(* connection is removed too.                                              *)
LEMMA StoredStep ==
    TypeOK /\ NoDanglingEntry /\ AloneHasNoRivals /\ ReapingInTick
    /\ AddedIsListed /\ SoleStoredIsListed /\ [Next]_vars
    => SoleStoredIsListed'
<1> SUFFICES ASSUME TypeOK, NoDanglingEntry, AloneHasNoRivals, ReapingInTick,
                    AddedIsListed, SoleStoredIsListed, [Next]_vars
             PROVE  SoleStoredIsListed'
  OBVIOUS
<1> USE SessionAssumption DEF TypeOK, RegistryTypeOK, registryVars,
         serverVars, NoDanglingEntry, NoDanglingConnection, NoDanglingPeer,
         AloneHasNoRivals, Rivals, Running, ReapingInTick, AddedIsListed,
         SoleStoredIsListed
<1>1. ASSUME NEW c \in Session, Connect(c) PROVE SoleStoredIsListed'
  BY <1>1 DEF Connect, AddPeer
<1>2. ASSUME NEW c \in Session, Register(c) PROVE SoleStoredIsListed'
  BY <1>2 DEF Register
<1>3. ASSUME NEW c \in Session, ReadFails(c) PROVE SoleStoredIsListed'
  BY <1>3 DEF ReadFails, LeaveReadLoop
<1>4. ASSUME NEW c \in Session, PeerLeaves(c) PROVE SoleStoredIsListed'
  BY <1>4 DEF PeerLeaves, LeaveReadLoop
<1>5. ASSUME NEW c \in Session, RemoveOwn(c) PROVE SoleStoredIsListed'
  BY <1>5 DEF RemoveOwn, RemovePeer
<1>6. ASSUME NEW c \in Session, DeleteOwn(c) PROVE SoleStoredIsListed'
  BY <1>6 DEF DeleteOwn
<1>7. CASE ReapRegistry
  BY <1>7 DEF ReapRegistry, CleanupStale, StaleIds
<1>8. CASE ReapConnections
  BY <1>8 DEF ReapConnections
<1>9. ASSUME NEW c \in Session, PingPanics(c) PROVE SoleStoredIsListed'
  BY <1>9 DEF PingPanics
<1>10. CASE UNCHANGED <<peers, pc, connections, reaping, overlapped>>
  BY <1>10
<1> QED
  BY <1>1, <1>2, <1>3, <1>4, <1>5, <1>6, <1>7, <1>8, <1>9, <1>10 DEF Next,
     HandlerStep, ServerStep, Pong, UpdateLastPing, MonitorExit, PingFails,
     PeerDies, Age, AgePing, ReaperExit, StopCancel, StopClose, vars

-----------------------------------------------------------------------------
\* Every variable stays in its type.
THEOREM TypeCorrect == Spec => []TypeOK
<1>1. Init => TypeOK
  BY DEF Init, RegistryInit, TypeOK, RegistryTypeOK, HandlerState
<1>2. TypeOK /\ [Next]_vars => TypeOK'
  BY TypeStep
<1> QED
  BY <1>1, <1>2, PTL DEF Spec

\* IInv is an invariant of the specification.
THEOREM Invariant == Spec => []IInv
<1>1. Init => IInv
  BY SessionAssumption
     DEF Init, RegistryInit, IInv, TypeOK, RegistryTypeOK, HandlerState,
         NoDanglingEntry, NoDanglingConnection, NoDanglingPeer,
         ListedAreConnected, GetAllPeers, AloneHasNoRivals, Running,
         ReapingInTick, StaleAfterRegister, AddedIsListed, ClosedIsCancelled,
         SoleUncancelledStored, SoleStoredIsListed
<1>2. IInv /\ [Next]_vars => IInv'
  BY TypeStep, DanglingStep, ListedStep, RivalsStep, ReapingStep, StaleStep,
     AddedStep, ClosedStep, UncancelledStep, StoredStep DEF IInv
<1> QED
  BY <1>1, <1>2, PTL DEF Spec

\* Neither map ever points to a session that is not there to serve it.
THEOREM NothingDangles == Spec => []NoDanglingEntry
<1>1. IInv => NoDanglingEntry
  BY DEF IInv
<1> QED
  BY <1>1, Invariant, PTL

\* The API lists no record whose Connected flag has been cleared.
THEOREM ListedConnected == Spec => []ListedAreConnected
<1>1. IInv => ListedAreConnected
  BY DEF IInv
<1> QED
  BY <1>1, Invariant, PTL

(* A session that shared its id with no other is listed while messages are *)
(* forwarded to it, and is in both maps unless something cancelled it.     *)
THEOREM SoleReachable == Spec => []SoleSessionReachable
<1>1. IInv => SoleSessionReachable
  BY DEF IInv, SoleSessionReachable, SoleStoredIsListed,
         SoleUncancelledStored, ClosedIsCancelled
<1> QED
  BY <1>1, Invariant, PTL

-----------------------------------------------------------------------------
(* The registry's map implements PeerDirectory: AddPeer publishes the      *)
(* session, RemovePeer withdraws it, CleanupStale expires ids, and nothing *)
(* else changes what the directory shows.                                  *)
LEMMA RegistryStep == TypeOK /\ [Next]_vars => [RegistryDir!Next]_<<PeersPhase, peers>>
<1> SUFFICES ASSUME TypeOK, [Next]_vars
             PROVE  [RegistryDir!Next]_<<PeersPhase, peers>>
  OBVIOUS
<1> USE DEF TypeOK, RegistryTypeOK, registryVars, serverVars, HandlerState
<1>1. ASSUME NEW c \in Session, Connect(c) PROVE RegistryDir!Publish(c)
  BY <1>1 DEF Connect, AddPeer, PeersPhase, RegistryDir!Publish
<1>2. ASSUME NEW c \in Session, RemoveOwn(c) PROVE RegistryDir!Withdraw(c)
  BY <1>2 DEF RemoveOwn, RemovePeer, PeersPhase, RegistryDir!Withdraw
<1>3. CASE ReapRegistry
  <2>1. RegistryDir!Expire(StaleIds)
    BY <1>3 DEF ReapRegistry, CleanupStale, PeersPhase, RegistryDir!Expire
  <2>2. StaleIds \in SUBSET Id
    BY DEF StaleIds
  <2> QED
    BY <2>1, <2>2 DEF RegistryDir!Next
<1>4. ASSUME NEW c \in Session,
             \/ Register(c) \/ Pong(c) \/ ReadFails(c) \/ PeerLeaves(c)
             \/ DeleteOwn(c) \/ MonitorExit(c) \/ PingFails(c)
             \/ PeerDies(c) \/ Age(c)
      PROVE  UNCHANGED <<PeersPhase, peers>>
  <2>1. UNCHANGED peers
    BY <1>4 DEF Register, Pong, UpdateLastPing, ReadFails, PeerLeaves,
       LeaveReadLoop, DeleteOwn, MonitorExit, PingFails, PeerDies, Age,
       AgePing
  <2>2. PeersPhase' = PeersPhase
    BY <1>4 DEF PeersPhase, Register, Pong, ReadFails, PeerLeaves,
       LeaveReadLoop, DeleteOwn, MonitorExit, PingFails, PeerDies, Age
  <2> QED
    BY <2>1, <2>2
<1>5. CASE ReapConnections \/ ReaperExit \/ StopCancel \/ StopClose \/ UNCHANGED vars
  BY <1>5 DEF ReapConnections, ReaperExit, StopCancel, StopClose, vars, PeersPhase
<1>6. ASSUME NEW c \in Session, PingPanics(c) PROVE RegistryDir!Collapse
  BY <1>6 DEF PingPanics, PeersPhase, RegistryDir!Collapse
<1> QED
  BY <1>1, <1>2, <1>3, <1>4, <1>5, <1>6
     DEF Next, HandlerStep, ServerStep, RegistryDir!Next

THEOREM RegistryImplementsDirectory == Spec => RegistryIsDirectory
<1>1. Init => RegistryDir!Init
  BY DEF Init, RegistryInit, PeersPhase, RegistryDir!Init
<1> QED
  BY <1>1, RegistryStep, TypeCorrect, PTL
     DEF Spec, RegistryIsDirectory, RegistryDir!Spec, RegistryDir!dirVars

(* So does the map of connections: a session is published when it takes    *)
(* over the id under s.mu and withdrawn at the end of its handler.         *)
LEMMA ConnectionsStep == TypeOK /\ [Next]_vars => [ConnDir!Next]_<<ConnectionsPhase, connections>>
<1> SUFFICES ASSUME TypeOK, [Next]_vars
             PROVE  [ConnDir!Next]_<<ConnectionsPhase, connections>>
  OBVIOUS
<1> USE DEF TypeOK, RegistryTypeOK, registryVars, serverVars, HandlerState
<1>1. ASSUME NEW c \in Session, Register(c) PROVE ConnDir!Publish(c)
  BY <1>1 DEF Register, ConnectionsPhase, ConnDir!Publish
<1>2. ASSUME NEW c \in Session, DeleteOwn(c) PROVE ConnDir!Withdraw(c)
  BY <1>2 DEF DeleteOwn, ConnectionsPhase, ConnDir!Withdraw
<1>3. CASE ReapConnections
  <2>1. ConnDir!Expire(reaping)
    BY <1>3 DEF ReapConnections, ConnectionsPhase, ConnDir!Expire
  <2> QED
    BY <2>1 DEF ConnDir!Next
<1>4. ASSUME NEW c \in Session,
             \/ Connect(c) \/ Pong(c) \/ ReadFails(c) \/ PeerLeaves(c)
             \/ RemoveOwn(c) \/ MonitorExit(c) \/ PingFails(c)
             \/ PeerDies(c) \/ Age(c)
      PROVE  UNCHANGED <<ConnectionsPhase, connections>>
  <2>1. UNCHANGED connections
    BY <1>4 DEF Connect, Pong, ReadFails, PeerLeaves, LeaveReadLoop,
       RemoveOwn, MonitorExit, PingFails, PeerDies, Age
  <2>2. ConnectionsPhase' = ConnectionsPhase
    BY <1>4 DEF ConnectionsPhase, Connect, Pong, ReadFails, PeerLeaves,
       LeaveReadLoop, RemoveOwn, MonitorExit, PingFails, PeerDies, Age
  <2> QED
    BY <2>1, <2>2
<1>5. CASE ReapRegistry \/ ReaperExit \/ StopCancel \/ StopClose \/ UNCHANGED vars
  BY <1>5 DEF ReapRegistry, ReaperExit, StopCancel, StopClose, vars, ConnectionsPhase
<1>6. ASSUME NEW c \in Session, PingPanics(c) PROVE ConnDir!Collapse
  BY <1>6 DEF PingPanics, ConnectionsPhase, ConnDir!Collapse
<1> QED
  BY <1>1, <1>2, <1>3, <1>4, <1>5, <1>6
     DEF Next, HandlerStep, ServerStep, ConnDir!Next

THEOREM ConnectionsImplementDirectory == Spec => ConnectionsAreDirectory
<1>1. Init => ConnDir!Init
  BY DEF Init, ConnectionsPhase, ConnDir!Init
<1> QED
  BY <1>1, ConnectionsStep, TypeCorrect, PTL
     DEF Spec, ConnectionsAreDirectory, ConnDir!Spec, ConnDir!dirVars

\* In both maps whoever is found announced the id and has not left, and an id
\* never reverts to an earlier session, whatever the two cleanup loops do.
THEOREM BothInService ==
    Spec => /\ []RegistryDir!EntryInService /\ RegistryDir!NoReturn
            /\ []ConnDir!EntryInService /\ ConnDir!NoReturn
<1>1. RegistryDir!WellFormed /\ ConnDir!WellFormed
  BY SessionAssumption DEF RegistryDir!WellFormed, ConnDir!WellFormed
<1>2. RegistryDir!Spec => []RegistryDir!DirInv /\ RegistryDir!NoReturn
  BY <1>1, RegistryDir!InService, RegistryDir!NeverReturns
<1>3. ConnDir!Spec => []ConnDir!DirInv /\ ConnDir!NoReturn
  BY <1>1, ConnDir!InService, ConnDir!NeverReturns
<1> QED
  BY <1>2, <1>3, RegistryImplementsDirectory, ConnectionsImplementDirectory, PTL
     DEF RegistryIsDirectory, ConnectionsAreDirectory,
         RegistryDir!DirInv, ConnDir!DirInv

=============================================================================
