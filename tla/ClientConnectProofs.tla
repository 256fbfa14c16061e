------------------------ MODULE ClientConnectProofs -------------------------
(***************************************************************************)
(* Proofs about the REST rendezvous, for any number of requests, clients,  *)
(* sessions and ids: ResponseRouted, NoDanglingChannel and                 *)
(* SoleRequestSafe.  ConnectInv is the inductive invariant.  Each of its   *)
(* parts has a lemma that says every step preserves it, with one step per  *)
(* action that changes what the part speaks of.  Then, that the map of     *)
(* connections implements PeerDirectory, and, with AskInv besides, that    *)
(* the handlers implement Rendezvous.                                      *)
(***************************************************************************)
EXTENDS ClientConnectProps, TLAPS

\* What an active request finds stored for its client is a channel or nothing.
LEMMA FoundType ==
    ASSUME TypeOK, ActiveHasSession, NEW r \in Request, Active(r)
    PROVE  Found(r) \in Request \cup {None}
<1>1. sess[r] \in Session
  BY DEF ActiveHasSession
<1>2. chans[sess[r]] \in [Client -> Request \cup {None}]
  BY <1>1 DEF TypeOK
<1>3. ClientOf[r] \in Client
  BY ConnectAssumption
<1> QED
  BY <1>2, <1>3 DEF Found

\* Every step keeps every variable in its type.
LEMMA TypeStep ==
    TypeOK /\ ActiveHasSession /\ [Next]_vars => TypeOK'
<1> SUFFICES ASSUME TypeOK, ActiveHasSession, [Next]_vars
             PROVE  TypeOK'
  OBVIOUS
<1> USE ConnectAssumption DEF TypeOK, RequestState, chanVars, requestVars,
         edgeVars, ActiveHasSession, Active, Message
<1>1. ASSUME NEW r \in Request, ReqLock(r) PROVE TypeOK'
  BY <1>1 DEF ReqLock
<1>2. ASSUME NEW r \in Request, ReqRefused(r) PROVE TypeOK'
  <2>1. CASE Refuse(r, "notOnline")
    BY <2>1 DEF Refuse
  <2>2. CASE Refuse(r, "notEdge")
    BY <2>2 DEF Refuse
  <2> QED
    BY <1>2, <2>1, <2>2 DEF ReqRefused
<1>3. ASSUME NEW r \in Request, ReqSetup(r) PROVE TypeOK'
  BY <1>3 DEF ReqSetup, InFlight
<1>4. ASSUME NEW r \in Request, ReqSend(r) PROVE TypeOK'
  <2>1. Reaches(r) \subseteq Session
    BY <1>4 DEF ReqSend, Reaches
  <2> QED
    BY <1>4, <2>1 DEF ReqSend
<1>5. ASSUME NEW r \in Request, ReqSendFails(r) \/ ReqSendPanics(r)
      PROVE  TypeOK'
  <2>1. CASE ReqSendFails(r)
    BY <2>1 DEF ReqSendFails, Leave
  <2>2. CASE ReqSendPanics(r)
    BY <2>2 DEF ReqSendPanics, Leave
  <2> QED
    BY <1>5, <2>1, <2>2
<1>6. ASSUME NEW r \in Request, ReqReceive(r) PROVE TypeOK'
  BY <1>6 DEF ReqReceive
<1>7. ASSUME NEW r \in Request, ReqReceivesNil(r) PROVE TypeOK'
  BY <1>7 DEF ReqReceivesNil, Leave
<1>8. ASSUME NEW r \in Request, ReqTimeout(r) PROVE TypeOK'
  BY <1>8 DEF ReqTimeout, Leave
<1>9. ASSUME NEW r \in Request, ReqLockCleanup(r) PROVE TypeOK'
  BY <1>9 DEF ReqLockCleanup
<1>10. ASSUME NEW r \in Request, ReqClose(r) PROVE TypeOK'
  BY <1>10 DEF ReqClose, Found
<1>11. ASSUME NEW r \in Request, ReqDelete(r) PROVE TypeOK'
  BY <1>11 DEF ReqDelete
<1>12. ASSUME NEW r \in Request, ReqClosePanics(r) PROVE TypeOK'
  BY <1>12 DEF ReqClosePanics
<1>13. ASSUME NEW e \in Session, EdgeConnect(e) PROVE TypeOK'
  BY <1>13 DEF EdgeConnect
<1>14. ASSUME NEW e \in Session, NEW k \in Client, EdgeResponse(e, k)
      PROVE  TypeOK'
  <2>1. CASE UNCHANGED <<pcE, msg, tgt>>
    BY <1>14, <2>1 DEF EdgeResponse
  <2>2. CASE /\ pcE' = [pcE EXCEPT ![e] = "sending"]
             /\ msg' = [msg EXCEPT ![e] = [from |-> e, to |-> k]]
             /\ tgt' = [tgt EXCEPT ![e] = WaitingChannel(e, k)]
             /\ WaitingChannel(e, k) # None
    <3>1. WaitingChannel(e, k) \in Request
      BY <2>2 DEF WaitingChannel
    <3>2. [from |-> e, to |-> k] \in Message
      BY DEF Message
    <3> QED
      BY <1>14, <2>2, <3>1, <3>2 DEF EdgeResponse
  <2> QED
    BY <1>14, <2>1, <2>2 DEF EdgeResponse
<1>15. CASE Dies
  BY <1>15 DEF Dies
<1>16. ASSUME NEW e \in Session, EdgeDeliver(e) PROVE TypeOK'
  BY <1>16 DEF EdgeDeliver, EdgeBackToReading
<1>17. ASSUME NEW e \in Session, EdgeSendTimeout(e) PROVE TypeOK'
  BY <1>17 DEF EdgeSendTimeout, EdgeBackToReading
<1>18. ASSUME NEW e \in Session, EdgeSendPanics(e) PROVE TypeOK'
  BY <1>18 DEF EdgeSendPanics
<1>19. ASSUME NEW e \in Session, EdgeDrop(e) PROVE TypeOK'
  BY <1>19 DEF EdgeDrop
<1>20. ASSUME NEW e \in Session, EdgeCleanup(e) PROVE TypeOK'
  BY <1>20 DEF EdgeCleanup
<1>21. ASSUME NEW i \in Id, Reap(i) PROVE TypeOK'
  BY <1>21 DEF Reap
<1>22. CASE StopRequested
  BY <1>22 DEF StopRequested
<1>23. CASE StopCloses
  BY <1>23 DEF StopCloses
<1>24. CASE UNCHANGED vars
  BY <1>24 DEF vars, chanVars, requestVars, edgeVars
<1> QED
  BY <1>1, <1>2, <1>3, <1>4, <1>5, <1>6, <1>7, <1>8, <1>9, <1>10, <1>11, <1>12,
     <1>13, <1>14, <1>15, <1>16, <1>17, <1>18, <1>19, <1>20, <1>21, <1>22,
     <1>23, <1>24 DEF Next, RequestStep, SessionStep, EdgeResponseRaces,
     PingPanics

\* A critical section is entered when s.mu is free and left by freeing it.
LEMMA LockStep ==
    TypeOK /\ LockHeld /\ [Next]_vars => LockHeld'
<1> SUFFICES ASSUME TypeOK, LockHeld, [Next]_vars
             PROVE  LockHeld'
  OBVIOUS
<1> USE ConnectAssumption DEF TypeOK, RequestState, chanVars, requestVars,
         edgeVars, LockHeld
<1>1. ASSUME NEW r \in Request, ReqLock(r) PROVE LockHeld'
  BY <1>1 DEF ReqLock
<1>2. ASSUME NEW r \in Request, ReqRefused(r) PROVE LockHeld'
  BY <1>2 DEF ReqRefused, Refuse
<1>3. ASSUME NEW r \in Request, ReqSetup(r) PROVE LockHeld'
  BY <1>3 DEF ReqSetup
<1>4. ASSUME NEW r \in Request, ReqSend(r) PROVE LockHeld'
  BY <1>4 DEF ReqSend
<1>5. ASSUME NEW r \in Request, ReqSendFails(r) \/ ReqSendPanics(r)
      PROVE  LockHeld'
  BY <1>5 DEF ReqSendFails, ReqSendPanics, Leave
<1>6. ASSUME NEW r \in Request, ReqReceive(r) PROVE LockHeld'
  BY <1>6 DEF ReqReceive
<1>7. ASSUME NEW r \in Request, ReqReceivesNil(r) PROVE LockHeld'
  BY <1>7 DEF ReqReceivesNil, Leave
<1>8. ASSUME NEW r \in Request, ReqTimeout(r) PROVE LockHeld'
  BY <1>8 DEF ReqTimeout, Leave
<1>9. ASSUME NEW r \in Request, ReqLockCleanup(r) PROVE LockHeld'
  BY <1>9 DEF ReqLockCleanup
<1>10. ASSUME NEW r \in Request, ReqClose(r) PROVE LockHeld'
  BY <1>10 DEF ReqClose
<1>11. ASSUME NEW r \in Request, ReqDelete(r) PROVE LockHeld'
  BY <1>11 DEF ReqDelete
<1>12. ASSUME NEW r \in Request, ReqClosePanics(r) PROVE LockHeld'
  BY <1>12 DEF ReqClosePanics
<1>13. CASE Dies
  BY <1>13 DEF Dies
<1>14. CASE UNCHANGED <<mu, pcR>>
  BY <1>14
<1> QED
  BY <1>1, <1>2, <1>3, <1>4, <1>5, <1>6, <1>7, <1>8, <1>9, <1>10, <1>11, <1>12,
     <1>13, <1>14 DEF Next, RequestStep, SessionStep, EdgeResponseRaces,
     PingPanics, EdgeConnect,
     EdgeResponse, EdgeDeliver, EdgeBackToReading, EdgeSendTimeout,
     EdgeSendPanics, EdgeDrop, EdgeCleanup, Reap, StopRequested, StopCloses,
     vars

\* A request that sends has found a session.
LEMMA SessionStepLemma ==
    TypeOK /\ ActiveHasSession /\ [Next]_vars => ActiveHasSession'
<1> SUFFICES ASSUME TypeOK, ActiveHasSession, [Next]_vars
             PROVE  ActiveHasSession'
  OBVIOUS
<1> USE ConnectAssumption DEF TypeOK, RequestState, chanVars, requestVars,
         edgeVars, ActiveHasSession, Active
<1>1. ASSUME NEW r \in Request, ReqLock(r) PROVE ActiveHasSession'
  BY <1>1 DEF ReqLock
<1>2. ASSUME NEW r \in Request, ReqRefused(r) PROVE ActiveHasSession'
  BY <1>2 DEF ReqRefused, Refuse
<1>3. ASSUME NEW r \in Request, ReqSetup(r) PROVE ActiveHasSession'
  BY <1>3 DEF ReqSetup
<1>4. ASSUME NEW r \in Request, ReqSend(r) PROVE ActiveHasSession'
  BY <1>4 DEF ReqSend
<1>5. ASSUME NEW r \in Request, ReqSendFails(r) \/ ReqSendPanics(r)
      PROVE  ActiveHasSession'
  BY <1>5 DEF ReqSendFails, ReqSendPanics, Leave
<1>6. ASSUME NEW r \in Request, ReqReceive(r) PROVE ActiveHasSession'
  BY <1>6 DEF ReqReceive
<1>7. ASSUME NEW r \in Request, ReqReceivesNil(r) PROVE ActiveHasSession'
  BY <1>7 DEF ReqReceivesNil, Leave
<1>8. ASSUME NEW r \in Request, ReqTimeout(r) PROVE ActiveHasSession'
  BY <1>8 DEF ReqTimeout, Leave
<1>9. ASSUME NEW r \in Request, ReqLockCleanup(r) PROVE ActiveHasSession'
  BY <1>9 DEF ReqLockCleanup
<1>10. ASSUME NEW r \in Request, ReqClose(r) PROVE ActiveHasSession'
  BY <1>10 DEF ReqClose
<1>11. ASSUME NEW r \in Request, ReqDelete(r) PROVE ActiveHasSession'
  BY <1>11 DEF ReqDelete
<1>12. ASSUME NEW r \in Request, ReqClosePanics(r) PROVE ActiveHasSession'
  BY <1>12 DEF ReqClosePanics
<1>13. CASE Dies
  BY <1>13 DEF Dies
<1>14. CASE UNCHANGED <<pcR, sess>>
  BY <1>14
<1> QED
  BY <1>1, <1>2, <1>3, <1>4, <1>5, <1>6, <1>7, <1>8, <1>9, <1>10, <1>11, <1>12,
     <1>13, <1>14 DEF Next, RequestStep, SessionStep, EdgeResponseRaces,
     PingPanics, EdgeConnect,
     EdgeResponse, EdgeDeliver, EdgeBackToReading, EdgeSendTimeout,
     EdgeSendPanics, EdgeDrop, EdgeCleanup, Reap, StopRequested, StopCloses,
     vars

\* What a clean-up closes is the open channel of a request that has not come
\* to its own clean-up, or its own.
LEMMA OpenFound ==
    ASSUME TypeOK, ActiveHasSession, NoDanglingChannel,
           NEW r \in Request, ReqClose(r)
    PROVE  /\ sess[r] \in Session
           /\ Found(r) \in Request \ chClosed
           /\ sess[Found(r)] = sess[r] /\ ClientOf[Found(r)] = ClientOf[r]
           /\ WillCleanUp(Found(r))
<1>1. Active(r) /\ Found(r) \notin chClosed \cup {None}
  BY DEF ReqClose, Active
<1>2. Found(r) \in Request \ chClosed
  BY <1>1, FoundType
<1>3. sess[r] \in Session /\ ClientOf[r] \in Client
  BY <1>1, ConnectAssumption DEF ActiveHasSession
<1> QED
  BY <1>2, <1>3 DEF NoDanglingChannel, Found

\* Only channels that are stored get closed, and they are of requests that
\* have passed the setup.
LEMMA ClosedStep ==
    TypeOK /\ ActiveHasSession /\ NoDanglingChannel /\ ClosedWasSent /\
    [Next]_vars => ClosedWasSent'
<1> SUFFICES ASSUME TypeOK, ActiveHasSession, NoDanglingChannel, ClosedWasSent, [Next]_vars
             PROVE  ClosedWasSent'
  OBVIOUS
<1> USE ConnectAssumption DEF TypeOK, RequestState, chanVars, requestVars,
         edgeVars, ClosedWasSent, Sent
<1>1. ASSUME NEW r \in Request, ReqLock(r) PROVE ClosedWasSent'
  BY <1>1 DEF ReqLock
<1>2. ASSUME NEW r \in Request, ReqRefused(r) PROVE ClosedWasSent'
  BY <1>2 DEF ReqRefused, Refuse
<1>3. ASSUME NEW r \in Request, ReqSetup(r) PROVE ClosedWasSent'
  BY <1>3 DEF ReqSetup
<1>4. ASSUME NEW r \in Request, ReqSend(r) PROVE ClosedWasSent'
  BY <1>4 DEF ReqSend
<1>5. ASSUME NEW r \in Request, ReqSendFails(r) \/ ReqSendPanics(r)
      PROVE  ClosedWasSent'
  BY <1>5 DEF ReqSendFails, ReqSendPanics, Leave
<1>6. ASSUME NEW r \in Request, ReqReceive(r) PROVE ClosedWasSent'
  BY <1>6 DEF ReqReceive
<1>7. ASSUME NEW r \in Request, ReqReceivesNil(r) PROVE ClosedWasSent'
  BY <1>7 DEF ReqReceivesNil, Leave
<1>8. ASSUME NEW r \in Request, ReqTimeout(r) PROVE ClosedWasSent'
  BY <1>8 DEF ReqTimeout, Leave
<1>9. ASSUME NEW r \in Request, ReqLockCleanup(r) PROVE ClosedWasSent'
  BY <1>9 DEF ReqLockCleanup
<1>10. ASSUME NEW r \in Request, ReqClose(r) PROVE ClosedWasSent'
  <2>1. Found(r) \in Request /\ WillCleanUp(Found(r))
    BY <1>10, OpenFound
  <2> QED
    BY <1>10, <2>1 DEF ReqClose, WillCleanUp
<1>11. ASSUME NEW r \in Request, ReqDelete(r) PROVE ClosedWasSent'
  BY <1>11 DEF ReqDelete
<1>12. ASSUME NEW r \in Request, ReqClosePanics(r) PROVE ClosedWasSent'
  BY <1>12 DEF ReqClosePanics
<1>13. CASE Dies
  BY <1>13 DEF Dies
<1>14. CASE UNCHANGED <<pcR, chClosed>>
  BY <1>14
<1> QED
  BY <1>1, <1>2, <1>3, <1>4, <1>5, <1>6, <1>7, <1>8, <1>9, <1>10, <1>11, <1>12,
     <1>13, <1>14 DEF Next, RequestStep, SessionStep, EdgeResponseRaces,
     PingPanics, EdgeConnect,
     EdgeResponse, EdgeDeliver, EdgeBackToReading, EdgeSendTimeout,
     EdgeSendPanics, EdgeDrop, EdgeCleanup, Reap, StopRequested, StopCloses,
     vars

(* A channel is stored at one place only, so that deleting it there        *)
(* deletes it everywhere; and a new one is not closed yet.                 *)
LEMMA ChannelStep ==
    TypeOK /\ LockHeld /\ ActiveHasSession /\ ClosedWasSent
    /\ NoDanglingChannel /\ [Next]_vars => NoDanglingChannel'
<1> DEFINE Held(e, k, r) ==
               /\ sess[r] = e /\ ClientOf[r] = k
               /\ IF r \in chClosed THEN Deleting(e, k) ELSE WillCleanUp(r)
<1> SUFFICES ASSUME TypeOK, LockHeld, ActiveHasSession, ClosedWasSent,
                    NoDanglingChannel, [Next]_vars,
                    NEW e0 \in Session, NEW k0 \in Client,
                    NEW r0 \in Request, chans'[e0][k0] = r0
             PROVE  Held(e0, k0, r0)'
  BY DEF NoDanglingChannel
<1> USE DEF chanVars, requestVars, edgeVars, Deleting, WillCleanUp
<1>1. /\ pcR \in [Request -> RequestState]
      /\ sess \in [Request -> Session \cup {None}]
      /\ chans \in [Session -> [Client -> Request \cup {None}]]
      /\ None \notin Request
  BY ConnectAssumption DEF TypeOK
<1>2. chans[e0][k0] = r0 => Held(e0, k0, r0)
  BY DEF NoDanglingChannel
<1>3. CASE UNCHANGED <<mu, chans, chClosed, sess, pcR>>
  BY <1>2, <1>3
\* While r holds s.mu and is not deleting, nobody is.
<1>4. ASSUME NEW r \in Request, mu = r, pcR[r] # "deleting"
      PROVE  chans[e0][k0] = r0 => r0 \notin chClosed /\ WillCleanUp(r0)
  BY <1>2, <1>4
<1>5. ASSUME NEW r \in Request,
             \/ ReqLock(r) \/ ReqRefused(r) \/ ReqSend(r) \/ ReqSendFails(r)
             \/ ReqSendPanics(r) \/ ReqReceive(r) \/ ReqReceivesNil(r)
             \/ ReqTimeout(r) \/ ReqLockCleanup(r)
      PROVE  Held(e0, k0, r0)'
  <2>1. UNCHANGED <<chans, chClosed, sess>>
    BY <1>5 DEF ReqLock, ReqRefused, Refuse, ReqSend, ReqSendFails,
       ReqSendPanics, Leave, ReqReceive, ReqReceivesNil, ReqTimeout,
       ReqLockCleanup
  <2>2. WillCleanUp(r0) => WillCleanUp(r0)'
    BY <1>1, <1>5 DEF ReqLock, ReqRefused, Refuse, ReqSend, ReqSendFails,
       ReqSendPanics, Leave, ReqReceive, ReqReceivesNil, ReqTimeout,
       ReqLockCleanup
  <2>3. ASSUME NEW q \in Request, pcR[q] = "deleting", mu = q
        PROVE  pcR'[q] = "deleting" /\ mu' = q
    BY <1>1, <1>5, <2>3 DEF LockHeld, ReqLock, ReqRefused, Refuse, ReqSend,
       ReqSendFails, ReqSendPanics, Leave, ReqReceive, ReqReceivesNil,
       ReqTimeout, ReqLockCleanup
  <2>4. Deleting(e0, k0) => Deleting(e0, k0)'
    BY <2>1, <2>3
  <2> QED
    BY <1>2, <2>1, <2>2, <2>4
<1>6. ASSUME NEW r \in Request, ReqSetup(r) PROVE Held(e0, k0, r0)'
  <2>1. mu = r /\ pcR[r] = "locked" /\ r \notin chClosed
    BY <1>6 DEF ReqSetup, LockHeld, ClosedWasSent, Sent
  <2>2. CASE r0 = r
    <3>1. chans[e0][k0] # r
      BY <1>4, <2>1, <2>2
    <3>2. e0 = online[EdgeIdOf[r]] /\ k0 = ClientOf[r]
      BY <1>1, <1>6, <2>2, <3>1, ConnectAssumption DEF ReqSetup
    <3> QED
      BY <1>1, <1>6, <2>1, <2>2, <3>2 DEF ReqSetup
  <2>3. CASE r0 # r
    <3>1. chans[e0][k0] = r0
      BY <1>1, <1>6, <2>3, ConnectAssumption DEF ReqSetup
    <3>2. sess[r0] = e0 /\ ClientOf[r0] = k0 /\ r0 \notin chClosed /\ WillCleanUp(r0)
      BY <1>2, <1>4, <2>1, <3>1
    <3> QED
      BY <1>1, <1>6, <2>3, <3>2 DEF ReqSetup
  <2> QED
    BY <2>2, <2>3
<1>7. ASSUME NEW r \in Request, ReqClose(r) PROVE Held(e0, k0, r0)'
  <2>1. mu = r /\ pcR[r] = "cleaning" /\ chans[e0][k0] = r0
    BY <1>7 DEF ReqClose, LockHeld
  <2>2. sess[r0] = e0 /\ ClientOf[r0] = k0 /\ r0 \notin chClosed /\ WillCleanUp(r0)
    BY <1>2, <1>4, <2>1
  <2>3. /\ sess' = sess /\ mu' = r /\ chClosed' = chClosed \cup {Found(r)}
        /\ pcR' = [pcR EXCEPT ![r] = "deleting"]
    BY <1>7, <2>1 DEF ReqClose
  <2>4. CASE e0 = sess[r] /\ k0 = ClientOf[r]
    <3>1. Found(r) = r0
      BY <2>1, <2>4 DEF Found
    <3> QED
      BY <1>1, <2>2, <2>3, <2>4, <3>1
  <2>5. CASE ~(e0 = sess[r] /\ k0 = ClientOf[r])
    <3>1. r0 # Found(r) /\ r0 # r
      BY <1>7, <2>2, <2>5, OpenFound
    <3> QED
      BY <1>1, <2>2, <2>3, <3>1
  <2> QED
    BY <2>4, <2>5
<1>8. ASSUME NEW r \in Request, ReqDelete(r) PROVE Held(e0, k0, r0)'
  <2>1. mu = r /\ pcR[r] = "deleting" /\ sess[r] \in Session
    BY <1>8 DEF ReqDelete, LockHeld, ActiveHasSession, Active
  <2>2. ~(e0 = sess[r] /\ k0 = ClientOf[r]) /\ chans[e0][k0] = r0
    BY <1>1, <1>8, <2>1, ConnectAssumption DEF ReqDelete
  <2>3. r0 # r /\ r0 \notin chClosed /\ sess[r0] = e0 /\ ClientOf[r0] = k0 /\ WillCleanUp(r0)
    BY <1>2, <2>1, <2>2
  <2> QED
    BY <1>1, <1>8, <2>3 DEF ReqDelete
<1>9. ASSUME NEW r \in Request, ReqClosePanics(r) PROVE Held(e0, k0, r0)'
  <2>1. mu = r /\ pcR[r] = "cleaning" /\ chans[e0][k0] = r0
    BY <1>9 DEF ReqClosePanics, LockHeld
  <2>2. sess[r0] = e0 /\ ClientOf[r0] = k0 /\ r0 \notin chClosed /\ WillCleanUp(r0)
    BY <1>2, <1>4, <2>1
  <2>3. r0 # r
    BY <1>9, <2>1, <2>2, <1>1 DEF ReqClosePanics, Found
  <2> QED
    BY <1>1, <1>9, <2>2, <2>3 DEF ReqClosePanics
<1>10. CASE Dies
  BY <1>1, <1>10 DEF Dies
<1> QED
  BY <1>3, <1>5, <1>6, <1>7, <1>8, <1>9, <1>10
     DEF Next, RequestStep, SessionStep, EdgeResponseRaces, PingPanics,
        EdgeConnect, EdgeResponse, EdgeDeliver, EdgeSendTimeout,
        EdgeBackToReading, EdgeSendPanics, EdgeDrop, EdgeCleanup, Reap,
        StopRequested, StopCloses, vars

\* Between its close and its delete a clean-up holds s.mu, and nobody else
\* stores or deletes anything.
LEMMA DeleteStep ==
    TypeOK /\ LockHeld /\ ActiveHasSession /\ DeletesClosed /\ [Next]_vars =>
    DeletesClosed'
<1> SUFFICES ASSUME TypeOK, LockHeld, ActiveHasSession, DeletesClosed, [Next]_vars
             PROVE  DeletesClosed'
  OBVIOUS
<1> USE ConnectAssumption DEF TypeOK, RequestState, chanVars, requestVars,
         edgeVars, LockHeld, DeletesClosed, Found
<1>1. ASSUME NEW r \in Request, ReqLock(r) PROVE DeletesClosed'
  BY <1>1 DEF ReqLock
<1>2. ASSUME NEW r \in Request, ReqRefused(r) PROVE DeletesClosed'
  BY <1>2 DEF ReqRefused, Refuse
<1>3. ASSUME NEW r \in Request, ReqSetup(r) PROVE DeletesClosed'
  BY <1>3 DEF ReqSetup
<1>4. ASSUME NEW r \in Request, ReqSend(r) PROVE DeletesClosed'
  BY <1>4 DEF ReqSend
<1>5. ASSUME NEW r \in Request, ReqSendFails(r) \/ ReqSendPanics(r)
      PROVE  DeletesClosed'
  BY <1>5 DEF ReqSendFails, ReqSendPanics, Leave
<1>6. ASSUME NEW r \in Request, ReqReceive(r) PROVE DeletesClosed'
  BY <1>6 DEF ReqReceive
<1>7. ASSUME NEW r \in Request, ReqReceivesNil(r) PROVE DeletesClosed'
  BY <1>7 DEF ReqReceivesNil, Leave
<1>8. ASSUME NEW r \in Request, ReqTimeout(r) PROVE DeletesClosed'
  BY <1>8 DEF ReqTimeout, Leave
<1>9. ASSUME NEW r \in Request, ReqLockCleanup(r) PROVE DeletesClosed'
  BY <1>9 DEF ReqLockCleanup
<1>10. ASSUME NEW r \in Request, ReqClose(r) PROVE DeletesClosed'
  BY <1>10 DEF ReqClose
<1>11. ASSUME NEW r \in Request, ReqDelete(r) PROVE DeletesClosed'
  BY <1>11 DEF ReqDelete
<1>12. ASSUME NEW r \in Request, ReqClosePanics(r) PROVE DeletesClosed'
  BY <1>12 DEF ReqClosePanics
<1>13. CASE Dies
  BY <1>13 DEF Dies
<1>14. CASE UNCHANGED <<pcR, sess, chans, chClosed>>
  BY <1>14
<1> QED
  BY <1>1, <1>2, <1>3, <1>4, <1>5, <1>6, <1>7, <1>8, <1>9, <1>10, <1>11, <1>12,
     <1>13, <1>14 DEF Next, RequestStep, SessionStep, EdgeResponseRaces,
     PingPanics, EdgeConnect,
     EdgeResponse, EdgeDeliver, EdgeBackToReading, EdgeSendTimeout,
     EdgeSendPanics, EdgeDrop, EdgeCleanup, Reap, StopRequested, StopCloses,
     vars

(* The setup records every request it meets; one that is cleaning up holds *)
(* s.mu, so the setup meets none that it does not record.                  *)
LEMMA AloneStep ==
    TypeOK /\ LockHeld /\ SoleIsAlone /\ [Next]_vars => SoleIsAlone'
<1> SUFFICES ASSUME TypeOK, LockHeld, SoleIsAlone, [Next]_vars
             PROVE  SoleIsAlone'
  OBVIOUS
<1> USE ConnectAssumption DEF TypeOK, RequestState, chanVars, requestVars,
         edgeVars, LockHeld, SoleIsAlone, Active
<1>1. ASSUME NEW r \in Request, ReqLock(r) PROVE SoleIsAlone'
  BY <1>1 DEF ReqLock
<1>2. ASSUME NEW r \in Request, ReqRefused(r) PROVE SoleIsAlone'
  <2>1. CASE Refuse(r, "notOnline")
    BY <2>1 DEF Refuse
  <2>2. CASE Refuse(r, "notEdge")
    BY <2>2 DEF Refuse
  <2> QED
    BY <1>2, <2>1, <2>2 DEF ReqRefused
<1>3. ASSUME NEW r \in Request, ReqSetup(r) PROVE SoleIsAlone'
  BY <1>3 DEF ReqSetup, InFlight
<1>4. ASSUME NEW r \in Request, ReqSend(r) PROVE SoleIsAlone'
  BY <1>4 DEF ReqSend
<1>5. ASSUME NEW r \in Request, ReqSendFails(r) \/ ReqSendPanics(r)
      PROVE  SoleIsAlone'
  BY <1>5 DEF ReqSendFails, ReqSendPanics, Leave
<1>6. ASSUME NEW r \in Request, ReqReceive(r) PROVE SoleIsAlone'
  BY <1>6 DEF ReqReceive
<1>7. ASSUME NEW r \in Request, ReqReceivesNil(r) PROVE SoleIsAlone'
  BY <1>7 DEF ReqReceivesNil, Leave
<1>8. ASSUME NEW r \in Request, ReqTimeout(r) PROVE SoleIsAlone'
  BY <1>8 DEF ReqTimeout, Leave
<1>9. ASSUME NEW r \in Request, ReqLockCleanup(r) PROVE SoleIsAlone'
  BY <1>9 DEF ReqLockCleanup
<1>10. ASSUME NEW r \in Request, ReqClose(r) PROVE SoleIsAlone'
  BY <1>10 DEF ReqClose
<1>11. ASSUME NEW r \in Request, ReqDelete(r) PROVE SoleIsAlone'
  BY <1>11 DEF ReqDelete
<1>12. ASSUME NEW r \in Request, ReqClosePanics(r) PROVE SoleIsAlone'
  BY <1>12 DEF ReqClosePanics
<1>13. CASE Dies
  BY <1>13 DEF Dies
<1>14. CASE UNCHANGED <<pcR, sess, overlapped>>
  BY <1>14
<1> QED
  BY <1>1, <1>2, <1>3, <1>4, <1>5, <1>6, <1>7, <1>8, <1>9, <1>10, <1>11, <1>12,
     <1>13, <1>14 DEF Next, RequestStep, SessionStep, EdgeResponseRaces,
     PingPanics, EdgeConnect,
     EdgeResponse, EdgeDeliver, EdgeBackToReading, EdgeSendTimeout,
     EdgeSendPanics, EdgeDrop, EdgeCleanup, Reap, StopRequested, StopCloses,
     vars

(* Nobody else stores, deletes or closes anything at the place of a request *)
(* that is alone there.                                                    *)
LEMMA SafeStep ==
    TypeOK /\ LockHeld /\ ActiveHasSession /\ ClosedWasSent /\
    NoDanglingChannel /\ SoleIsAlone /\ SoleRequestSafe /\ [Next]_vars =>
    SoleRequestSafe'
<1> SUFFICES ASSUME TypeOK, LockHeld, ActiveHasSession, ClosedWasSent, NoDanglingChannel,
                    SoleIsAlone, SoleRequestSafe, [Next]_vars
             PROVE  SoleRequestSafe'
  OBVIOUS
<1> USE ConnectAssumption DEF TypeOK, RequestState, chanVars, requestVars,
         edgeVars, LockHeld, ActiveHasSession, Active, ClosedWasSent, Sent,
         NoDanglingChannel, SoleIsAlone, SoleRequestSafe, Found, WillCleanUp
<1>1. ASSUME NEW r \in Request, ReqLock(r) PROVE SoleRequestSafe'
  BY <1>1 DEF ReqLock
<1>2. ASSUME NEW r \in Request, ReqRefused(r) PROVE SoleRequestSafe'
  BY <1>2 DEF ReqRefused, Refuse
<1>3. ASSUME NEW r \in Request, ReqSetup(r) PROVE SoleRequestSafe'
  BY <1>3 DEF ReqSetup, InFlight
<1>4. ASSUME NEW r \in Request, ReqSend(r) PROVE SoleRequestSafe'
  BY <1>4 DEF ReqSend
<1>5. ASSUME NEW r \in Request, ReqSendFails(r) \/ ReqSendPanics(r)
      PROVE  SoleRequestSafe'
  BY <1>5 DEF ReqSendFails, ReqSendPanics, Leave
<1>6. ASSUME NEW r \in Request, ReqReceive(r) PROVE SoleRequestSafe'
  BY <1>6 DEF ReqReceive
<1>7. ASSUME NEW r \in Request, ReqReceivesNil(r) PROVE SoleRequestSafe'
  BY <1>7 DEF ReqReceivesNil, Leave
<1>8. ASSUME NEW r \in Request, ReqTimeout(r) PROVE SoleRequestSafe'
  BY <1>8 DEF ReqTimeout, Leave
<1>9. ASSUME NEW r \in Request, ReqLockCleanup(r) PROVE SoleRequestSafe'
  BY <1>9 DEF ReqLockCleanup
<1>10. ASSUME NEW r \in Request, ReqClose(r) PROVE SoleRequestSafe'
  <2>1. /\ Found(r) \in Request /\ WillCleanUp(Found(r))
        /\ sess[Found(r)] = sess[r] /\ ClientOf[Found(r)] = ClientOf[r]
    BY <1>10, OpenFound
  <2>2. \A q \in Request \ {r} : q \notin overlapped => q # Found(r)
    BY <1>10, <2>1 DEF ReqClose
  <2> QED
    BY <1>10, <2>2 DEF ReqClose
<1>11. ASSUME NEW r \in Request, ReqDelete(r) PROVE SoleRequestSafe'
  BY <1>11 DEF ReqDelete
<1>12. ASSUME NEW r \in Request, ReqClosePanics(r) PROVE SoleRequestSafe'
  BY <1>12 DEF ReqClosePanics
<1>13. CASE Dies
  BY <1>13 DEF Dies
<1>14. CASE UNCHANGED <<pcR, sess, result, chans, chClosed, overlapped>>
  BY <1>14
<1> QED
  BY <1>1, <1>2, <1>3, <1>4, <1>5, <1>6, <1>7, <1>8, <1>9, <1>10, <1>11, <1>12,
     <1>13, <1>14 DEF Next, RequestStep, SessionStep, EdgeResponseRaces,
     PingPanics, EdgeConnect,
     EdgeResponse, EdgeDeliver, EdgeBackToReading, EdgeSendTimeout,
     EdgeSendPanics, EdgeDrop, EdgeCleanup, Reap, StopRequested, StopCloses,
     vars

\* What the unlocked lookup finds is a channel of the same session.
LEMMA TargetStep ==
    TypeOK /\ ClosedWasSent /\ NoDanglingChannel /\ TargetsRouted
    /\ [Next]_vars => TargetsRouted'
<1> SUFFICES ASSUME TypeOK, ClosedWasSent, NoDanglingChannel, TargetsRouted,
                    [Next]_vars
             PROVE  TargetsRouted'
  OBVIOUS
<1> USE ConnectAssumption DEF TypeOK, RequestState, chanVars, requestVars,
         edgeVars, NoDanglingChannel, TargetsRouted, Sent, Answers
<1>1. ASSUME NEW r \in Request, ReqLock(r) PROVE TargetsRouted'
  BY <1>1 DEF ReqLock
<1>2. ASSUME NEW r \in Request, ReqRefused(r) PROVE TargetsRouted'
  BY <1>2 DEF ReqRefused, Refuse
<1>3. ASSUME NEW r \in Request, ReqSetup(r) PROVE TargetsRouted'
  BY <1>3 DEF ReqSetup
<1>4. ASSUME NEW r \in Request, ReqSend(r) PROVE TargetsRouted'
  BY <1>4 DEF ReqSend
<1>5. ASSUME NEW r \in Request, ReqSendFails(r) \/ ReqSendPanics(r)
      PROVE  TargetsRouted'
  BY <1>5 DEF ReqSendFails, ReqSendPanics, Leave
<1>6. ASSUME NEW r \in Request, ReqReceive(r) PROVE TargetsRouted'
  BY <1>6 DEF ReqReceive
<1>7. ASSUME NEW r \in Request, ReqReceivesNil(r) PROVE TargetsRouted'
  BY <1>7 DEF ReqReceivesNil, Leave
<1>8. ASSUME NEW r \in Request, ReqTimeout(r) PROVE TargetsRouted'
  BY <1>8 DEF ReqTimeout, Leave
<1>9. ASSUME NEW r \in Request, ReqLockCleanup(r) PROVE TargetsRouted'
  BY <1>9 DEF ReqLockCleanup
<1>10. ASSUME NEW r \in Request, ReqClose(r) PROVE TargetsRouted'
  BY <1>10 DEF ReqClose
<1>11. ASSUME NEW r \in Request, ReqDelete(r) PROVE TargetsRouted'
  BY <1>11 DEF ReqDelete
<1>12. ASSUME NEW r \in Request, ReqClosePanics(r) PROVE TargetsRouted'
  BY <1>12 DEF ReqClosePanics
<1>13. ASSUME NEW e \in Session, EdgeConnect(e) PROVE TargetsRouted'
  BY <1>13 DEF EdgeConnect
<1>14. ASSUME NEW e \in Session, NEW k \in Client, EdgeResponse(e, k)
      PROVE  TargetsRouted'
  <2>1. CASE UNCHANGED <<pcE, msg, tgt>>
    BY <1>14, <2>1 DEF EdgeResponse
  <2>2. CASE /\ pcE' = [pcE EXCEPT ![e] = "sending"]
             /\ msg' = [msg EXCEPT ![e] = [from |-> e, to |-> k]]
             /\ tgt' = [tgt EXCEPT ![e] = WaitingChannel(e, k)]
             /\ WaitingChannel(e, k) # None
    <3>1. WaitingChannel(e, k) \in Request
      BY <2>2 DEF WaitingChannel
    <3>2. /\ sess[WaitingChannel(e, k)] = e
          /\ ClientOf[WaitingChannel(e, k)] = k
          /\ Sent(WaitingChannel(e, k))
      <4> DEFINE c == WaitingChannel(e, k)
      <4>1. /\ sess[c] = e /\ ClientOf[c] = k
            /\ c \notin chClosed => WillCleanUp(c)
        BY <3>1 DEF WaitingChannel
      <4>2. c \in chClosed \/ WillCleanUp(c) => Sent(c)
        BY DEF ClosedWasSent, WillCleanUp
      <4> QED
        BY <4>1, <4>2
    <3>3. sess' = sess /\ pcR' = pcR
      BY <1>14 DEF EdgeResponse
    <3>4. SUFFICES ASSUME NEW d \in Session, pcE'[d] = "sending"
                   PROVE  /\ tgt'[d] \in Request
                          /\ Sent(tgt'[d]) /\ sess[tgt'[d]] = d
                          /\ msg'[d] = [from |-> d, to |-> ClientOf[tgt'[d]]]
      BY <3>3
    <3>5. CASE d = e
      <4>1. tgt'[e] = WaitingChannel(e, k) /\ msg'[e] = [from |-> e, to |-> k]
        BY <2>2
      <4> QED
        BY <3>1, <3>2, <3>5, <4>1
    <3>6. CASE d # e
      <4>1. pcE[d] = "sending" /\ tgt'[d] = tgt[d] /\ msg'[d] = msg[d]
        BY <2>2, <3>4, <3>6
      <4> QED
        BY <4>1
    <3> QED
      BY <3>5, <3>6
  <2> QED
    BY <1>14, <2>1, <2>2 DEF EdgeResponse
<1>15. CASE Dies
  BY <1>15 DEF Dies
<1>16. ASSUME NEW e \in Session, EdgeDeliver(e) PROVE TargetsRouted'
  BY <1>16 DEF EdgeDeliver, EdgeBackToReading
<1>17. ASSUME NEW e \in Session, EdgeSendTimeout(e) PROVE TargetsRouted'
  BY <1>17 DEF EdgeSendTimeout, EdgeBackToReading
<1>18. ASSUME NEW e \in Session, EdgeSendPanics(e) PROVE TargetsRouted'
  BY <1>18 DEF EdgeSendPanics
<1>19. ASSUME NEW e \in Session, EdgeDrop(e) PROVE TargetsRouted'
  BY <1>19 DEF EdgeDrop
<1>20. ASSUME NEW e \in Session, EdgeCleanup(e) PROVE TargetsRouted'
  BY <1>20 DEF EdgeCleanup
<1>21. CASE UNCHANGED <<pcE, tgt, msg, inbox, sess, pcR>>
  BY <1>21
<1> QED
  BY <1>1, <1>2, <1>3, <1>4, <1>5, <1>6, <1>7, <1>8, <1>9, <1>10, <1>11, <1>12,
     <1>13, <1>14, <1>15, <1>16, <1>17, <1>18, <1>19, <1>20, <1>21 DEF Next,
     RequestStep, SessionStep, EdgeResponseRaces,
     PingPanics, Reap, StopRequested, StopCloses, vars

\* A buffer is filled by a handler that found the channel.
LEMMA BufferStep ==
    TypeOK /\ TargetsRouted /\ BuffersRouted /\ [Next]_vars => BuffersRouted'
<1> SUFFICES ASSUME TypeOK, TargetsRouted, BuffersRouted, [Next]_vars
             PROVE  BuffersRouted'
  OBVIOUS
<1> USE ConnectAssumption DEF TypeOK, RequestState, chanVars, requestVars,
         edgeVars, TargetsRouted, BuffersRouted, Sent, Answers
<1>1. ASSUME NEW r \in Request, ReqLock(r) PROVE BuffersRouted'
  BY <1>1 DEF ReqLock
<1>2. ASSUME NEW r \in Request, ReqRefused(r) PROVE BuffersRouted'
  BY <1>2 DEF ReqRefused, Refuse
<1>3. ASSUME NEW r \in Request, ReqSetup(r) PROVE BuffersRouted'
  BY <1>3 DEF ReqSetup
<1>4. ASSUME NEW r \in Request, ReqSend(r) PROVE BuffersRouted'
  BY <1>4 DEF ReqSend
<1>5. ASSUME NEW r \in Request, ReqSendFails(r) \/ ReqSendPanics(r)
      PROVE  BuffersRouted'
  BY <1>5 DEF ReqSendFails, ReqSendPanics, Leave
<1>6. ASSUME NEW r \in Request, ReqReceive(r) PROVE BuffersRouted'
  BY <1>6 DEF ReqReceive
<1>7. ASSUME NEW r \in Request, ReqReceivesNil(r) PROVE BuffersRouted'
  BY <1>7 DEF ReqReceivesNil, Leave
<1>8. ASSUME NEW r \in Request, ReqTimeout(r) PROVE BuffersRouted'
  BY <1>8 DEF ReqTimeout, Leave
<1>9. ASSUME NEW r \in Request, ReqLockCleanup(r) PROVE BuffersRouted'
  BY <1>9 DEF ReqLockCleanup
<1>10. ASSUME NEW r \in Request, ReqClose(r) PROVE BuffersRouted'
  BY <1>10 DEF ReqClose
<1>11. ASSUME NEW r \in Request, ReqDelete(r) PROVE BuffersRouted'
  BY <1>11 DEF ReqDelete
<1>12. ASSUME NEW r \in Request, ReqClosePanics(r) PROVE BuffersRouted'
  BY <1>12 DEF ReqClosePanics
<1>13. CASE Dies
  BY <1>13 DEF Dies
<1>14. ASSUME NEW e \in Session, EdgeDeliver(e) PROVE BuffersRouted'
  BY <1>14 DEF EdgeDeliver, EdgeBackToReading
<1>15. CASE UNCHANGED <<buf, inbox, sess, pcR>>
  BY <1>15
<1> QED
  BY <1>1, <1>2, <1>3, <1>4, <1>5, <1>6, <1>7, <1>8, <1>9, <1>10, <1>11, <1>12,
     <1>13, <1>14, <1>15 DEF Next, RequestStep, SessionStep, EdgeResponseRaces,
     PingPanics, EdgeConnect,
     EdgeResponse, EdgeSendTimeout, EdgeBackToReading, EdgeSendPanics,
     EdgeDrop, EdgeCleanup, Reap, StopRequested, StopCloses, vars

\* A request receives what is in its own channel.
LEMMA ResultStep ==
    TypeOK /\ BuffersRouted /\ ResultsRouted /\ [Next]_vars => ResultsRouted'
<1> SUFFICES ASSUME TypeOK, BuffersRouted, ResultsRouted, [Next]_vars
             PROVE  ResultsRouted'
  OBVIOUS
<1> USE ConnectAssumption DEF TypeOK, RequestState, chanVars, requestVars,
         edgeVars, BuffersRouted, ResultsRouted, Sent, Answers
<1>1. ASSUME NEW r \in Request, ReqLock(r) PROVE ResultsRouted'
  BY <1>1 DEF ReqLock
<1>2. ASSUME NEW r \in Request, ReqRefused(r) PROVE ResultsRouted'
  BY <1>2 DEF ReqRefused, Refuse
<1>3. ASSUME NEW r \in Request, ReqSetup(r) PROVE ResultsRouted'
  BY <1>3 DEF ReqSetup
<1>4. ASSUME NEW r \in Request, ReqSend(r) PROVE ResultsRouted'
  BY <1>4 DEF ReqSend
<1>5. ASSUME NEW r \in Request, ReqSendFails(r) \/ ReqSendPanics(r)
      PROVE  ResultsRouted'
  BY <1>5 DEF ReqSendFails, ReqSendPanics, Leave
<1>6. ASSUME NEW r \in Request, ReqReceive(r) PROVE ResultsRouted'
  BY <1>6 DEF ReqReceive
<1>7. ASSUME NEW r \in Request, ReqReceivesNil(r) PROVE ResultsRouted'
  BY <1>7 DEF ReqReceivesNil, Leave
<1>8. ASSUME NEW r \in Request, ReqTimeout(r) PROVE ResultsRouted'
  BY <1>8 DEF ReqTimeout, Leave
<1>9. ASSUME NEW r \in Request, ReqLockCleanup(r) PROVE ResultsRouted'
  BY <1>9 DEF ReqLockCleanup
<1>10. ASSUME NEW r \in Request, ReqClose(r) PROVE ResultsRouted'
  BY <1>10 DEF ReqClose
<1>11. ASSUME NEW r \in Request, ReqDelete(r) PROVE ResultsRouted'
  BY <1>11 DEF ReqDelete
<1>12. ASSUME NEW r \in Request, ReqClosePanics(r) PROVE ResultsRouted'
  BY <1>12 DEF ReqClosePanics
<1>13. CASE Dies
  BY <1>13 DEF Dies
<1>14. CASE UNCHANGED <<result, got, inbox, sess, pcR>>
  BY <1>14
<1> QED
  BY <1>1, <1>2, <1>3, <1>4, <1>5, <1>6, <1>7, <1>8, <1>9, <1>10, <1>11, <1>12,
     <1>13, <1>14 DEF Next, RequestStep, SessionStep, EdgeResponseRaces,
     PingPanics, EdgeConnect,
     EdgeResponse, EdgeDeliver, EdgeBackToReading, EdgeSendTimeout,
     EdgeSendPanics, EdgeDrop, EdgeCleanup, Reap, StopRequested, StopCloses,
     vars

-----------------------------------------------------------------------------
\* ConnectInv is an invariant of the specification.
THEOREM ConnectInvariant == Spec => []ConnectInv
<1>1. Init => ConnectInv
  BY ConnectAssumption
     DEF Init, ConnectInv, TypeOK, RequestState, Message, LockHeld, ActiveHasSession, Active,
         ClosedWasSent, DeletesClosed, NoDanglingChannel, SoleIsAlone,
         SoleRequestSafe, WillCleanUp,
         TargetsRouted, BuffersRouted, ResultsRouted
<1>2. ConnectInv /\ [Next]_vars => ConnectInv'
  BY TypeStep, LockStep, SessionStepLemma, ClosedStep, DeleteStep, ChannelStep,
     AloneStep, SafeStep, TargetStep, BufferStep, ResultStep DEF ConnectInv
<1> QED
  BY <1>1, <1>2, PTL DEF Spec

\* Every variable stays in its type.
THEOREM TypeCorrect == Spec => []TypeOK
<1>1. ConnectInv => TypeOK
  BY DEF ConnectInv
<1> QED
  BY <1>1, ConnectInvariant, PTL

\* A request receives only what is addressed to its client and comes from the
\* session that it has looked up.
THEOREM ResponsesRouted == Spec => []ResponseRouted
<1>1. ASSUME ConnectInv PROVE ResponseRouted
  <2>1. ASSUME NEW r \in Request, result[r] = "ok"
        PROVE  got[r].from = sess[r] /\ got[r].to = ClientOf[r]
    <3>1. got[r] = [from |-> sess[r], to |-> ClientOf[r]]
      BY <1>1, <2>1 DEF ConnectInv, ResultsRouted, Answers
    <3> QED
      BY <3>1
  <2> QED
    BY <2>1 DEF ResponseRouted
<1> QED
  BY <1>1, ConnectInvariant, PTL

\* A stored channel is open and its request will clean up, or is about to be
\* deleted by the holder of s.mu.
THEOREM NoChannelDangles == Spec => []NoDanglingChannel
<1>1. ConnectInv => NoDanglingChannel
  BY DEF ConnectInv
<1> QED
  BY <1>1, ConnectInvariant, PTL

(* A request without a rival for its client id on its session keeps its    *)
(* channel, meets no nil channel and gives s.mu back.                      *)
THEOREM SoleRequestsSafe == Spec => []SoleRequestSafe
<1>1. ConnectInv => SoleRequestSafe
  BY DEF ConnectInv
<1> QED
  BY <1>1, ConnectInvariant, PTL

-----------------------------------------------------------------------------
(* Refinement: sessions are published by EdgeConnect and withdrawn by      *)
(* EdgeCleanup.  Nothing that a request does touches the map.              *)

LEMMA RequestsLeaveMap ==
    ASSUME NEW r \in Request, RequestStep(r) PROVE UNCHANGED <<online, pcE>>
BY DEF RequestStep, ReqLock, ReqRefused, Refuse, ReqSetup, ReqSend, ReqSendFails,
       ReqSendPanics, ReqReceive, ReqReceivesNil, ReqTimeout, Leave,
       ReqLockCleanup, ReqClose, ReqDelete, ReqClosePanics, edgeVars

LEMMA DirectoryStep ==
    TypeOK /\ [Next]_vars => [Directory!Next]_<<Phase, online>>
<1> SUFFICES ASSUME TypeOK, [Next]_vars
             PROVE  [Directory!Next]_<<Phase, online>>
  OBVIOUS
<1> USE ConnectAssumption DEF TypeOK
<1>1. ASSUME NEW r \in Request, RequestStep(r) PROVE UNCHANGED <<Phase, online>>
  BY <1>1, RequestsLeaveMap DEF Phase
<1>2. ASSUME NEW e \in Session, EdgeConnect(e) PROVE Directory!Publish(e)
  BY <1>2 DEF EdgeConnect, Phase, Directory!Publish
<1>3. ASSUME NEW e \in Session, EdgeCleanup(e) PROVE Directory!Withdraw(e)
  BY <1>3 DEF EdgeCleanup, Phase, Directory!Withdraw
<1>4. ASSUME NEW e \in Session, EdgeResponseRaces(e) \/ PingPanics(e)
      PROVE  Directory!Collapse
  BY <1>4 DEF EdgeResponseRaces, PingPanics, Dies, Phase, Directory!Collapse
<1>5. ASSUME NEW i \in Id, Reap(i) PROVE Directory!Expire({i})
  BY <1>5 DEF Reap, edgeVars, Phase, Directory!Expire
<1>6. ASSUME NEW e \in Session,
             \/ \E k \in Client : EdgeResponse(e, k)
             \/ EdgeDeliver(e) \/ EdgeSendTimeout(e) \/ EdgeSendPanics(e)
             \/ EdgeDrop(e)
      PROVE  UNCHANGED <<Phase, online>>
  <2>1. pcE[e] \in {"reading", "sending"} /\ UNCHANGED online
    BY <1>6 DEF EdgeResponse, EdgeDeliver, EdgeSendTimeout, EdgeSendPanics,
       EdgeDrop, EdgeBackToReading
  <2>2. UNCHANGED pcE \/ \E a \in {"reading", "sending", "leaving"} :
            pcE' = [pcE EXCEPT ![e] = a]
    BY <1>6 DEF EdgeResponse, EdgeDeliver, EdgeSendTimeout, EdgeSendPanics,
       EdgeDrop, EdgeBackToReading
  <2>3. Phase' = Phase
    BY <2>1, <2>2 DEF Phase
  <2> QED
    BY <2>1, <2>3
<1>7. CASE StopRequested \/ StopCloses \/ UNCHANGED vars
  BY <1>7 DEF StopRequested, StopCloses, vars, edgeVars, Phase
<1>8. \A i \in Id : {i} \in SUBSET Id
  OBVIOUS
<1> QED
  BY <1>1, <1>2, <1>3, <1>4, <1>5, <1>6, <1>7, <1>8
     DEF Next, SessionStep, Directory!Next

\* The map in which requests look their edges up implements PeerDirectory.
THEOREM OnlineImplementsDirectory == Spec => OnlineIsDirectory
<1>1. Init => Directory!Init
  BY DEF Init, Phase, Directory!Init
<1> QED
  BY <1>1, DirectoryStep, TypeCorrect, PTL
     DEF Spec, OnlineIsDirectory, Directory!Spec, Directory!dirVars

\* A request finds an edge in service under the id it asks for, and an id
\* that a session has lost never leads to that session again.
THEOREM LookupsInService ==
    Spec => []Directory!EntryInService /\ Directory!NoReturn
<1>1. Directory!WellFormed
  BY ConnectAssumption DEF Directory!WellFormed
<1>2. Directory!Spec => []Directory!DirInv /\ Directory!NoReturn
  BY <1>1, Directory!InService, Directory!NeverReturns
<1> QED
  BY <1>2, OnlineImplementsDirectory, PTL
     DEF OnlineIsDirectory, Directory!DirInv

-----------------------------------------------------------------------------
(* Refinement of Rendezvous.  AskInv is what it takes beside ConnectInv: a *)
(* request has no session before its set-up and no result before it leaves *)
(* its select; it has been written to nobody before it was sent, and to    *)
(* somebody once it waits; one that is not alone has another beside it on  *)
(* the session; sessions of requests have been online; and sessions and    *)
(* requests die together.                                                  *)

Unasked == \A r \in Request : ~Sent(r) => sess[r] = None

Undecided == \A r \in Request :
    pcR[r] \in {"idle", "locked", "sending", "waiting"} => result[r] = "none"

WrittenOnce == \A r \in Request :
    /\ pcR[r] \in {"idle", "locked", "sending"} => r \notin Abstract!Written
    /\ pcR[r] = "waiting" => r \in Abstract!Written

OverlapShared == \A r \in overlapped : \E q \in Request \ {r} :
    Sent(q) /\ Sent(r) /\ sess[q] = sess[r] /\ ClientOf[q] = ClientOf[r]

AskedWasOnline == \A r \in Request : Active(r) => pcE[sess[r]] # "offline"

DieTogether == \A e \in Session, r \in Request :
    pcE[e] = "crashed" => pcR[r] = "crashed"

AskInv ==
    /\ Unasked /\ Undecided /\ WrittenOnce
    /\ OverlapShared /\ AskedWasOnline /\ DieTogether

\* A request step changes nothing of the other requests but what is in their
\* channels and whether they have been alone.
LEMMA RequestFrame ==
    ASSUME TypeOK, NEW r \in Request, RequestStep(r), NEW q \in Request \ {r}
    PROVE  pcR'[q] = pcR[q] /\ sess'[q] = sess[q] /\ result'[q] = result[q]
BY DEF RequestStep, ReqLock, ReqRefused, Refuse, ReqSetup, ReqSend, ReqSendFails,
       ReqSendPanics, ReqReceive, ReqReceivesNil, ReqTimeout, Leave,
       ReqLockCleanup, ReqClose, ReqDelete, ReqClosePanics, TypeOK

\* A session step changes nothing of the requests, unless all die.
LEMMA SessionFrame ==
    ASSUME NEW e \in Session, SessionStep(e)
    PROVE  /\ UNCHANGED <<sess, result, got, inbox, overlapped>>
           /\ pcR' = pcR \/ Dies
BY DEF SessionStep, EdgeConnect, EdgeResponse, EdgeResponseRaces, PingPanics,
       Dies, EdgeDeliver,
       EdgeSendTimeout, EdgeSendPanics, EdgeDrop, EdgeCleanup, EdgeBackToReading,
       requestVars

LEMMA ServerFrame ==
    ASSUME (\E i \in Id : Reap(i)) \/ StopRequested \/ StopCloses \/ UNCHANGED vars
    PROVE  UNCHANGED <<pcE, requestVars, inbox, overlapped>>
BY DEF Reap, StopRequested, StopCloses, vars, edgeVars

\* What a request's own steps do to it.
LEMMA RequestShape ==
    ASSUME TypeOK, NEW r \in Request, RequestStep(r)
    PROVE  /\ Sent(r) => Sent(r)' /\ sess'[r] = sess[r]
           /\ Sent(r)' /\ sess'[r] # sess[r] => ReqSetup(r)
           /\ ~Sent(r)' => UNCHANGED <<sess, result>>
           /\ pcR'[r] = "sending" => ReqSetup(r) /\ UNCHANGED result
           /\ pcR'[r] = "waiting" => ReqSend(r)
           /\ ReqSend(r) => pcR'[r] = "waiting"
           /\ pcR'[r] \in {"idle", "locked", "sending"} =>
                  pcR[r] \in {"idle", "locked"}
           /\ pcR'[r] \in {"leaving", "cleaning", "deleting"} =>
                  Active(r) /\ UNCHANGED <<sess, overlapped>>
           /\ pcR[r] # "crashed"
           /\ ~ReqSend(r) => UNCHANGED inbox
           /\ ~ReqSetup(r) => UNCHANGED overlapped
           /\ UNCHANGED pcE
BY DEF TypeOK, RequestStep, Sent, Active, edgeVars, ReqLock, ReqRefused, Refuse, ReqSetup, ReqSend,
       ReqSendFails, ReqSendPanics, ReqReceive, ReqReceivesNil, ReqTimeout,
       Leave, ReqLockCleanup, ReqClose, ReqDelete, ReqClosePanics

\* A request is written to somebody.
LEMMA SendWrites ==
    ASSUME TypeOK, ActiveHasSession, NEW r \in Request, ReqSend(r)
    PROVE  Abstract!Written' = Abstract!Written \cup {r}
<1>1. PICK e \in Session : inbox' = [inbox EXCEPT ![e] = @ \cup {r}]
  BY DEF ReqSend, Reaches, ActiveHasSession, Active
<1>2. inbox \in [Session -> SUBSET Request]
  BY DEF TypeOK
<1>3. inbox'[e] = inbox[e] \cup {r} /\ \A d \in Session \ {e} : inbox'[d] = inbox[d]
  BY <1>1, <1>2
<1> QED
  BY <1>3 DEF Abstract!Written

LEMMA AskStep ==
    ASSUME TypeOK, ActiveHasSession, Unasked, Undecided, WrittenOnce, [Next]_vars
    PROVE  Unasked' /\ Undecided' /\ WrittenOnce'
<1> USE DEF Unasked, Undecided, WrittenOnce
<1>1. ASSUME NEW r \in Request, RequestStep(r), NEW q \in Request
      PROVE  /\ ~Sent(q)' => sess'[q] = None
             /\ pcR'[q] \in {"idle", "locked", "sending", "waiting"} =>
                    result'[q] = "none"
             /\ pcR'[q] \in {"idle", "locked", "sending"} =>
                    q \notin Abstract!Written'
             /\ pcR'[q] = "waiting" => q \in Abstract!Written'
  <2>1. /\ ReqSend(r) => Abstract!Written' = Abstract!Written \cup {r}
        /\ ~ReqSend(r) => Abstract!Written' = Abstract!Written
    BY <1>1, SendWrites, RequestShape DEF Abstract!Written
  <2>2. CASE q = r
    <3>1. ReqSend(r) => result'[r] = "none"
      BY DEF ReqSend
    <3>2. ReqSetup(r) => result[r] = "none"
      BY DEF ReqSetup
    <3>3. pcR'[r] = "waiting" => ReqSend(r)
      BY <1>1, RequestShape
    <3> QED
      BY <1>1, <2>1, <2>2, <3>1, <3>2, <3>3, RequestShape DEF Sent
  <2>3. CASE q # r
    <3>1. pcR'[q] = pcR[q] /\ sess'[q] = sess[q] /\ result'[q] = result[q]
      BY <1>1, <2>3, RequestFrame
    <3> QED
      BY <2>1, <2>3, <3>1 DEF Sent
  <2> QED
    BY <2>2, <2>3
<1>2. ASSUME NEW e \in Session, SessionStep(e)
      PROVE  Unasked' /\ Undecided' /\ WrittenOnce'
  <2>1. CASE pcR' = pcR
    BY <1>2, <2>1, SessionFrame DEF Sent, Abstract!Written
  <2>2. CASE Dies
    BY <2>2 DEF Dies, Sent
  <2> QED
    BY <1>2, <2>1, <2>2, SessionFrame
<1>3. CASE (\E i \in Id : Reap(i)) \/ StopRequested \/ StopCloses \/ UNCHANGED vars
  BY <1>3, ServerFrame DEF requestVars, Sent, Abstract!Written
<1> QED
  BY <1>1, <1>2, <1>3 DEF Next

\* Those that have shared a client id on a session keep their sessions.
LEMMA OverlapStep ==
    ASSUME TypeOK, OverlapShared, [Next]_vars PROVE OverlapShared'
<1> DEFINE Shared(r, q) == /\ q # r /\ Sent(q) /\ Sent(r)
                           /\ sess[q] = sess[r] /\ ClientOf[q] = ClientOf[r]
<1>1. ASSUME NEW r \in Request, RequestStep(r) PROVE OverlapShared'
  <2>1. \A q \in Request : Sent(q) => Sent(q)' /\ sess'[q] = sess[q]
    BY <1>1, RequestShape, RequestFrame DEF Sent
  <2>2. \A p \in overlapped : \E q \in Request : Shared(p, q)'
    BY <2>1 DEF OverlapShared, TypeOK
  <2>3. CASE overlapped' = overlapped
    BY <2>2, <2>3 DEF OverlapShared
  <2>4. CASE ReqSetup(r)
    <3> DEFINE e == online[EdgeIdOf[r]]
    <3>1. /\ Sent(r)' /\ sess'[r] = e
          /\ overlapped' \in {overlapped, overlapped \cup InFlight(r, e) \cup {r}}
          /\ InFlight(r, e) = {} => overlapped' = overlapped
      BY <2>4 DEF ReqSetup, Sent, TypeOK
    <3>2. \A q \in InFlight(r, e) : q \in Request /\ Shared(q, r)' /\ Shared(r, q)'
      BY <2>1, <3>1 DEF InFlight, Sent
    <3> HIDE DEF Shared, e
    <3>3. \A p \in overlapped' : \E q \in Request : Shared(p, q)'
      BY <2>2, <3>1, <3>2
    <3> QED
      BY <3>3 DEF Shared, OverlapShared
  <2> QED
    BY <1>1, <2>3, <2>4, RequestShape
<1>2. ASSUME NEW e \in Session, SessionStep(e) PROVE OverlapShared'
  <2>1. \A q \in Request : Sent(q) => Sent(q)'
    BY <1>2, SessionFrame DEF Dies, Sent
  <2>2. UNCHANGED <<sess, overlapped>>
    BY <1>2, SessionFrame
  <2> QED
    BY <2>1, <2>2 DEF OverlapShared, TypeOK
<1>3. CASE (\E i \in Id : Reap(i)) \/ StopRequested \/ StopCloses \/ UNCHANGED vars
  BY <1>3, ServerFrame DEF requestVars, OverlapShared, Sent
<1> QED
  BY <1>1, <1>2, <1>3 DEF Next

\* An edge is asked when the directory has it in service.
LEMMA ServiceStep ==
    ASSUME TypeOK, ActiveHasSession, AskedWasOnline, DieTogether,
           Directory!EntryInService, [Next]_vars
    PROVE  AskedWasOnline' /\ DieTogether'
<1> USE DEF AskedWasOnline, DieTogether
<1>1. ASSUME NEW r \in Request, RequestStep(r)
      PROVE  AskedWasOnline' /\ DieTogether'
  <2>1. pcE' = pcE /\ pcR[r] # "crashed"
    BY <1>1, RequestShape
  <2>2. ASSUME NEW q \in Request, Active(q)' PROVE pcE'[sess'[q]] # "offline"
    <3>1. CASE Active(q) /\ sess'[q] = sess[q]
      BY <2>1, <3>1
    <3>2. CASE q = r /\ ReqSetup(r)
      <4>1. sess'[r] = online[EdgeIdOf[r]] /\ online[EdgeIdOf[r]] \in Session
        BY <3>2, ConnectAssumption DEF ReqSetup, TypeOK
      <4>2. Phase[online[EdgeIdOf[r]]] = "live"
        BY <4>1, ConnectAssumption DEF Directory!EntryInService
      <4> QED
        BY <2>1, <3>2, <4>1, <4>2 DEF Phase
    <3> QED
      BY <1>1, <2>2, <3>1, <3>2, RequestShape, RequestFrame DEF Active, ReqSend, Sent
  <2>3. DieTogether'
    BY <1>1, <2>1, RequestFrame
  <2> QED
    BY <2>2, <2>3
<1>2. ASSUME NEW e \in Session, SessionStep(e)
      PROVE  AskedWasOnline' /\ DieTogether'
  <2>1. CASE Dies
    BY <2>1 DEF Dies, Active
  <2>2. CASE ~Dies
    <3>1. UNCHANGED <<sess, pcR>>
      BY <1>2, <2>2, SessionFrame
    <3>2. \A d \in Session : /\ pcE'[d] = "crashed" => pcE[d] = "crashed"
                             /\ pcE'[d] = "offline" => pcE[d] = "offline"
      BY <1>2, <2>2 DEF TypeOK, SessionStep, EdgeConnect, EdgeResponse,
         EdgeResponseRaces, PingPanics, EdgeDeliver, EdgeSendTimeout,
         EdgeSendPanics, EdgeDrop, EdgeCleanup,
         EdgeBackToReading
    <3> QED
      BY <3>1, <3>2 DEF ActiveHasSession, Active
  <2> QED
    BY <2>1, <2>2
<1>3. CASE (\E i \in Id : Reap(i)) \/ StopRequested \/ StopCloses \/ UNCHANGED vars
  BY <1>3, ServerFrame DEF requestVars, Active
<1> QED
  BY <1>1, <1>2, <1>3 DEF Next

LEMMA AskInvHolds == Spec => []AskInv
<1>1. Init => AskInv
  BY DEF Init, AskInv, Unasked, Undecided, WrittenOnce, OverlapShared,
     AskedWasOnline, DieTogether, Sent, Active, Abstract!Written
<1>2. /\ ConnectInv /\ Directory!EntryInService /\ AskInv /\ [Next]_vars
      => AskInv'
  BY AskStep, OverlapStep, ServiceStep DEF AskInv, ConnectInv
<1> QED
  BY <1>1, <1>2, ConnectInvariant, LookupsInService, PTL DEF Spec

\* A step of a request does to the outcome what a step of Rendezvous does.
LEMMA RequestRefines ==
    ASSUME ConnectInv, AskInv, NEW r \in Request, RequestStep(r)
    PROVE  \/ Abstract!RequestStep(r)
           \/ UNCHANGED <<sess, inbox, Outcome, AnswerGot>>
<1> USE ConnectAssumption DEF ConnectInv, TypeOK
<1>1. CASE ReqLock(r) \/ ReqLockCleanup(r) \/ ReqClose(r) \/ ReqDelete(r)
  BY <1>1 DEF ReqLock, ReqLockCleanup, ReqClose, ReqDelete, edgeVars, Outcome,
     AnswerGot
<1>2. CASE ReqRefused(r)
  <2>1. /\ pcR[r] = "locked" /\ sess[r] = None /\ result[r] = "none"
        /\ online[EdgeIdOf[r]] \notin Edge
        /\ UNCHANGED <<sess, got, inbox>>
    BY <1>2 DEF ReqRefused, Refuse, edgeVars, AskInv, Unasked, Undecided, Sent
  <2>2. PICK res \in {"notOnline", "notEdge"} : result' = [result EXCEPT ![r] = res]
    BY <1>2 DEF ReqRefused, Refuse
  <2>3. Outcome' = [Outcome EXCEPT ![r] = "failed"] /\ AnswerGot' = AnswerGot
    BY <2>1, <2>2 DEF Outcome, AnswerGot
  <2>4. Abstract!Refuse(r)
    BY <2>1, <2>3 DEF Abstract!Refuse, Outcome
  <2> QED
    BY <2>4 DEF Abstract!RequestStep
<1>3. CASE ReqSetup(r)
  <2>1. pcR[r] = "locked" /\ sess[r] = None /\ result[r] = "none"
    BY <1>3 DEF ReqSetup, AskInv, Unasked, Undecided, Sent
  <2>2. Abstract!Ask(r)
    BY <1>3, <2>1 DEF ReqSetup, edgeVars, Outcome, AnswerGot, Abstract!Ask
  <2> QED
    BY <2>2 DEF Abstract!RequestStep
<1>4. CASE ReqSend(r)
  <2>1. pcR[r] = "sending" /\ sess[r] \in Session /\ result[r] = "none"
    BY <1>4 DEF ReqSend, ActiveHasSession, Active, AskInv, Undecided
  <2>2. pcE[sess[r]] \notin {"offline", "crashed"}
    BY <1>4, <2>1 DEF ReqSend, AskInv, AskedWasOnline, DieTogether, Active
  <2>3. PICK e \in Reaches(r) : inbox' = [inbox EXCEPT ![e] = @ \cup {r}]
    BY <1>4 DEF ReqSend
  <2>4. e \in Session /\ pcE[e] \notin {"gone", "crashed"}
    BY <1>4, <2>1, <2>2, <2>3 DEF Reaches, AskInv, DieTogether
  <2>5. /\ e = sess[r] \/ Phase[sess[r]] = "gone"
        /\ Phase[e] # "gone"
    BY <2>1, <2>3, <2>4 DEF Reaches, Phase
  <2>6. r \notin Abstract!Written
    BY <2>1 DEF AskInv, WrittenOnce
  <2>7. Outcome[r] = "open" /\ UNCHANGED <<sess, Outcome, AnswerGot>>
    BY <1>4, <2>1 DEF ReqSend, Outcome, AnswerGot
  <2>8. Abstract!Write(r)
    BY <2>1, <2>3, <2>4, <2>5, <2>6, <2>7 DEF Abstract!Write
  <2> QED
    BY <2>8 DEF Abstract!RequestStep
<1>5. CASE \/ ReqSendFails(r) \/ ReqSendPanics(r)
           \/ ReqReceivesNil(r) \/ ReqTimeout(r)
  <2>1. sess[r] \in Session /\ result[r] = "none"
    BY <1>5 DEF ReqSendFails, ReqSendPanics, ReqReceivesNil, ReqTimeout, ActiveHasSession,
       Active, AskInv, Undecided
  <2>2. PICK res \in {"sendFailed", "sendPanicked", "panic", "timeout"} :
            result' = [result EXCEPT ![r] = res]
    BY <1>5 DEF ReqSendFails, ReqSendPanics, ReqReceivesNil, ReqTimeout, Leave
  <2>3. UNCHANGED <<sess, got, inbox>>
    BY <1>5 DEF ReqSendFails, ReqSendPanics, ReqReceivesNil, ReqTimeout, Leave, edgeVars
  <2>4. Outcome' = [Outcome EXCEPT ![r] = "failed"] /\ AnswerGot' = AnswerGot
    BY <2>1, <2>2, <2>3 DEF Outcome, AnswerGot
  <2>5. Abstract!Fail(r)
    BY <2>1, <2>3, <2>4 DEF Abstract!Fail, Outcome
  <2> QED
    BY <2>5 DEF Abstract!RequestStep
<1>6. CASE ReqReceive(r)
  <2>1. result[r] = "none" /\ r \in Abstract!Written
    BY <1>6 DEF ReqReceive, AskInv, Undecided, WrittenOnce
  <2>2. /\ result' = [result EXCEPT ![r] = "ok"]
        /\ got' = [got EXCEPT ![r] = buf[r]]
        /\ UNCHANGED <<sess, inbox>>
    BY <1>6 DEF ReqReceive, edgeVars
  <2>3. buf[r] = [from |-> sess[r], to |-> ClientOf[r]]
    BY <1>6 DEF ReqReceive, BuffersRouted, Answers
  <2>4. /\ Outcome' = [Outcome EXCEPT ![r] = "answered"]
        /\ AnswerGot' = [AnswerGot EXCEPT ![r] = buf[r]]
    BY <2>2 DEF Outcome, AnswerGot
  <2>5. Outcome[r] = "open"
    BY <2>1 DEF Outcome
  <2>6. Abstract!Answer(r)
    BY <2>1, <2>2, <2>3, <2>4, <2>5, Zenon DEF Abstract!Answer
  <2> QED
    BY <2>6 DEF Abstract!RequestStep
<1>7. CASE ReqClosePanics(r)
  <2>1. sess[r] \in Session /\ r \in overlapped
    BY <1>7 DEF ReqClosePanics, ActiveHasSession, Active, SoleRequestSafe,
       WillCleanUp
  <2>2. result' = [result EXCEPT ![r] = "panic"] /\ UNCHANGED <<sess, got, inbox>>
    BY <1>7 DEF ReqClosePanics, edgeVars
  <2>3. CASE result[r] = "ok"
    <3>1. Abstract!Shares(r)
      BY <2>1 DEF AskInv, OverlapShared, Abstract!Shares
    <3>2. /\ Outcome' = [Outcome EXCEPT ![r] = "failed"]
          /\ AnswerGot' = [AnswerGot EXCEPT ![r] = None]
      BY <2>2, <2>3 DEF Outcome, AnswerGot
    <3>3. Abstract!Withdraw(r)
      BY <2>2, <2>3, <3>1, <3>2 DEF Abstract!Withdraw, Outcome
    <3> QED
      BY <3>3 DEF Abstract!RequestStep
  <2>4. CASE result[r] = "none"
    <3>1. Outcome' = [Outcome EXCEPT ![r] = "failed"] /\ AnswerGot' = AnswerGot
      BY <2>2, <2>4 DEF Outcome, AnswerGot
    <3>2. Abstract!Fail(r)
      BY <2>1, <2>2, <2>4, <3>1 DEF Abstract!Fail, Outcome
    <3> QED
      BY <3>2 DEF Abstract!RequestStep
  <2>5. CASE result[r] \notin {"none", "ok"}
    BY <2>2, <2>5 DEF Outcome, AnswerGot
  <2> QED
    BY <2>3, <2>4, <2>5
<1> QED
  BY <1>1, <1>2, <1>3, <1>4, <1>5, <1>6, <1>7 DEF RequestStep

LEMMA RendezvousStep ==
    ASSUME ConnectInv, AskInv, [Next]_vars
    PROVE  [Abstract!Next]_<<Abstract!dirVars, Abstract!askVars>>
<1>1. ASSUME NEW r \in Request, RequestStep(r)
      PROVE  [Abstract!Next]_<<Abstract!dirVars, Abstract!askVars>>
  <2>1. UNCHANGED <<Phase, online>>
    BY <1>1, RequestsLeaveMap DEF Phase
  <2> QED
    BY <1>1, <2>1, RequestRefines
       DEF Abstract!Next, Abstract!dirVars, Abstract!askVars
<1>2. CASE ~\E r \in Request : RequestStep(r)
  <2>1. UNCHANGED <<sess, inbox, result, got>>
    BY <1>2, SessionFrame, ServerFrame DEF Next, requestVars
  <2>2. UNCHANGED <<sess, inbox, Outcome, AnswerGot>>
    BY <2>1 DEF Outcome, AnswerGot
  <2>3. Directory!Next \/ UNCHANGED <<Phase, online>>
    BY DirectoryStep DEF ConnectInv
  <2>4. Directory!Next => Abstract!Directory!Next
    BY DEF Directory!Next, Directory!Publish, Directory!Withdraw,
       Directory!Expire, Directory!Collapse, Abstract!Directory!Next,
       Abstract!Directory!Publish, Abstract!Directory!Withdraw,
       Abstract!Directory!Expire, Abstract!Directory!Collapse
  <2> QED
    BY <2>2, <2>3, <2>4 DEF Abstract!Next, Abstract!dirVars, Abstract!askVars
<1> QED
  BY <1>1, <1>2

\* The code of handleClientConnect and handleAPIConnectResponse, with all that
\* may come between their steps, implements Rendezvous.
THEOREM ImplementsRendezvous == Spec => IsRendezvous
<1>1. Init => Abstract!Init
  BY DEF Init, Phase, Outcome, AnswerGot, Abstract!Init, Abstract!Directory!Init
<1> QED
  BY <1>1, RendezvousStep, ConnectInvariant, AskInvHolds, PTL
     DEF Spec, IsRendezvous, Abstract!Spec

=============================================================================
