-------------------------- MODULE ForwardingProofs --------------------------
(***************************************************************************)
(* Proofs about Forwarding, for any sessions, ids, numbers of messages and *)
(* sizes of sockets: PerSenderOrder, OnlyAddressed and NoGaps.  FwdInv is  *)
(* the inductive invariant.  Each of its parts has a lemma that says every *)
(* step preserves it, with one step per action that changes what the part  *)
(* speaks of.                                                              *)
(***************************************************************************)
EXTENDS Forwarding, TLAPS

Busy(s) == at[s] \in {"send", "write"}

\* A busy handler works on a message it has taken, for somebody.
AtWork == \A s \in Session :
    /\ taken[s] <= Len(sent[s])
    /\ Busy(s) => taken[s] > 0 /\ dest[s] \in Session
    /\ at[s] = "write" => at[dest[s]] # "new"

Untouched == \A s \in Session : at[s] = "new" => taken[s] = 0 /\ log[s] = <<>>

\* What is written has been taken, and the message at work is not written.
WrittenOnce == \A c \in Session : \A i \in 1..Len(log[c]) :
    LET e == log[c][i]
    IN  /\ e.n \in 1..taken[e.from]
        /\ Busy(e.from) => e.n < taken[e.from]

\* A Conn is named after its first user, who has returned if another has it.
ConnNames == \A t \in Session : conn[t] # t =>
    /\ at[conn[t]] = "gone"
    /\ conn[conn[t]] = conn[t]

OneHolder == \A c, d \in Session :
    Live(c) /\ Live(d) /\ conn[c] = conn[d] => c = d

MapHasIds == \A i \in Id : connections[i] # NoSession =>
    IdOf[connections[i]] = i /\ at[connections[i]] # "new"

\* A message on its way to a Conn is addressed to the Conn's first user,
\* unless that one has returned.
SendsAddressed == \A s \in Session : at[s] = "send" =>
    \/ at[dest[s]] = "gone"
    \/ /\ at[dest[s]] # "new"
       /\ conn[dest[s]] = dest[s]
       /\ Addressed(Current(s), dest[s])

WritesAddressed == \A s \in Session :
    at[s] = "write" /\ conn[dest[s]] = dest[s] => Addressed(Current(s), dest[s])

\* A forward is under way only to an id that has been there; to that of an
\* undisturbed session it is under way to this session.
ForwardFound == \A s \in Session :
    Busy(s) /\ sent[s][taken[s]] \in Id =>
        /\ \E t \in Session : IdOf[t] = sent[s][taken[s]] /\ at[t] # "new"
        /\ \A c \in Session : Undisturbed(c) /\ IdOf[c] = sent[s][taken[s]] =>
               dest[s] = IF at[s] = "send" THEN conn[c] ELSE c

FwdInv ==
    /\ TypeOK /\ AtWork /\ Untouched /\ WrittenOnce /\ PerSenderOrder
    /\ ConnNames /\ OneHolder /\ MapHasIds /\ SendsAddressed
    /\ WritesAddressed /\ OnlyAddressed /\ ForwardFound /\ NoGaps

LEMMA InitInv == ASSUME Init PROVE FwdInv
<1> USE ForwardingAssumption DEF Init
<1>1. TypeOK
  BY DEF TypeOK, HandlerState, Message, Entry
<1>2. AtWork /\ Untouched /\ WrittenOnce /\ PerSenderOrder
  BY DEF AtWork, Busy, Untouched, WrittenOnce, PerSenderOrder
<1>3. ConnNames /\ OneHolder /\ MapHasIds
  BY DEF ConnNames, OneHolder, MapHasIds
<1>4. SendsAddressed /\ WritesAddressed /\ OnlyAddressed
  BY DEF SendsAddressed, WritesAddressed, OnlyAddressed
<1>5. ForwardFound /\ NoGaps
  BY DEF Undisturbed, ForwardFound, Busy, NoGaps
<1> QED
  BY <1>1, <1>2, <1>3, <1>4, <1>5 DEF FwdInv

-----------------------------------------------------------------------------
(* What the actions do, in the form the lemmas need.                       *)

LEMMA EntryType ==
    ASSUME TypeOK, NEW c \in Session, NEW i \in 1..Len(log[c])
    PROVE  log[c][i] \in Entry /\ log[c][i].from \in Session /\ log[c][i].n \in Nat
<1>1. log[c] \in Seq(Entry)
  BY DEF TypeOK
<1>2. log[c][i] \in Entry
  BY <1>1
<1> QED
  BY <1>2 DEF Entry

LEMMA LogLength == TypeOK => \A c \in Session : Len(log[c]) \in Nat
<1> SUFFICES ASSUME TypeOK, NEW c \in Session PROVE Len(log[c]) \in Nat
  OBVIOUS
<1>1. log[c] \in Seq(Entry)
  BY DEF TypeOK
<1> QED
  BY <1>1

LEMMA TargetType ==
    ASSUME TypeOK, NEW s \in Session, NEW m
    PROVE  Target(s, m) \in Session \cup {NoSession}
BY DEF TypeOK, Target

\* Taking a message, a handler goes on to send it or to read the next.
LEMMA ReadShape ==
    ASSUME TypeOK, NEW s \in Session, ReadMessage(s)
    PROVE  /\ at[s] = "read"
           /\ taken[s] < Len(sent[s]) /\ taken' = [taken EXCEPT ![s] = @ + 1]
           /\ \/ UNCHANGED <<at, dest>>
              \/ \E t \in Session :
                     /\ t = Target(s, sent[s][taken[s] + 1])
                     /\ at' = [at EXCEPT ![s] = "send"]
                     /\ dest' = [dest EXCEPT ![s] = conn[t]]
           /\ UNCHANGED <<connections, conn, sent, log, got, closed, broken, raced>>
<1> DEFINE t == Target(s, sent[s][taken[s] + 1])
<1>1. t \in Session \cup {NoSession}
  BY TargetType
<1> HIDE DEF t
<1>2. /\ at[s] = "read"
      /\ taken[s] < Len(sent[s]) /\ taken' = [taken EXCEPT ![s] = @ + 1]
      /\ UNCHANGED <<connections, conn, sent, log, got, closed, broken, raced>>
  BY DEF ReadMessage
<1>3. IF t = NoSession THEN UNCHANGED <<at, dest>>
      ELSE /\ at' = [at EXCEPT ![s] = "send"]
           /\ dest' = [dest EXCEPT ![s] = conn[t]]
  BY DEF ReadMessage, t
<1> QED
  BY <1>1, <1>2, <1>3 DEF t

LEMMA ReadEffects ==
    ASSUME TypeOK, NEW s \in Session, ReadMessage(s)
    PROVE  /\ at[s] = "read" /\ at'[s] \in {"read", "send"}
           /\ at'[s] = "send" => dest'[s] \in Session
           /\ taken[s] \in Nat /\ taken'[s] = taken[s] + 1
           /\ taken[s] < Len(sent[s])
           /\ \A u \in Session \ {s} :
                  at'[u] = at[u] /\ dest'[u] = dest[u] /\ taken'[u] = taken[u]
           /\ at' \in [Session -> HandlerState]
           /\ dest' \in [Session -> Session \cup {NoSession}]
           /\ UNCHANGED <<connections, conn, sent, log, got, closed, broken, raced>>
<1>1. CASE UNCHANGED <<at, dest>>
  BY <1>1, ReadShape DEF TypeOK
<1>2. ASSUME NEW t \in Session,
             at' = [at EXCEPT ![s] = "send"],
             dest' = [dest EXCEPT ![s] = conn[t]]
      PROVE  /\ at'[s] = "send" /\ dest'[s] \in Session
             /\ at' \in [Session -> HandlerState]
             /\ dest' \in [Session -> Session \cup {NoSession}]
             /\ \A u \in Session \ {s} : at'[u] = at[u] /\ dest'[u] = dest[u]
  BY <1>2 DEF TypeOK, HandlerState
<1>3. /\ at[s] = "read" /\ taken[s] \in Nat /\ taken'[s] = taken[s] + 1
      /\ taken[s] < Len(sent[s])
      /\ \A u \in Session \ {s} : taken'[u] = taken[u]
      /\ UNCHANGED <<connections, conn, sent, log, got, closed, broken, raced>>
  BY ReadShape DEF TypeOK
<1> QED
  BY <1>1, <1>2, <1>3, ReadShape

\* A write appends the message at work to one log.
LEMMA WriteShape ==
    ASSUME TypeOK, AtWork, NEW s \in Session, WriteDone(s)
    PROVE  /\ dest[s] \in Session
           /\ \A c \in Session : \A i \in 1..Len(log'[c]) :
                  \/ i \in 1..Len(log[c]) /\ log'[c][i] = log[c][i]
                  \/ /\ c = dest[s] /\ i = Len(log[c]) + 1
                     /\ log'[c][i] = Current(s)
           /\ \A c \in Session : \A i \in 1..Len(log[c]) :
                  i \in 1..Len(log'[c]) /\ log'[c][i] = log[c][i]
           /\ \E i \in 1..Len(log'[dest[s]]) : log'[dest[s]][i] = Current(s)
<1> DEFINE d == dest[s]
<1>1. d \in Session /\ log' = [log EXCEPT ![d] = Append(@, Current(s))]
  BY DEF WriteDone, AtWork, Busy
<1>2. \A c \in Session : log[c] \in Seq(Entry)
  BY DEF TypeOK
<1>3. Current(s) \in Entry
  BY DEF Current, Entry, TypeOK
<1>4. \A c \in Session \ {d} : log'[c] = log[c]
  BY <1>1 DEF TypeOK
<1>5. log'[d] = Append(log[d], Current(s))
  BY <1>1 DEF TypeOK
<1> HIDE DEF d
<1>6. /\ Len(log'[d]) = Len(log[d]) + 1
      /\ log'[d][Len(log[d]) + 1] = Current(s)
      /\ \A i \in 1..Len(log[d]) : log'[d][i] = log[d][i]
  BY <1>1, <1>2, <1>3, <1>5
<1>7. \A c \in Session : Len(log[c]) \in Nat
  BY LogLength
<1> QED
  BY <1>1, <1>4, <1>6, <1>7 DEF d

-----------------------------------------------------------------------------
\* Every step keeps the types.
LEMMA TypeStep ==
    TypeOK /\ AtWork /\ [Next]_vars => TypeOK'
<1> SUFFICES ASSUME TypeOK, AtWork, [Next]_vars
             PROVE  TypeOK'
  OBVIOUS
<1> USE ForwardingAssumption DEF TypeOK, HandlerState
<1>1. ASSUME NEW s \in Session, Register(s) PROVE TypeOK'
  <2>1. connections[IdOf[s]] \in Session \cup {NoSession}
    OBVIOUS
  <2> QED
    BY <1>1, <2>1 DEF Register
<1>2. ASSUME NEW s \in Session, EndReadLoop(s) PROVE TypeOK'
  BY <1>2 DEF EndReadLoop
<1>3. ASSUME NEW s \in Session, Forget(s) PROVE TypeOK'
  BY <1>3 DEF Forget
<1>4. ASSUME NEW s \in Session, ReadMessage(s) PROVE TypeOK'
  <2>1. taken' \in [Session -> Nat]
    BY <1>4 DEF ReadMessage
  <2>2. /\ at' \in [Session -> HandlerState]
        /\ dest' \in [Session -> Session \cup {NoSession}]
    BY <1>4, ReadEffects
  <2> QED
    BY <1>4, <2>1, <2>2 DEF ReadMessage
<1>5. ASSUME NEW s \in Session, BeginWrite(s) PROVE TypeOK'
  <2>1. PICK c \in Holders(dest[s]) : /\ at' = [at EXCEPT ![s] = "write"]
                                     /\ dest' = [dest EXCEPT ![s] = c]
    BY <1>5 DEF BeginWrite
  <2>2. /\ at' \in [Session -> HandlerState]
        /\ dest' \in [Session -> Session \cup {NoSession}]
    BY <2>1 DEF Holders
  <2>3. raced' \in SUBSET Session
    BY <1>5 DEF BeginWrite, Holders
  <2> QED
    BY <1>5, <2>2, <2>3 DEF BeginWrite
<1>6. ASSUME NEW s \in Session, WriteToPooled(s) PROVE TypeOK'
  BY <1>6 DEF WriteToPooled, Panic
<1>7. ASSUME NEW s \in Session, WriteCollides(s) PROVE TypeOK'
  BY <1>7 DEF WriteCollides, Panic
<1>8. ASSUME NEW s \in Session, WriteDone(s) PROVE TypeOK'
  <2>1. Current(s) \in Entry
    BY DEF Current, Entry
  <2>2. dest[s] \in Session => Append(log[dest[s]], Current(s)) \in Seq(Entry)
    BY <2>1
  <2> QED
    BY <1>8, <2>2 DEF WriteDone, Return
<1>9. ASSUME NEW s \in Session, WriteFails(s) PROVE TypeOK'
  BY <1>9 DEF WriteFails, Return
<1>10. ASSUME NEW s \in Session, WriteTimesOut(s) PROVE TypeOK'
  BY <1>10 DEF WriteTimesOut, Return, AtWork, Busy
<1>11. ASSUME NEW s \in Session, Expire(s) PROVE TypeOK'
  BY <1>11 DEF Expire
<1>12. ASSUME NEW s \in Session, PeerSends(s) PROVE TypeOK'
  <2>1. PICK m \in Message : sent' = [sent EXCEPT ![s] = Append(@, m)]
    BY <1>12 DEF PeerSends
  <2>2. Append(sent[s], m) \in Seq(Message)
    OBVIOUS
  <2> QED
    BY <1>12, <2>1, <2>2 DEF PeerSends
<1>13. ASSUME NEW s \in Session, PeerReads(s) PROVE TypeOK'
  BY <1>13 DEF PeerReads
<1>14. ASSUME NEW s \in Session, WriteCut(s) PROVE TypeOK'
  BY <1>14 DEF WriteCut, Return, AtWork, Busy
<1>15. ASSUME NEW s \in Session, PingTimesOut(s) PROVE TypeOK'
  BY <1>15 DEF PingTimesOut
<1>16. CASE UNCHANGED vars
  BY <1>16 DEF vars
<1> QED
  BY <1>1, <1>2, <1>3, <1>4, <1>5, <1>6, <1>7, <1>8, <1>9, <1>10, <1>11,
     <1>12, <1>13, <1>14, <1>15,
     <1>16 DEF Next, Handler, Writing

\* A message is taken before it is worked on.
LEMMA AtWorkStep ==
    TypeOK /\ AtWork /\ [Next]_vars => AtWork'
<1> SUFFICES ASSUME TypeOK, AtWork, [Next]_vars
             PROVE  AtWork'
  OBVIOUS
<1> USE ForwardingAssumption DEF TypeOK, AtWork, Busy
<1>1. ASSUME NEW s \in Session, Register(s) PROVE AtWork'
  BY <1>1 DEF Register
<1>2. ASSUME NEW s \in Session, EndReadLoop(s) PROVE AtWork'
  BY <1>2 DEF EndReadLoop
<1>3. ASSUME NEW s \in Session, Forget(s) PROVE AtWork'
  BY <1>3 DEF Forget
<1>4. ASSUME NEW s \in Session, ReadMessage(s) PROVE AtWork'
  <2>1. taken'[s] = taken[s] + 1 /\ taken[s] < Len(sent[s]) /\ sent' = sent
    BY <1>4, ReadEffects
  <2>2. /\ at[s] = "read" /\ at'[s] \in {"read", "send"}
        /\ at'[s] = "send" => dest'[s] \in Session
    BY <1>4, ReadEffects
  <2>3. \A u \in Session \ {s} :
            at'[u] = at[u] /\ dest'[u] = dest[u] /\ taken'[u] = taken[u]
    BY <1>4, ReadEffects
  <2> SUFFICES ASSUME NEW u \in Session
               PROVE  /\ taken'[u] <= Len(sent'[u])
                      /\ Busy(u)' => taken'[u] > 0 /\ dest'[u] \in Session
                      /\ at'[u] = "write" => at'[dest'[u]] # "new"
    BY DEF Busy
  <2>4. CASE u = s
    BY <2>1, <2>2, <2>4
  <2>5. CASE u # s
    BY <2>2, <2>3, <2>1, <2>5
  <2> QED
    BY <2>4, <2>5
<1>5. ASSUME NEW s \in Session, BeginWrite(s) PROVE AtWork'
  <2>1. PICK c \in Holders(dest[s]) : /\ at' = [at EXCEPT ![s] = "write"]
                                     /\ dest' = [dest EXCEPT ![s] = c]
    BY <1>5 DEF BeginWrite
  <2>2. c \in Session /\ at[c] # "new" /\ at[s] = "send"
    BY <1>5, <2>1 DEF Holders, Live, BeginWrite
  <2>3. taken' = taken /\ sent' = sent
    BY <1>5 DEF BeginWrite
  <2>4. at'[s] = "write" /\ dest'[s] = c
    BY <2>1
  <2>5. \A u \in Session \ {s} : at'[u] = at[u] /\ dest'[u] = dest[u]
    BY <2>1
  <2>6. \A u \in Session : at[u] # "new" => at'[u] # "new"
    BY <2>4, <2>5
  <2> SUFFICES ASSUME NEW u \in Session
               PROVE  /\ taken'[u] <= Len(sent'[u])
                      /\ Busy(u)' => taken'[u] > 0 /\ dest'[u] \in Session
                      /\ at'[u] = "write" => at'[dest'[u]] # "new"
    BY DEF Busy
  <2>7. CASE u = s
    BY <2>2, <2>3, <2>4, <2>6, <2>7
  <2>8. CASE u # s
    BY <2>3, <2>5, <2>6, <2>8
  <2> QED
    BY <2>7, <2>8
<1>6. ASSUME NEW s \in Session, WriteToPooled(s) PROVE AtWork'
  BY <1>6 DEF WriteToPooled, Panic
<1>7. ASSUME NEW s \in Session, WriteCollides(s) PROVE AtWork'
  BY <1>7 DEF WriteCollides, Panic
<1>8. ASSUME NEW s \in Session, WriteDone(s) PROVE AtWork'
  BY <1>8 DEF WriteDone, Return
<1>9. ASSUME NEW s \in Session, WriteFails(s) PROVE AtWork'
  BY <1>9 DEF WriteFails, Return
<1>10. ASSUME NEW s \in Session, WriteTimesOut(s) PROVE AtWork'
  BY <1>10 DEF WriteTimesOut, Return
<1>11. ASSUME NEW s \in Session, PeerSends(s) PROVE AtWork'
  <2>1. \A t \in Session : Len(sent[t]) <= Len(sent'[t])
    BY <1>11 DEF PeerSends
  <2> QED
    BY <1>11, <2>1 DEF PeerSends
<1>12. ASSUME NEW s \in Session, WriteCut(s) PROVE AtWork'
  BY <1>12 DEF WriteCut, Return
<1>13. CASE UNCHANGED <<at, taken, sent, dest>>
  BY <1>13
<1> QED
  BY <1>1, <1>2, <1>3, <1>4, <1>5, <1>6, <1>7, <1>8, <1>9, <1>10, <1>11,
     <1>12, <1>13 DEF Next, Handler, Writing, Expire, PeerReads, PingTimesOut,
     vars

\* Nothing is written to a session before it registers.
LEMMA UntouchedStep ==
    TypeOK /\ AtWork /\ Untouched /\ [Next]_vars => Untouched'
<1> SUFFICES ASSUME TypeOK, AtWork, Untouched, [Next]_vars
             PROVE  Untouched'
  OBVIOUS
<1> USE ForwardingAssumption DEF TypeOK, AtWork, Busy, Untouched
<1>1. ASSUME NEW s \in Session, Register(s) PROVE Untouched'
  BY <1>1 DEF Register
<1>2. ASSUME NEW s \in Session, EndReadLoop(s) PROVE Untouched'
  BY <1>2 DEF EndReadLoop
<1>3. ASSUME NEW s \in Session, Forget(s) PROVE Untouched'
  BY <1>3 DEF Forget
<1>4. ASSUME NEW s \in Session, ReadMessage(s) PROVE Untouched'
  BY <1>4 DEF ReadMessage
<1>5. ASSUME NEW s \in Session, BeginWrite(s) PROVE Untouched'
  BY <1>5 DEF BeginWrite
<1>6. ASSUME NEW s \in Session, WriteToPooled(s) PROVE Untouched'
  BY <1>6 DEF WriteToPooled, Panic
<1>7. ASSUME NEW s \in Session, WriteCollides(s) PROVE Untouched'
  BY <1>7 DEF WriteCollides, Panic
<1>8. ASSUME NEW s \in Session, WriteDone(s) PROVE Untouched'
  BY <1>8 DEF WriteDone, Return
<1>9. ASSUME NEW s \in Session, WriteFails(s) PROVE Untouched'
  BY <1>9 DEF WriteFails, Return
<1>10. ASSUME NEW s \in Session, WriteTimesOut(s) PROVE Untouched'
  BY <1>10 DEF WriteTimesOut, Return
<1>11. ASSUME NEW s \in Session, WriteCut(s) PROVE Untouched'
  BY <1>11 DEF WriteCut, Return
<1>12. CASE UNCHANGED <<at, taken, log>>
  BY <1>12
<1> QED
  BY <1>1, <1>2, <1>3, <1>4, <1>5, <1>6, <1>7, <1>8, <1>9, <1>10, <1>11,
     <1>12 DEF Next, Handler, Writing, Expire, PeerSends, PeerReads,
     PingTimesOut, vars

\* A message written stays written once while handlers only go on.
LEMMA GoingOnKeepsWritten ==
    ASSUME TypeOK, WrittenOnce, log' = log,
           \A u \in Session :
               /\ taken'[u] \in Nat /\ taken[u] <= taken'[u]
               /\ Busy(u)' => \/ Busy(u) /\ taken'[u] = taken[u]
                              \/ taken[u] < taken'[u]
    PROVE  WrittenOnce'
<1> SUFFICES ASSUME NEW c \in Session, NEW i \in 1..Len(log[c])
             PROVE  /\ log[c][i].n \in 1..taken'[log[c][i].from]
                    /\ at'[log[c][i].from] \in {"send", "write"}
                           => log[c][i].n < taken'[log[c][i].from]
  BY DEF WrittenOnce, Busy
<1>1. log[c][i].from \in Session /\ log[c][i].n \in Nat
  BY EntryType
<1>2. /\ log[c][i].n \in 1..taken[log[c][i].from]
      /\ Busy(log[c][i].from) => log[c][i].n < taken[log[c][i].from]
  BY DEF WrittenOnce
<1>3. taken[log[c][i].from] \in Nat
  BY <1>1 DEF TypeOK
<1> QED
  BY <1>1, <1>2, <1>3 DEF Busy

\* A message is written at most once, after it has been taken.
LEMMA WrittenOnceStep ==
    TypeOK /\ AtWork /\ Untouched /\ WrittenOnce /\ [Next]_vars =>
    WrittenOnce'
<1> SUFFICES ASSUME TypeOK, AtWork, Untouched, WrittenOnce, [Next]_vars
             PROVE  WrittenOnce'
  OBVIOUS
<1> USE ForwardingAssumption
<1>1. ASSUME NEW s \in Session, Register(s) PROVE WrittenOnce'
  <2>1. /\ log' = log /\ taken' = taken
        /\ \A u \in Session : taken[u] \in Nat /\ (Busy(u)' => Busy(u))
    BY <1>1 DEF Register, Busy, TypeOK
  <2> QED
    BY <2>1, GoingOnKeepsWritten
<1>2. ASSUME NEW s \in Session, EndReadLoop(s) PROVE WrittenOnce'
  <2>1. /\ log' = log /\ taken' = taken
        /\ \A u \in Session : taken[u] \in Nat /\ (Busy(u)' => Busy(u))
    BY <1>2 DEF EndReadLoop, Busy, TypeOK
  <2> QED
    BY <2>1, GoingOnKeepsWritten
<1>3. ASSUME NEW s \in Session, Forget(s) PROVE WrittenOnce'
  <2>1. /\ log' = log /\ taken' = taken
        /\ \A u \in Session : taken[u] \in Nat /\ (Busy(u)' => Busy(u))
    BY <1>3 DEF Forget, Busy, TypeOK
  <2> QED
    BY <2>1, GoingOnKeepsWritten
<1>4. ASSUME NEW s \in Session, ReadMessage(s) PROVE WrittenOnce'
  <2>1. /\ \A u \in Session \ {s} : taken'[u] = taken[u] /\ at'[u] = at[u]
        /\ taken'[s] = taken[s] + 1 /\ log' = log
    BY <1>4, ReadEffects
  <2>2. \A u \in Session : taken[u] \in Nat
    BY DEF TypeOK
  <2>3. \A u \in Session :
            /\ taken'[u] \in Nat /\ taken[u] <= taken'[u]
            /\ Busy(u)' => \/ Busy(u) /\ taken'[u] = taken[u]
                           \/ taken[u] < taken'[u]
    BY <2>1, <2>2 DEF Busy
  <2> QED
    BY <2>1, <2>3, GoingOnKeepsWritten
<1>5. ASSUME NEW s \in Session, BeginWrite(s) PROVE WrittenOnce'
  <2>1. /\ log' = log /\ taken' = taken
        /\ \A u \in Session : taken[u] \in Nat /\ (Busy(u)' => Busy(u))
    BY <1>5 DEF BeginWrite, Busy, TypeOK
  <2> QED
    BY <2>1, GoingOnKeepsWritten
<1>6. ASSUME NEW s \in Session, WriteToPooled(s) PROVE WrittenOnce'
  <2>1. /\ log' = log /\ taken' = taken
        /\ \A u \in Session : taken[u] \in Nat /\ (Busy(u)' => Busy(u))
    BY <1>6 DEF WriteToPooled, Panic, Busy, TypeOK
  <2> QED
    BY <2>1, GoingOnKeepsWritten
<1>7. ASSUME NEW s \in Session, WriteCollides(s) PROVE WrittenOnce'
  <2>1. /\ log' = log /\ taken' = taken
        /\ \A u \in Session : taken[u] \in Nat /\ (Busy(u)' => Busy(u))
    BY <1>7 DEF WriteCollides, Panic, Busy, TypeOK
  <2> QED
    BY <2>1, GoingOnKeepsWritten
<1>8. ASSUME NEW s \in Session, WriteDone(s) PROVE WrittenOnce'
  <2>1. taken' = taken /\ at' = [at EXCEPT ![s] = "read"] /\ at[s] = "write"
    BY <1>8 DEF WriteDone, Return
  <2>2. Current(s).from = s /\ Current(s).n = taken[s] /\ taken[s] > 0
    BY <2>1 DEF Current, AtWork, Busy
  <2> SUFFICES ASSUME NEW c \in Session, NEW i \in 1..Len(log'[c])
               PROVE  /\ log'[c][i].n \in 1..taken'[log'[c][i].from]
                      /\ at'[log'[c][i].from] \in {"send", "write"}
                             => log'[c][i].n < taken'[log'[c][i].from]
    BY DEF WrittenOnce, Busy
  <2>3. CASE i \in 1..Len(log[c]) /\ log'[c][i] = log[c][i]
    <3>1. log[c][i].from \in Session
      BY <2>3, EntryType
    <3>2. /\ log[c][i].n \in 1..taken[log[c][i].from]
          /\ Busy(log[c][i].from) => log[c][i].n < taken[log[c][i].from]
      BY <2>3 DEF WrittenOnce
    <3> QED
      BY <2>1, <2>3, <3>1, <3>2 DEF Busy
  <2>4. CASE log'[c][i] = Current(s)
    <3>1. taken[s] \in Nat /\ at'[s] = "read"
      BY <2>1 DEF TypeOK
    <3> QED
      BY <2>1, <2>2, <2>4, <3>1
  <2>5. \/ i \in 1..Len(log[c]) /\ log'[c][i] = log[c][i]
        \/ log'[c][i] = Current(s)
    BY <1>8, WriteShape
  <2> QED
    BY <2>3, <2>4, <2>5
<1>9. ASSUME NEW s \in Session, WriteFails(s) PROVE WrittenOnce'
  <2>1. /\ log' = log /\ taken' = taken
        /\ \A u \in Session : taken[u] \in Nat /\ (Busy(u)' => Busy(u))
    BY <1>9 DEF WriteFails, Return, Busy, TypeOK
  <2> QED
    BY <2>1, GoingOnKeepsWritten
<1>10. ASSUME NEW s \in Session, WriteTimesOut(s) PROVE WrittenOnce'
  <2>1. /\ log' = log /\ taken' = taken
        /\ \A u \in Session : taken[u] \in Nat /\ (Busy(u)' => Busy(u))
    BY <1>10 DEF WriteTimesOut, Return, Busy, TypeOK
  <2> QED
    BY <2>1, GoingOnKeepsWritten
<1>11. ASSUME NEW s \in Session, WriteCut(s) PROVE WrittenOnce'
  <2>1. /\ log' = log /\ taken' = taken
        /\ \A u \in Session : taken[u] \in Nat /\ (Busy(u)' => Busy(u))
    BY <1>11 DEF WriteCut, Return, Busy, TypeOK
  <2> QED
    BY <2>1, GoingOnKeepsWritten
<1>12. CASE UNCHANGED <<at, taken, log>>
  BY <1>12 DEF WrittenOnce, Busy
<1> QED
  BY <1>1, <1>2, <1>3, <1>4, <1>5, <1>6, <1>7, <1>8, <1>9, <1>10, <1>11,
     <1>12 DEF Next, Handler, Writing, Expire, PeerSends, PeerReads,
     PingTimesOut, vars

\* What is written last is the last that was taken.
LEMMA OrderStep ==
    TypeOK /\ AtWork /\ WrittenOnce /\ PerSenderOrder /\ [Next]_vars =>
    PerSenderOrder'
<1> SUFFICES ASSUME TypeOK, AtWork, WrittenOnce, PerSenderOrder, [Next]_vars
             PROVE  PerSenderOrder'
  OBVIOUS
<1> USE ForwardingAssumption
<1>1. ASSUME NEW s \in Session, WriteDone(s) PROVE PerSenderOrder'
  <2>1. Current(s).from = s /\ Current(s).n = taken[s]
    BY DEF Current
  <2>2. \A c \in Session : \A i \in 1..Len(log[c]) :
            log[c][i].from = s => log[c][i].n < taken[s]
    BY <1>1 DEF WriteDone, WrittenOnce, Busy
  <2> SUFFICES ASSUME NEW c \in Session, NEW i \in 1..Len(log'[c]),
                      NEW j \in 1..Len(log'[c]), i < j,
                      log'[c][i].from = log'[c][j].from
               PROVE  log'[c][i].n < log'[c][j].n
    BY DEF PerSenderOrder
  <2>3. Len(log[c]) \in Nat
    BY LogLength
  <2>4. /\ \/ i \in 1..Len(log[c]) /\ log'[c][i] = log[c][i]
           \/ i = Len(log[c]) + 1
        /\ \/ j \in 1..Len(log[c]) /\ log'[c][j] = log[c][j]
           \/ j = Len(log[c]) + 1 /\ log'[c][j] = Current(s)
    BY <1>1, WriteShape
  <2>5. i \in 1..Len(log[c]) /\ log'[c][i] = log[c][i]
    BY <2>3, <2>4
  <2>6. CASE j \in 1..Len(log[c]) /\ log'[c][j] = log[c][j]
    BY <2>5, <2>6 DEF PerSenderOrder
  <2>7. CASE log'[c][j] = Current(s)
    BY <2>1, <2>2, <2>5, <2>7
  <2> QED
    BY <2>4, <2>6, <2>7
<1>2. CASE UNCHANGED log
  BY <1>2 DEF PerSenderOrder
<1> QED
  BY <1>1, <1>2 DEF Next, Handler, Writing, Register, EndReadLoop, Forget,
     ReadMessage, BeginWrite, WriteToPooled, Panic, WriteCollides, WriteCut,
     WriteFails, Return, WriteTimesOut, Expire, PingTimesOut, PeerSends,
     PeerReads, vars

-----------------------------------------------------------------------------
(* What a step may do to one session, one entry, one log.                  *)

\* A session goes one way through its life, and keeps its Conn.
LEMMA SessionStep ==
    ASSUME TypeOK, AtWork, [Next]_vars, NEW u \in Session
    PROVE  /\ at[u] = "gone" => at'[u] = "gone"
           /\ at'[u] = "new" => at[u] = "new"
           /\ Live(u)' => Live(u) \/ Register(u)
           /\ at'[u] \in {"read", "send", "write"} =>
                  at[u] \in {"read", "send", "write"} \/ Register(u)
           /\ conn'[u] = conn[u] \/ Register(u)
<1> DEFINE goal == /\ at[u] = "gone" => at'[u] = "gone"
                   /\ at'[u] = "new" => at[u] = "new"
                   /\ Live(u)' => Live(u) \/ Register(u)
                   /\ at'[u] \in {"read", "send", "write"} =>
                          at[u] \in {"read", "send", "write"} \/ Register(u)
                   /\ conn'[u] = conn[u] \/ Register(u)
<1> USE ForwardingAssumption DEF TypeOK, HandlerState, Live
<1>1. ASSUME NEW s \in Session, Register(s) PROVE goal
  BY <1>1 DEF Register
<1>2. ASSUME NEW s \in Session, EndReadLoop(s) PROVE goal
  BY <1>2 DEF EndReadLoop
<1>3. ASSUME NEW s \in Session, Forget(s) PROVE goal
  BY <1>3 DEF Forget
<1>4. ASSUME NEW s \in Session, ReadMessage(s) PROVE goal
  <2>1. CASE u = s
    BY <1>4, <2>1, ReadEffects
  <2>2. CASE u # s
    BY <1>4, <2>2, ReadEffects
  <2> QED
    BY <2>1, <2>2
<1>5. ASSUME NEW s \in Session, BeginWrite(s) PROVE goal
  BY <1>5 DEF BeginWrite
<1>6. ASSUME NEW s \in Session, WriteToPooled(s) PROVE goal
  BY <1>6 DEF WriteToPooled, Panic
<1>7. ASSUME NEW s \in Session, WriteCollides(s) PROVE goal
  BY <1>7 DEF WriteCollides, Panic
<1>8. ASSUME NEW s \in Session, WriteDone(s) PROVE goal
  BY <1>8 DEF WriteDone, Return
<1>9. ASSUME NEW s \in Session, WriteFails(s) PROVE goal
  BY <1>9 DEF WriteFails, Return
<1>10. ASSUME NEW s \in Session, WriteTimesOut(s) PROVE goal
  BY <1>10 DEF WriteTimesOut, Return
<1>11. ASSUME NEW s \in Session, Expire(s) PROVE goal
  BY <1>11 DEF Expire
<1>12. ASSUME NEW s \in Session, PeerSends(s) PROVE goal
  BY <1>12 DEF PeerSends
<1>13. ASSUME NEW s \in Session, PeerReads(s) PROVE goal
  BY <1>13 DEF PeerReads
<1>14. ASSUME NEW s \in Session, WriteCut(s) PROVE goal
  BY <1>14 DEF WriteCut, Return
<1>15. ASSUME NEW s \in Session, PingTimesOut(s) PROVE goal
  BY <1>15 DEF PingTimesOut
<1>16. CASE UNCHANGED vars
  BY <1>16 DEF vars
<1> QED
  BY <1>1, <1>2, <1>3, <1>4, <1>5, <1>6, <1>7, <1>8, <1>9, <1>10, <1>11,
     <1>12, <1>13, <1>14, <1>15,
     <1>16 DEF Next, Handler, Writing

\* What a handler works on changes when it takes, resolves, or returns.
LEMMA WorkStep ==
    ASSUME TypeOK, AtWork, [Next]_vars, NEW u \in Session
    PROVE  /\ at'[u] = "send" => \/ ReadMessage(u)
                                 \/ at[u] = "send" /\ UNCHANGED <<dest[u], taken[u]>>
           /\ at'[u] = "write" => \/ BeginWrite(u)
                                  \/ at[u] = "write" /\ UNCHANGED <<dest[u], taken[u]>>
           /\ at'[u] = "read" /\ at[u] # "read" =>
                  \/ Register(u) \/ WriteDone(u) \/ WriteFails(u)
                  \/ WriteTimesOut(u) \/ WriteCut(u)
           /\ taken'[u] = taken[u] \/ ReadMessage(u)
<1> DEFINE goal == /\ at'[u] = "send" => \/ ReadMessage(u)
                                         \/ at[u] = "send" /\ UNCHANGED <<dest[u], taken[u]>>
                   /\ at'[u] = "write" => \/ BeginWrite(u)
                                          \/ at[u] = "write" /\ UNCHANGED <<dest[u], taken[u]>>
                   /\ at'[u] = "read" /\ at[u] # "read" =>
                          \/ Register(u) \/ WriteDone(u) \/ WriteFails(u)
                          \/ WriteTimesOut(u) \/ WriteCut(u)
                   /\ taken'[u] = taken[u] \/ ReadMessage(u)
<1> USE ForwardingAssumption DEF TypeOK, HandlerState
<1>1. ASSUME NEW s \in Session, Register(s) PROVE goal
  BY <1>1 DEF Register
<1>2. ASSUME NEW s \in Session, EndReadLoop(s) PROVE goal
  BY <1>2 DEF EndReadLoop
<1>3. ASSUME NEW s \in Session, Forget(s) PROVE goal
  BY <1>3 DEF Forget
<1>4. ASSUME NEW s \in Session, ReadMessage(s) PROVE goal
  <2>1. CASE u = s
    BY <1>4, <2>1, ReadEffects
  <2>2. CASE u # s
    BY <1>4, <2>2, ReadEffects
  <2> QED
    BY <2>1, <2>2
<1>5. ASSUME NEW s \in Session, BeginWrite(s) PROVE goal
  <2>0. at'[s] = "write" /\ taken' = taken
    BY <1>5 DEF BeginWrite
  <2>1. CASE u = s
    BY <1>5, <2>0, <2>1
  <2>2. CASE u # s
    BY <1>5, <2>2 DEF BeginWrite
  <2> QED
    BY <2>1, <2>2
<1>6. ASSUME NEW s \in Session, WriteToPooled(s) PROVE goal
  BY <1>6 DEF WriteToPooled, Panic
<1>7. ASSUME NEW s \in Session, WriteCollides(s) PROVE goal
  BY <1>7 DEF WriteCollides, Panic
<1>8. ASSUME NEW s \in Session, WriteDone(s) PROVE goal
  BY <1>8 DEF WriteDone, Return
<1>9. ASSUME NEW s \in Session, WriteFails(s) PROVE goal
  BY <1>9 DEF WriteFails, Return
<1>10. ASSUME NEW s \in Session, WriteTimesOut(s) PROVE goal
  BY <1>10 DEF WriteTimesOut, Return
<1>11. ASSUME NEW s \in Session, Expire(s) PROVE goal
  BY <1>11 DEF Expire
<1>12. ASSUME NEW s \in Session, PeerSends(s) PROVE goal
  BY <1>12 DEF PeerSends
<1>13. ASSUME NEW s \in Session, PeerReads(s) PROVE goal
  BY <1>13 DEF PeerReads
<1>14. ASSUME NEW s \in Session, WriteCut(s) PROVE goal
  BY <1>14 DEF WriteCut, Return
<1>15. ASSUME NEW s \in Session, PingTimesOut(s) PROVE goal
  BY <1>15 DEF PingTimesOut
<1>16. CASE UNCHANGED vars
  BY <1>16 DEF vars
<1> QED
  BY <1>1, <1>2, <1>3, <1>4, <1>5, <1>6, <1>7, <1>8, <1>9, <1>10, <1>11,
     <1>12, <1>13, <1>14, <1>15,
     <1>16 DEF Next, Handler, Writing

\* What a peer has sent stays sent.
LEMMA SentStep ==
    ASSUME TypeOK, [Next]_vars, NEW u \in Session, NEW n \in 1..Len(sent[u])
    PROVE  sent'[u][n] = sent[u][n]
<1> DEFINE goal == sent'[u][n] = sent[u][n]
<1> USE ForwardingAssumption DEF TypeOK
<1>1. ASSUME NEW s \in Session, Register(s) PROVE goal
  BY <1>1 DEF Register
<1>2. ASSUME NEW s \in Session, EndReadLoop(s) PROVE goal
  BY <1>2 DEF EndReadLoop
<1>3. ASSUME NEW s \in Session, Forget(s) PROVE goal
  BY <1>3 DEF Forget
<1>4. ASSUME NEW s \in Session, ReadMessage(s) PROVE goal
  BY <1>4 DEF ReadMessage
<1>5. ASSUME NEW s \in Session, BeginWrite(s) PROVE goal
  BY <1>5 DEF BeginWrite
<1>6. ASSUME NEW s \in Session, WriteToPooled(s) PROVE goal
  BY <1>6 DEF WriteToPooled, Panic
<1>7. ASSUME NEW s \in Session, WriteCollides(s) PROVE goal
  BY <1>7 DEF WriteCollides, Panic
<1>8. ASSUME NEW s \in Session, WriteDone(s) PROVE goal
  BY <1>8 DEF WriteDone, Return
<1>9. ASSUME NEW s \in Session, WriteFails(s) PROVE goal
  BY <1>9 DEF WriteFails, Return
<1>10. ASSUME NEW s \in Session, WriteTimesOut(s) PROVE goal
  BY <1>10 DEF WriteTimesOut, Return
<1>11. ASSUME NEW s \in Session, Expire(s) PROVE goal
  BY <1>11 DEF Expire
<1>12. ASSUME NEW s \in Session, PeerSends(s) PROVE goal
  <2>1. PICK m \in Message : sent' = [sent EXCEPT ![s] = Append(@, m)]
    BY <1>12 DEF PeerSends
  <2>2. sent[u] \in Seq(Message)
    OBVIOUS
  <2>3. sent'[u] = sent[u] \/ sent'[u] = Append(sent[u], m)
    BY <2>1
  <2> QED
    BY <2>2, <2>3
<1>13. ASSUME NEW s \in Session, PeerReads(s) PROVE goal
  BY <1>13 DEF PeerReads
<1>14. ASSUME NEW s \in Session, WriteCut(s) PROVE goal
  BY <1>14 DEF WriteCut, Return
<1>15. ASSUME NEW s \in Session, PingTimesOut(s) PROVE goal
  BY <1>15 DEF PingTimesOut
<1>16. CASE UNCHANGED vars
  BY <1>16 DEF vars
<1> QED
  BY <1>1, <1>2, <1>3, <1>4, <1>5, <1>6, <1>7, <1>8, <1>9, <1>10, <1>11,
     <1>12, <1>13, <1>14, <1>15,
     <1>16 DEF Next, Handler, Writing

\* An entry of the map changes in three ways.
LEMMA MapStep ==
    ASSUME TypeOK, [Next]_vars, NEW i \in Id
    PROVE  \/ connections'[i] = connections[i]
           \/ \E s \in Session :
                  /\ IdOf[s] = i
                  /\ \/ Register(s) /\ connections'[i] = s
                     \/ (Forget(s) \/ Expire(s)) /\ connections'[i] = NoSession
<1> DEFINE goal == \/ connections'[i] = connections[i]
                   \/ \E s \in Session :
                          /\ IdOf[s] = i
                          /\ \/ Register(s) /\ connections'[i] = s
                             \/ (Forget(s) \/ Expire(s)) /\ connections'[i] = NoSession
<1> USE ForwardingAssumption DEF TypeOK
<1>1. ASSUME NEW s \in Session, Register(s) PROVE goal
  <2>1. connections' = [connections EXCEPT ![IdOf[s]] = s]
    BY <1>1 DEF Register
  <2>2. CASE i = IdOf[s]
    BY <1>1, <2>1, <2>2
  <2>3. CASE i # IdOf[s]
    BY <2>1, <2>3
  <2> QED
    BY <2>2, <2>3
<1>2. ASSUME NEW s \in Session, EndReadLoop(s) PROVE goal
  BY <1>2 DEF EndReadLoop
<1>3. ASSUME NEW s \in Session, Forget(s) PROVE goal
  <2>1. connections' = [connections EXCEPT ![IdOf[s]] = NoSession]
    BY <1>3 DEF Forget
  <2>2. CASE i = IdOf[s]
    BY <1>3, <2>1, <2>2
  <2>3. CASE i # IdOf[s]
    BY <2>1, <2>3
  <2> QED
    BY <2>2, <2>3
<1>4. ASSUME NEW s \in Session, ReadMessage(s) PROVE goal
  BY <1>4 DEF ReadMessage
<1>5. ASSUME NEW s \in Session, BeginWrite(s) PROVE goal
  BY <1>5 DEF BeginWrite
<1>6. ASSUME NEW s \in Session, WriteToPooled(s) PROVE goal
  BY <1>6 DEF WriteToPooled, Panic
<1>7. ASSUME NEW s \in Session, WriteCollides(s) PROVE goal
  BY <1>7 DEF WriteCollides, Panic
<1>8. ASSUME NEW s \in Session, WriteDone(s) PROVE goal
  BY <1>8 DEF WriteDone, Return
<1>9. ASSUME NEW s \in Session, WriteFails(s) PROVE goal
  BY <1>9 DEF WriteFails, Return
<1>10. ASSUME NEW s \in Session, WriteTimesOut(s) PROVE goal
  BY <1>10 DEF WriteTimesOut, Return
<1>11. ASSUME NEW s \in Session, Expire(s) PROVE goal
  <2>1. connections' = [connections EXCEPT ![IdOf[s]] = NoSession]
    BY <1>11 DEF Expire
  <2>2. CASE i = IdOf[s]
    BY <1>11, <2>1, <2>2
  <2>3. CASE i # IdOf[s]
    BY <2>1, <2>3
  <2> QED
    BY <2>2, <2>3
<1>12. ASSUME NEW s \in Session, PeerSends(s) PROVE goal
  BY <1>12 DEF PeerSends
<1>13. ASSUME NEW s \in Session, PeerReads(s) PROVE goal
  BY <1>13 DEF PeerReads
<1>14. ASSUME NEW s \in Session, WriteCut(s) PROVE goal
  BY <1>14 DEF WriteCut, Return
<1>15. ASSUME NEW s \in Session, PingTimesOut(s) PROVE goal
  BY <1>15 DEF PingTimesOut
<1>16. CASE UNCHANGED vars
  BY <1>16 DEF vars
<1> QED
  BY <1>1, <1>2, <1>3, <1>4, <1>5, <1>6, <1>7, <1>8, <1>9, <1>10, <1>11,
     <1>12, <1>13, <1>14, <1>15,
     <1>16 DEF Next, Handler, Writing

\* Conns do not open again, nor is a race forgotten.
LEMMA GrowStep ==
    ASSUME TypeOK, [Next]_vars
    PROVE  /\ closed \subseteq closed'
           /\ broken \subseteq broken'
           /\ raced \subseteq raced'
<1> DEFINE goal == /\ closed \subseteq closed'
                   /\ broken \subseteq broken'
                   /\ raced \subseteq raced'
<1>1. ASSUME NEW s \in Session, Register(s) PROVE goal
  BY <1>1 DEF Register
<1>2. ASSUME NEW s \in Session, EndReadLoop(s) PROVE goal
  BY <1>2 DEF EndReadLoop
<1>3. ASSUME NEW s \in Session, Forget(s) PROVE goal
  BY <1>3 DEF Forget
<1>4. ASSUME NEW s \in Session, ReadMessage(s) PROVE goal
  BY <1>4 DEF ReadMessage
<1>5. ASSUME NEW s \in Session, BeginWrite(s) PROVE goal
  BY <1>5 DEF BeginWrite
<1>6. ASSUME NEW s \in Session, WriteToPooled(s) PROVE goal
  BY <1>6 DEF WriteToPooled, Panic
<1>7. ASSUME NEW s \in Session, WriteCollides(s) PROVE goal
  BY <1>7 DEF WriteCollides, Panic
<1>8. ASSUME NEW s \in Session, WriteDone(s) PROVE goal
  BY <1>8 DEF WriteDone, Return
<1>9. ASSUME NEW s \in Session, WriteFails(s) PROVE goal
  BY <1>9 DEF WriteFails, Return
<1>10. ASSUME NEW s \in Session, WriteTimesOut(s) PROVE goal
  BY <1>10 DEF WriteTimesOut, Return
<1>11. ASSUME NEW s \in Session, Expire(s) PROVE goal
  BY <1>11 DEF Expire
<1>12. ASSUME NEW s \in Session, PeerSends(s) PROVE goal
  BY <1>12 DEF PeerSends
<1>13. ASSUME NEW s \in Session, PeerReads(s) PROVE goal
  BY <1>13 DEF PeerReads
<1>14. ASSUME NEW s \in Session, WriteCut(s) PROVE goal
  BY <1>14 DEF WriteCut, Return
<1>15. ASSUME NEW s \in Session, PingTimesOut(s) PROVE goal
  BY <1>15 DEF PingTimesOut
<1>16. CASE UNCHANGED vars
  BY <1>16 DEF vars
<1> QED
  BY <1>1, <1>2, <1>3, <1>4, <1>5, <1>6, <1>7, <1>8, <1>9, <1>10, <1>11,
     <1>12, <1>13, <1>14, <1>15,
     <1>16 DEF Next, Handler, Writing

\* A log only grows, by what is written to it.
LEMMA LogStep ==
    ASSUME TypeOK, AtWork, [Next]_vars, NEW c \in Session
    PROVE  /\ \A i \in 1..Len(log[c]) : i \in 1..Len(log'[c]) /\ log'[c][i] = log[c][i]
           /\ \A i \in 1..Len(log'[c]) :
                  \/ i \in 1..Len(log[c]) /\ log'[c][i] = log[c][i]
                  \/ \E s \in Session : /\ WriteDone(s) /\ dest[s] = c
                                        /\ log'[c][i] = Current(s)
<1> DEFINE goal == /\ \A i \in 1..Len(log[c]) : i \in 1..Len(log'[c]) /\ log'[c][i] = log[c][i]
                   /\ \A i \in 1..Len(log'[c]) :
                          \/ i \in 1..Len(log[c]) /\ log'[c][i] = log[c][i]
                          \/ \E s \in Session : /\ WriteDone(s) /\ dest[s] = c
                                                /\ log'[c][i] = Current(s)
<1>1. ASSUME NEW s \in Session, Register(s) PROVE goal
  BY <1>1 DEF Register
<1>2. ASSUME NEW s \in Session, EndReadLoop(s) PROVE goal
  BY <1>2 DEF EndReadLoop
<1>3. ASSUME NEW s \in Session, Forget(s) PROVE goal
  BY <1>3 DEF Forget
<1>4. ASSUME NEW s \in Session, ReadMessage(s) PROVE goal
  BY <1>4 DEF ReadMessage
<1>5. ASSUME NEW s \in Session, BeginWrite(s) PROVE goal
  BY <1>5 DEF BeginWrite
<1>6. ASSUME NEW s \in Session, WriteToPooled(s) PROVE goal
  BY <1>6 DEF WriteToPooled, Panic
<1>7. ASSUME NEW s \in Session, WriteCollides(s) PROVE goal
  BY <1>7 DEF WriteCollides, Panic
<1>8. ASSUME NEW s \in Session, WriteDone(s) PROVE goal
  <2>1. /\ \A i \in 1..Len(log[c]) : i \in 1..Len(log'[c]) /\ log'[c][i] = log[c][i]
        /\ \A i \in 1..Len(log'[c]) :
               \/ i \in 1..Len(log[c]) /\ log'[c][i] = log[c][i]
               \/ c = dest[s] /\ log'[c][i] = Current(s)
    BY <1>8, WriteShape
  <2> QED
    BY <1>8, <2>1
<1>9. ASSUME NEW s \in Session, WriteFails(s) PROVE goal
  BY <1>9 DEF WriteFails, Return
<1>10. ASSUME NEW s \in Session, WriteTimesOut(s) PROVE goal
  BY <1>10 DEF WriteTimesOut, Return
<1>11. ASSUME NEW s \in Session, Expire(s) PROVE goal
  BY <1>11 DEF Expire
<1>12. ASSUME NEW s \in Session, PeerSends(s) PROVE goal
  BY <1>12 DEF PeerSends
<1>13. ASSUME NEW s \in Session, PeerReads(s) PROVE goal
  BY <1>13 DEF PeerReads
<1>14. ASSUME NEW s \in Session, WriteCut(s) PROVE goal
  BY <1>14 DEF WriteCut, Return
<1>15. ASSUME NEW s \in Session, PingTimesOut(s) PROVE goal
  BY <1>15 DEF PingTimesOut
<1>16. CASE UNCHANGED vars
  BY <1>16 DEF vars
<1> QED
  BY <1>1, <1>2, <1>3, <1>4, <1>5, <1>6, <1>7, <1>8, <1>9, <1>10, <1>11,
     <1>12, <1>13, <1>14, <1>15,
     <1>16 DEF Next, Handler, Writing

LEMMA UndisturbedStep ==
    ASSUME TypeOK, AtWork, [Next]_vars, NEW c \in Session, Undisturbed(c)'
    PROVE  Undisturbed(c) \/ Register(c)
<1>1. at[c] \in {"read", "send", "write"} \/ Register(c)
  BY SessionStep DEF Undisturbed
<1>2. c \notin closed \cup broken \cup raced
  BY GrowStep DEF Undisturbed
<1>3. \A d \in Session \ {c} : IdOf[d] = IdOf[c] => at[d] = "new"
  BY SessionStep DEF Undisturbed
<1>4. connections[IdOf[c]] = c \/ Register(c)
  <2>1. connections'[IdOf[c]] = c /\ IdOf[c] \in Id /\ c # NoSession
    BY ForwardingAssumption DEF Undisturbed
  <2> QED
    BY <2>1, MapStep
<1> QED
  BY <1>1, <1>2, <1>3, <1>4 DEF Undisturbed

-----------------------------------------------------------------------------
(* Who has which Conn, and who is under which id.                          *)

LEMMA ConnNamesStep ==
    TypeOK /\ AtWork /\ ConnNames /\ [Next]_vars => ConnNames'
<1> SUFFICES ASSUME TypeOK, AtWork, ConnNames, [Next]_vars,
                    NEW t \in Session, conn'[t] # t
             PROVE  at'[conn'[t]] = "gone" /\ conn'[conn'[t]] = conn'[t]
  BY DEF ConnNames
<1> DEFINE k == conn'[t]
<1>1. conn \in [Session -> Session]
  BY DEF TypeOK
<1>2. /\ k \in Session /\ k # t
      /\ at[k] = "gone" /\ conn[k] = k
  <2>1. CASE Register(t)
    <3>1. PICK x \in {t} \cup {conn[d] : d \in {e \in Session : at[e] = "gone"}} :
              conn' = [conn EXCEPT ![t] = x]
      BY <2>1 DEF Register
    <3>2. k = x
      BY <1>1, <3>1
    <3>3. PICK d \in Session : at[d] = "gone" /\ k = conn[d]
      BY <3>1, <3>2
    <3>4. CASE conn[d] = d
      BY <1>1, <3>3, <3>4
    <3>5. CASE conn[d] # d
      BY <1>1, <3>3, <3>5 DEF ConnNames
    <3> QED
      BY <3>4, <3>5
  <2>2. CASE ~Register(t)
    <3>1. k = conn[t]
      BY <2>2, SessionStep
    <3> QED
      BY <1>1, <3>1 DEF ConnNames
  <2> QED
    BY <2>1, <2>2
<1>3. ~Register(k)
  BY <1>2 DEF Register
<1> QED
  BY <1>2, <1>3, SessionStep

\* Two sessions do not register in one step.
LEMMA OneRegisters ==
    ASSUME TypeOK, NEW c \in Session, NEW d \in Session, Register(c), Register(d)
    PROVE  c = d
BY DEF TypeOK, Register

LEMMA OneHolderStep ==
    TypeOK /\ AtWork /\ OneHolder /\ [Next]_vars => OneHolder'
<1> SUFFICES ASSUME TypeOK, AtWork, OneHolder, [Next]_vars,
                    NEW c \in Session, NEW d \in Session,
                    Live(c)', Live(d)', conn'[c] = conn'[d]
             PROVE  c = d
  BY DEF OneHolder
<1>1. ASSUME NEW x \in Session, NEW y \in Session, x # y, Register(x),
             Live(y)', conn'[x] = conn'[y]
      PROVE  FALSE
  <2>1. ~Register(y)
    BY <1>1, OneRegisters
  <2>2. Live(y) /\ conn'[y] = conn[y]
    BY <1>1, <2>1, SessionStep
  <2>3. Holders(conn'[x]) = {}
    BY <1>1 DEF Register, TypeOK
  <2> QED
    BY <1>1, <2>2, <2>3 DEF Holders
<1>2. CASE ~Register(c) /\ ~Register(d)
  BY <1>2, SessionStep DEF OneHolder
<1> QED
  BY <1>1, <1>2

LEMMA MapHasIdsStep ==
    TypeOK /\ AtWork /\ MapHasIds /\ [Next]_vars => MapHasIds'
<1> SUFFICES ASSUME TypeOK, AtWork, MapHasIds, [Next]_vars,
                    NEW i \in Id, connections'[i] # NoSession
             PROVE  IdOf[connections'[i]] = i /\ at'[connections'[i]] # "new"
  BY DEF MapHasIds
<1>1. CASE connections'[i] = connections[i]
  BY <1>1, SessionStep DEF MapHasIds, TypeOK
<1>2. ASSUME NEW s \in Session, IdOf[s] = i, Register(s), connections'[i] = s
      PROVE  IdOf[connections'[i]] = i /\ at'[connections'[i]] # "new"
  BY <1>2 DEF Register, TypeOK
<1> QED
  BY <1>1, <1>2, MapStep

-----------------------------------------------------------------------------
(* Where messages go.                                                      *)

\* To whom a message is addressed does not change.
LEMMA AddressedStep ==
    ASSUME TypeOK, [Next]_vars, NEW c \in Session, NEW s \in Session,
           NEW n \in 1..Len(sent[s])
    PROVE  Addressed([from |-> s, n |-> n], c)' <=> Addressed([from |-> s, n |-> n], c)
BY SentStep DEF Addressed

\* The message at work in two states.
LEMMA CurrentStep ==
    ASSUME TypeOK, AtWork, [Next]_vars, NEW s \in Session, Busy(s),
           taken'[s] = taken[s], NEW c \in Session
    PROVE  /\ Addressed(Current(s), c)' <=> Addressed(Current(s), c)
           /\ sent'[s][taken'[s]] = sent[s][taken[s]]
<1>1. taken[s] \in 1..Len(sent[s])
  BY DEF AtWork, TypeOK
<1> QED
  BY <1>1, SentStep DEF Addressed, Current

\* What ReadMessage looks up, when it finds somebody.
LEMMA LookupFinds ==
    ASSUME TypeOK, AtWork, MapHasIds, NEW s \in Session, ReadMessage(s),
           at'[s] = "send"
    PROVE  \E t \in Session :
               /\ t = Target(s, sent[s][taken[s] + 1])
               /\ dest'[s] = conn[t] /\ at[t] # "new"
               /\ Addressed(Current(s), t)'
<1>1. PICK t \in Session : /\ t = Target(s, sent[s][taken[s] + 1])
                           /\ dest' = [dest EXCEPT ![s] = conn[t]]
  BY ReadShape
<1>2. dest'[s] = conn[t]
  BY <1>1 DEF TypeOK
<1>3. Current(s)' = [from |-> s, n |-> taken[s] + 1] /\ sent' = sent /\ at[s] = "read"
  BY ReadEffects DEF Current
<1>4. CASE sent[s][taken[s] + 1] = Reply
  <2>1. t = s
    BY <1>1, <1>4, ForwardingAssumption DEF Target
  <2> QED
    BY <1>1, <1>2, <1>3, <1>4, <2>1 DEF Addressed
<1>5. CASE sent[s][taken[s] + 1] # Reply
  <2>1. sent[s][taken[s] + 1] \in Id /\ t = connections[sent[s][taken[s] + 1]]
    BY <1>1, <1>5, ForwardingAssumption DEF Target
  <2>2. IdOf[t] = sent[s][taken[s] + 1] /\ at[t] # "new"
    BY <2>1, ForwardingAssumption DEF MapHasIds
  <2> QED
    BY <1>1, <1>2, <1>3, <2>2 DEF Addressed
<1> QED
  BY <1>4, <1>5

LEMMA SendsAddressedStep ==
    /\ TypeOK /\ AtWork /\ ConnNames /\ MapHasIds /\ SendsAddressed /\ [Next]_vars
    => SendsAddressed'
<1> SUFFICES ASSUME TypeOK, AtWork, ConnNames, MapHasIds, SendsAddressed,
                    [Next]_vars, NEW s \in Session, at'[s] = "send"
             PROVE  \/ at'[dest'[s]] = "gone"
                    \/ /\ at'[dest'[s]] # "new"
                       /\ conn'[dest'[s]] = dest'[s]
                       /\ Addressed(Current(s), dest[s])'
  BY DEF SendsAddressed
<1>1. CASE ReadMessage(s)
  <2>1. PICK t \in Session : /\ dest'[s] = conn[t] /\ at[t] # "new"
                             /\ Addressed(Current(s), t)'
    BY <1>1, LookupFinds
  <2>2. conn' = conn
    BY <1>1 DEF ReadMessage
  <2>3. CASE conn[t] = t
    BY <2>1, <2>2, <2>3, SessionStep DEF Addressed
  <2>4. CASE conn[t] # t
    <3>1. conn[t] \in Session /\ at[conn[t]] = "gone"
      BY <2>4 DEF ConnNames, TypeOK
    <3> QED
      BY <2>1, <3>1, SessionStep
  <2> QED
    BY <2>3, <2>4
<1>2. CASE at[s] = "send" /\ UNCHANGED <<dest[s], taken[s]>>
  <2>1. dest[s] \in Session
    BY <1>2 DEF AtWork, Busy
  <2>2. CASE at[dest[s]] = "gone"
    BY <1>2, <2>1, <2>2, SessionStep
  <2>3. CASE at[dest[s]] # "gone"
    <3>1. /\ at[dest[s]] # "new" /\ conn[dest[s]] = dest[s]
          /\ Addressed(Current(s), dest[s])
      BY <1>2, <2>3 DEF SendsAddressed
    <3>2. at'[dest[s]] # "new" /\ conn'[dest[s]] = dest[s]
      BY <2>1, <3>1, SessionStep DEF Register
    <3>3. sent'[s][taken'[s]] = sent[s][taken[s]]
      BY <1>2, CurrentStep DEF Busy
    <3> QED
      BY <1>2, <3>1, <3>2, <3>3 DEF Addressed, Current
  <2> QED
    BY <2>2, <2>3
<1> QED
  BY <1>1, <1>2, WorkStep

LEMMA WritesAddressedStep ==
    /\ TypeOK /\ AtWork /\ SendsAddressed /\ WritesAddressed /\ [Next]_vars
    => WritesAddressed'
<1> SUFFICES ASSUME TypeOK, AtWork, SendsAddressed, WritesAddressed, [Next]_vars,
                    NEW s \in Session, at'[s] = "write", conn'[dest'[s]] = dest'[s]
             PROVE  Addressed(Current(s), dest[s])'
  BY DEF WritesAddressed
<1>1. CASE BeginWrite(s)
  <2>1. PICK c \in Holders(dest[s]) : dest' = [dest EXCEPT ![s] = c]
    BY <1>1 DEF BeginWrite
  <2>2. at[s] = "send" /\ taken' = taken /\ sent' = sent /\ conn' = conn
    BY <1>1 DEF BeginWrite
  <2>3. dest'[s] = c /\ c \in Session /\ conn[c] = dest[s] /\ Live(c)
    BY <2>1 DEF Holders, TypeOK
  <2>4. dest[s] = c
    BY <2>2, <2>3
  <2>5. Addressed(Current(s), dest[s])
    BY <2>2, <2>3, <2>4 DEF SendsAddressed, Live
  <2> QED
    BY <2>2, <2>3, <2>4, <2>5 DEF Addressed, Current
<1>2. CASE at[s] = "write" /\ UNCHANGED <<dest[s], taken[s]>>
  <2>1. dest[s] \in Session /\ at[dest[s]] # "new"
    BY <1>2 DEF AtWork, Busy
  <2>2. conn'[dest[s]] = conn[dest[s]]
    BY <2>1, SessionStep DEF Register
  <2>3. Addressed(Current(s), dest[s])
    BY <1>2, <2>2 DEF WritesAddressed
  <2>4. sent'[s][taken'[s]] = sent[s][taken[s]]
    BY <1>2, CurrentStep DEF Busy
  <2> QED
    BY <1>2, <2>3, <2>4 DEF Addressed, Current
<1> QED
  BY <1>1, <1>2, WorkStep

LEMMA OnlyAddressedStep ==
    /\ TypeOK /\ AtWork /\ Untouched /\ WrittenOnce /\ WritesAddressed
    /\ OnlyAddressed /\ [Next]_vars
    => OnlyAddressed'
<1> SUFFICES ASSUME TypeOK, AtWork, Untouched, WrittenOnce, WritesAddressed,
                    OnlyAddressed, [Next]_vars, NEW c \in Session, conn'[c] = c,
                    NEW i \in 1..Len(log'[c])
             PROVE  Addressed(log[c][i], c)'
  BY DEF OnlyAddressed
<1>1. ASSUME i \in 1..Len(log[c]), log'[c][i] = log[c][i]
      PROVE  Addressed(log[c][i], c)'
  <2>1. ~Register(c)
    BY <1>1 DEF Register, Untouched
  <2>2. Addressed(log[c][i], c)
    BY <1>1, <2>1, SessionStep DEF OnlyAddressed
  <2>3. log[c][i].from \in Session /\ log[c][i].n \in 1..taken[log[c][i].from]
    BY <1>1, EntryType DEF WrittenOnce
  <2>4. log[c][i].n \in 1..Len(sent[log[c][i].from])
    BY <2>3 DEF AtWork, TypeOK
  <2> QED
    BY <1>1, <2>2, <2>3, <2>4, SentStep DEF Addressed
<1>2. ASSUME NEW s \in Session, WriteDone(s), dest[s] = c,
             log'[c][i] = Current(s)
      PROVE  Addressed(log[c][i], c)'
  <2>1. at[s] = "write" /\ conn' = conn /\ sent' = sent
    BY <1>2 DEF WriteDone
  <2>2. Addressed(Current(s), c)
    BY <1>2, <2>1 DEF WritesAddressed
  <2> QED
    BY <1>2, <2>1, <2>2 DEF Addressed
<1> QED
  BY <1>1, <1>2, LogStep

-----------------------------------------------------------------------------
(* What an undisturbed session is sent.                                    *)

LEMMA ForwardFoundStep ==
    /\ TypeOK /\ AtWork /\ OneHolder /\ MapHasIds /\ ForwardFound
    /\ [Next]_vars
    => ForwardFound'
<1> SUFFICES ASSUME TypeOK, AtWork, OneHolder, MapHasIds, ForwardFound,
                    [Next]_vars, NEW s \in Session, Busy(s)',
                    sent'[s][taken'[s]] \in Id
             PROVE  /\ \E t \in Session :
                           IdOf[t] = sent'[s][taken'[s]] /\ at'[t] # "new"
                    /\ \A c \in Session :
                           Undisturbed(c)' /\ IdOf[c] = sent'[s][taken'[s]] =>
                           dest'[s] = IF at'[s] = "send" THEN conn'[c] ELSE c
  BY DEF ForwardFound
<1> DEFINE m == sent[s][taken[s]]
\* Whoever is undisturbed after the step was so before, if the id was there.
<1>1. ASSUME NEW t \in Session, at[t] # "new",
             NEW c \in Session, Undisturbed(c)', IdOf[c] = IdOf[t]
      PROVE  Undisturbed(c) /\ ~Register(c)
  <2>1. t # c => at'[t] = "new"
    BY <1>1 DEF Undisturbed
  <2>2. t = c
    BY <1>1, <2>1, SessionStep
  <2> QED
    BY <1>1, <2>2, UndisturbedStep DEF Register
<1>2. CASE ReadMessage(s)
  <2>1. at'[s] = "send"
    BY <1>2, ReadEffects DEF Busy
  <2>2. PICK t \in Session :
            /\ t = Target(s, sent[s][taken[s] + 1])
            /\ dest'[s] = conn[t] /\ at[t] # "new"
    BY <1>2, <2>1, LookupFinds
  <2>3. sent'[s][taken'[s]] = sent[s][taken[s] + 1] /\ conn' = conn
    BY <1>2, ReadEffects
  <2>4. t = connections[sent[s][taken[s] + 1]] /\ sent[s][taken[s] + 1] \in Id
    BY <2>2, <2>3, ForwardingAssumption DEF Target
  <2>5. IdOf[t] = sent[s][taken[s] + 1]
    BY <2>4, ForwardingAssumption DEF MapHasIds
  <2>6. ASSUME NEW c \in Session, Undisturbed(c)', IdOf[c] = sent[s][taken[s] + 1]
        PROVE  dest'[s] = conn'[c]
    <3>1. Undisturbed(c)
      BY <1>1, <2>2, <2>5, <2>6
    <3> QED
      BY <2>2, <2>3, <2>4, <2>6, <3>1 DEF Undisturbed
  <2> QED
    BY <2>1, <2>2, <2>3, <2>5, <2>6, SessionStep
<1>3. CASE ~ReadMessage(s)
  <2>1. Busy(s) /\ taken'[s] = taken[s]
    BY <1>3, WorkStep DEF Busy, BeginWrite
  <2>2. sent'[s][taken'[s]] = m
    BY <2>1, CurrentStep
  <2>3. PICK t \in Session : IdOf[t] = m /\ at[t] # "new"
    BY <2>1, <2>2 DEF ForwardFound
  <2>4. ASSUME NEW c \in Session, Undisturbed(c)', IdOf[c] = m
        PROVE  dest'[s] = IF at'[s] = "send" THEN conn'[c] ELSE c
    <3>1. Undisturbed(c) /\ ~Register(c)
      BY <1>1, <2>3, <2>4
    <3>2. conn'[c] = conn[c]
      BY <3>1, SessionStep
    <3>3. dest[s] = IF at[s] = "send" THEN conn[c] ELSE c
      BY <2>1, <2>2, <2>4, <3>1 DEF ForwardFound
    <3>4. CASE BeginWrite(s)
      <4>1. PICK d \in Holders(dest[s]) : /\ dest' = [dest EXCEPT ![s] = d]
                                          /\ at' = [at EXCEPT ![s] = "write"]
        BY <3>4 DEF BeginWrite
      <4>2. at[s] = "send"
        BY <3>4 DEF BeginWrite
      <4>3. d \in Session /\ Live(d) /\ conn[d] = conn[c]
        BY <3>3, <4>1, <4>2 DEF Holders
      <4>4. Live(c)
        BY <3>1 DEF Undisturbed, Live
      <4>5. d = c
        BY <4>3, <4>4 DEF OneHolder
      <4> QED
        BY <4>1, <4>5 DEF TypeOK
    <3>5. CASE ~BeginWrite(s)
      BY <1>3, <3>2, <3>3, <3>5, WorkStep DEF Busy
    <3> QED
      BY <3>4, <3>5
  <2> QED
    BY <2>2, <2>3, <2>4, SessionStep
<1> QED
  BY <1>2, <1>3

LEMMA NoGapsStep ==
    FwdInv /\ [Next]_vars => NoGaps'
<1> SUFFICES ASSUME FwdInv, [Next]_vars,
                    NEW c \in Session, NEW s \in Session, Undisturbed(c)',
                    NEW i \in 1..Len(log'[c]), NEW m \in 1..taken'[s],
                    log'[c][i].from = s, log'[c][i].n < m,
                    sent'[s][m] = IdOf[c]
             PROVE  \/ \E j \in 1..Len(log'[c]) : log'[c][j] = [from |-> s, n |-> m]
                    \/ m = taken'[s] /\ at'[s] # "read"
  BY DEF NoGaps
<1> USE DEF FwdInv
<1> DEFINE Written == \E j \in 1..Len(log'[c]) : log'[c][j] = [from |-> s, n |-> m]
<1>1. IdOf[c] \in Id /\ taken[s] \in Nat
  BY ForwardingAssumption DEF TypeOK
<1>2. \A u \in Session : WriteDone(u) => taken' = taken
  BY DEF WriteDone
<1>3. i \in 1..Len(log[c]) /\ log'[c][i] = log[c][i]
  <2>1. ASSUME NEW u \in Session, WriteDone(u), log'[c][i] = Current(u)
        PROVE  FALSE
    BY <1>1, <1>2, <2>1 DEF Current
  <2> QED
    BY <2>1, LogStep
<1>4. Undisturbed(c)
  <2>1. ~Register(c)
    BY <1>3 DEF Register, Untouched
  <2> QED
    BY <2>1, UndisturbedStep
<1>5. CASE m \in 1..taken[s]
  <2>1. m \in 1..Len(sent[s])
    BY <1>1, <1>5 DEF AtWork, TypeOK
  <2>2. sent[s][m] = IdOf[c]
    BY <2>1, SentStep
  <2>3. \/ \E j \in 1..Len(log[c]) : log[c][j] = [from |-> s, n |-> m]
        \/ m = taken[s] /\ at[s] # "read"
    BY <1>3, <1>4, <1>5, <2>2 DEF NoGaps
  <2>4. CASE \E j \in 1..Len(log[c]) : log[c][j] = [from |-> s, n |-> m]
    BY <2>4, LogStep
  <2>5. CASE m = taken[s] /\ at[s] # "read"
    <3>1. taken'[s] = taken[s]
      BY <2>5, WorkStep DEF ReadMessage
    <3>2. CASE at'[s] # "read"
      BY <2>5, <3>1, <3>2
    <3>3. CASE Register(s)
      BY <1>5, <2>5, <3>3 DEF Register, Untouched
    <3>4. ASSUME at[s] = "write" PROVE dest[s] = c
      BY <1>1, <1>4, <2>2, <2>5, <3>4 DEF ForwardFound, Busy
    <3>5. CASE WriteDone(s)
      <4>1. dest[s] = c
        BY <3>4, <3>5 DEF WriteDone
      <4>2. \E j \in 1..Len(log'[c]) : log'[c][j] = Current(s)
        BY <3>5, <4>1, WriteShape
      <4> QED
        BY <2>5, <4>2 DEF Current
    <3>6. CASE WriteFails(s) \/ WriteTimesOut(s)
      BY <1>4, <3>4, <3>6 DEF WriteFails, WriteTimesOut, Undisturbed
    <3>7. CASE WriteCut(s)
      BY <3>4, <3>7 DEF WriteCut, Undisturbed
    <3> QED
      BY <2>5, <3>2, <3>3, <3>5, <3>6, <3>7, WorkStep
  <2> QED
    BY <2>3, <2>4, <2>5
<1>6. CASE m \notin 1..taken[s]
  <2>1. ReadMessage(s)
    BY <1>6, WorkStep
  <2>2. m = taken[s] + 1 /\ taken'[s] = taken[s] + 1 /\ sent' = sent
    BY <1>1, <1>6, <2>1, ReadEffects
  <2>3. sent[s][taken[s] + 1] = IdOf[c]
    BY <2>2
  <2>4. Target(s, sent[s][taken[s] + 1]) = c
    BY <1>1, <1>4, <2>3, ForwardingAssumption DEF Target, Undisturbed
  <2>5. c # NoSession
    BY ForwardingAssumption
  <2>6. at'[s] = "send"
    BY <2>1, <2>4, <2>5 DEF ReadMessage, TypeOK
  <2> QED
    BY <2>2, <2>6
<1> QED
  BY <1>5, <1>6

-----------------------------------------------------------------------------

THEOREM InvHolds == Spec => []FwdInv
<1>1. FwdInv /\ [Next]_vars => FwdInv'
  <2> SUFFICES ASSUME FwdInv, [Next]_vars PROVE FwdInv'
    OBVIOUS
  <2>1. TypeOK' /\ AtWork'
    BY TypeStep, AtWorkStep DEF FwdInv
  <2>2. Untouched' /\ WrittenOnce' /\ PerSenderOrder'
    BY UntouchedStep, WrittenOnceStep, OrderStep DEF FwdInv
  <2>3. ConnNames' /\ OneHolder' /\ MapHasIds'
    BY ConnNamesStep, OneHolderStep, MapHasIdsStep DEF FwdInv
  <2>4. SendsAddressed' /\ WritesAddressed' /\ OnlyAddressed'
    BY SendsAddressedStep, WritesAddressedStep, OnlyAddressedStep DEF FwdInv
  <2>5. ForwardFound' /\ NoGaps'
    BY ForwardFoundStep, NoGapsStep DEF FwdInv
  <2> QED
    BY <2>1, <2>2, <2>3, <2>4, <2>5 DEF FwdInv
<1> QED
  BY <1>1, InitInv, PTL DEF Spec

\* The variables of the forwarding model keep their types.
THEOREM TypeCorrect == Spec => []TypeOK
BY InvHolds, PTL DEF FwdInv

\* Messages of one session reach another in the order of their sending, each
\* at most once: handleMessage is called in the read loop.
THEOREM OrderKept == Spec => []PerSenderOrder
BY InvHolds, PTL DEF FwdInv

\* A session on a Conn that none had before it is written nothing that is not
\* for its id or an answer to it, however targets are replaced between lookup
\* and write (forwardMessage, sendMessage).
THEOREM NothingMisdelivered == Spec => []OnlyAddressed
BY InvHolds, PTL DEF FwdInv

\* A session without rivals that can be written to gets all that a sender
\* sends it once it has got something (forwardMessage).
THEOREM NothingMissing == Spec => []NoGaps
BY InvHolds, PTL DEF FwdInv

=============================================================================
