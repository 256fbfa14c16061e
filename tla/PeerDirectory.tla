--------------------------- MODULE PeerDirectory ----------------------------
(***************************************************************************)
(* What a map from peer ids to sessions promises to those who look peers   *)
(* up in it, whatever the interleaving of the goroutines that maintain it: *)
(*   - a session enters the map once, under the id it announced, and from  *)
(*     then on is either there or has left for good (NoReturn);            *)
(*   - an entry that is in the map belongs to a session still in service   *)
(*     (EntryInService).                                                   *)
(* It does NOT promise that a session in service is in the map: entries    *)
(* are withdrawn by id.                                                    *)
(*                                                                         *)
(* Three maps implement it: those of the registry and of connections in    *)
(* Signaling, and the simpler one of ClientConnect.                        *)
(***************************************************************************)
EXTENDS TLAPS

CONSTANTS Session, Id, IdOf, NoSession

WellFormed ==
    /\ IdOf \in [Session -> Id]
    /\ NoSession \notin Session

VARIABLES
    phase,  \* each session: "new", "live" or "gone"
    dir     \* the map

dirVars == <<phase, dir>>

Init ==
    /\ phase = [c \in Session |-> "new"]
    /\ dir = [i \in Id |-> NoSession]

Publish(c) ==
    /\ phase[c] = "new"
    /\ phase' = [phase EXCEPT ![c] = "live"]
    /\ dir' = [dir EXCEPT ![IdOf[c]] = c]

\* A session that leaves takes along whatever stands under its id.
Withdraw(c) ==
    /\ phase[c] = "live"
    /\ phase' = [phase EXCEPT ![c] = "gone"]
    /\ dir' = [dir EXCEPT ![IdOf[c]] = NoSession]

Expire(ids) ==
    /\ dir' = [i \in Id |-> IF i \in ids THEN NoSession ELSE dir[i]]
    /\ UNCHANGED phase

\* The process ends, and with it all sessions.
Collapse ==
    /\ phase' = [c \in Session |-> "gone"]
    /\ dir' = [i \in Id |-> NoSession]

Next ==
    \/ \E c \in Session : Publish(c) \/ Withdraw(c)
    \/ \E ids \in SUBSET Id : Expire(ids)
    \/ Collapse

Spec == Init /\ [][Next]_dirVars

-----------------------------------------------------------------------------
(* The promises.                                                           *)

DirTypeOK ==
    /\ phase \in [Session -> {"new", "live", "gone"}]
    /\ dir \in [Id -> Session \cup {NoSession}]

\* Who is found under an id announced it and has not left.
EntryInService == \A i \in Id : dir[i] # NoSession =>
    IdOf[dir[i]] = i /\ phase[dir[i]] = "live"

\* An id passes to a session that was never there: it does not go back to one
\* that it was taken from.
NoReturn == [][\A i \in Id : dir'[i] \in {dir[i], NoSession}
                              \/ phase[dir'[i]] = "new"]_dirVars

DirInv == DirTypeOK /\ EntryInService

LEMMA DirStep == ASSUME WellFormed, DirInv, [Next]_dirVars PROVE DirInv'
<1> USE DEF WellFormed, DirInv, DirTypeOK, EntryInService
<1>1. ASSUME NEW c \in Session, Publish(c) PROVE DirInv'
  BY <1>1 DEF Publish
<1>2. ASSUME NEW c \in Session, Withdraw(c) PROVE DirInv'
  BY <1>2 DEF Withdraw
<1>3. ASSUME NEW ids \in SUBSET Id, Expire(ids) PROVE DirInv'
  BY <1>3 DEF Expire
<1>4. CASE Collapse
  BY <1>4 DEF Collapse
<1>5. CASE UNCHANGED dirVars
  BY <1>5 DEF dirVars
<1> QED
  BY <1>1, <1>2, <1>3, <1>4, <1>5 DEF Next

\* Every map that implements the directory has only entries in service.
THEOREM InService == ASSUME WellFormed PROVE Spec => []DirInv
<1>1. Init => DirInv
  BY DEF Init, DirInv, DirTypeOK, EntryInService
<1> QED
  BY <1>1, DirStep, PTL DEF Spec

\* In every such map an id never reverts to an earlier session.
THEOREM NeverReturns == ASSUME WellFormed PROVE Spec => NoReturn
<1>1. ASSUME DirInv, [Next]_dirVars
      PROVE  [\A i \in Id : dir'[i] \in {dir[i], NoSession}
                            \/ phase[dir'[i]] = "new"]_dirVars
  <2> USE DEF WellFormed, DirInv, DirTypeOK
  <2>1. ASSUME NEW c \in Session, Publish(c), NEW i \in Id
        PROVE  dir'[i] \in {dir[i], NoSession} \/ phase[dir'[i]] = "new"
    BY <2>1 DEF Publish
  <2>2. ASSUME NEW c \in Session, Withdraw(c), NEW i \in Id
        PROVE  dir'[i] \in {dir[i], NoSession}
    BY <2>2 DEF Withdraw
  <2>3. CASE (\E ids \in SUBSET Id : Expire(ids)) \/ Collapse
    BY <2>3 DEF Expire, Collapse
  <2> QED
    BY <1>1, <2>1, <2>2, <2>3 DEF Next
<1> QED
  BY <1>1, InService, PTL DEF Spec, NoReturn

=============================================================================
