---------------------------- MODULE ServiceTable ----------------------------
(***************************************************************************)
(* What the table of services is to the edges that share it, whatever the  *)
(* messages, batches, failures and restarts by which they work on it:      *)
(*   - a free id is taken by the edge that creates a service under it, with*)
(*     what that edge sent;                                                *)
(*   - a row is written over only by a session that has looked at it and   *)
(*     found it to be its edge's, once, and becomes or stays its edge's;   *)
(*   - anybody may remove a row.                                           *)
(* It does NOT promise that the row is still there, or still the edge's,   *)
(* when it is written over: look and write are two operations.             *)
(***************************************************************************)
CONSTANTS Session, EdgeOf, Id, Value, NoRow

VARIABLES
    table,  \* the rows by id
    leave   \* the ids each session may write over: none or one

tableVars == <<table, leave>>

\* A row of the edge of c, which has sent what is in it.
RowBy(c, v) == [edge |-> EdgeOf[c], payload |-> [by |-> EdgeOf[c], value |-> v]]

Init ==
    /\ table = [i \in Id |-> NoRow]
    /\ leave = [c \in Session |-> {}]

Insert(c, i, v) ==
    /\ leave[c] = {} /\ table[i] = NoRow
    /\ table' = [table EXCEPT ![i] = RowBy(c, v)]
    /\ UNCHANGED leave

Look(c, i) ==
    /\ leave[c] = {}
    /\ table[i] # NoRow /\ table[i].edge = EdgeOf[c]
    /\ leave' = [leave EXCEPT ![c] = {i}]
    /\ UNCHANGED table

Put(c, i, v) ==
    /\ i \in leave[c]
    /\ table' = [table EXCEPT ![i] = RowBy(c, v)]
    /\ leave' = [leave EXCEPT ![c] = {}]

GiveUp(c) ==
    /\ leave[c] # {}
    /\ leave' = [leave EXCEPT ![c] = {}]
    /\ UNCHANGED table

\* By the session of any edge, or by the REST API.
Remove(i) ==
    /\ table[i] # NoRow
    /\ table' = [table EXCEPT ![i] = NoRow]
    /\ UNCHANGED leave

\* The table is on disk.
Restart ==
    /\ leave' = [c \in Session |-> {}]
    /\ UNCHANGED table

SessionStep(c) ==
    \/ \E i \in Id : Look(c, i)
    \/ \E i \in Id, v \in Value : Insert(c, i, v) \/ Put(c, i, v)
    \/ GiveUp(c)

Next ==
    \/ \E c \in Session : SessionStep(c)
    \/ \E i \in Id : Remove(i)
    \/ Restart

Spec == Init /\ [][Next]_tableVars

=============================================================================
