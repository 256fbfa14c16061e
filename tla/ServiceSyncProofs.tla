------------------------- MODULE ServiceSyncProofs --------------------------
(***************************************************************************)
(* Theorems about ServiceSync: for any sessions, edges, services, batches. *)
(***************************************************************************)
EXTENDS ServiceSync, SequenceTheorems, TLAPS

(* What a session works on is its own; a save or a create is under way     *)
(* only for an item that passed validation, a save only for a row of the   *)
(* session's edge.                                                         *)
OwnItems ==
    \A c \in Session : \A k \in DOMAIN job[c].items :
        job[c].items[k] \in ItemsFrom(c)

ValidAtWork ==
    \A c \in Session :
        pc[c] \in {"save", "create"} => More(c) /\ item(c).payload # Invalid

SaveIsOwn ==
    \A c \in Session : pc[c] = "save" => existing[c] = EdgeOf[c]

PosFromOne == \A c \in Session : pos[c] >= 1

SyncInv ==
    /\ CodeTypeOK
    /\ OwnItems
    /\ ValidAtWork
    /\ SaveIsOwn
    /\ PosFromOne
    /\ RowsAreGenuine

LEMMA InitInv == ASSUME Init PROVE SyncInv
<1> USE SyncAssumption
<1>1. NoJob \in Job
  BY DEF NoJob, Job, Op
<1>2. CodeTypeOK
  BY <1>1 DEF Init, CodeTypeOK
<1>3. OwnItems
  BY DEF Init, OwnItems, NoJob
<1>4. QED
  BY <1>2, <1>3 DEF Init, SyncInv, ValidAtWork, SaveIsOwn, PosFromOne,
                    RowsAreGenuine

-----------------------------------------------------------------------------
(* The item a handler is at, when it is not an invalid one.                *)
LEMMA ItemType ==
    ASSUME SyncInv, NEW c \in Session, More(c), item(c).payload # Invalid
    PROVE  /\ item(c).id \in Id
           /\ item(c).payload \in Payload
           /\ item(c).payload.by = EdgeOf[c]
<1>1. job[c].items \in Seq(Item) /\ pos[c] \in Nat /\ pos[c] >= 1
  BY DEF SyncInv, CodeTypeOK, Job, PosFromOne
<1>2. pos[c] \in DOMAIN job[c].items
  BY <1>1 DEF More
<1>3. item(c) \in ItemsFrom(c)
  BY <1>2 DEF SyncInv, OwnItems, item
<1>4. EdgeOf[c] \in Edge
  BY SyncAssumption
<1>5. QED
  BY <1>3, <1>4 DEF ItemsFrom, Payload

(* The end of an item disturbs nothing but the place in the message.       *)
LEMMA EndItemInv ==
    ASSUME SyncInv, NEW c \in Session, NEW ok, EndItem(c, ok),
           table' \in [Id -> Row \union {NoRow}], RowsAreGenuine'
    PROVE  SyncInv'
<1> USE DEF EndItem
<1>1. CodeTypeOK'
  BY DEF SyncInv, CodeTypeOK
<1>2. OwnItems'
  BY DEF SyncInv, OwnItems, ItemsFrom
<1>3. /\ pc' = [pc EXCEPT ![c] = "item"]
      /\ pc \in [Session -> {"idle", "item", "save", "create"}]
      /\ pos' = [pos EXCEPT ![c] = @ + 1] /\ pos \in [Session -> Nat]
      /\ job' = job /\ existing' = existing
  BY DEF SyncInv, CodeTypeOK
<1>4. ValidAtWork'
  <2> SUFFICES ASSUME NEW d \in Session, pc'[d] \in {"save", "create"}
               PROVE  (More(d) /\ item(d).payload # Invalid)'
    BY DEF ValidAtWork
  <2>1. d # c /\ pc[d] \in {"save", "create"}
    BY <1>3
  <2>2. More(d) /\ item(d).payload # Invalid
    BY <2>1 DEF SyncInv, ValidAtWork
  <2>3. pos'[d] = pos[d] /\ job' = job
    BY <1>3, <2>1
  <2>4. QED
    BY <2>2, <2>3 DEF More, item
<1>5. SaveIsOwn'
  BY <1>3 DEF SyncInv, SaveIsOwn
<1>6. PosFromOne'
  BY <1>3 DEF SyncInv, PosFromOne
<1>7. QED
  BY <1>1, <1>2, <1>4, <1>5, <1>6 DEF SyncInv

(* A handler that leaves the table alone and moves on to a save or create. *)
LEMMA MoveInv ==
    ASSUME SyncInv, NEW c \in Session, NEW p \in {"save", "create"},
           More(c), item(c).payload # Invalid,
           pc' = [pc EXCEPT ![c] = p],
           existing' \in [Session -> Edge],
           \A d \in Session \ {c} : existing'[d] = existing[d],
           p = "save" => existing'[c] = EdgeOf[c],
           UNCHANGED <<table, job, pos, stored>>
    PROVE  SyncInv'
<1>1. CodeTypeOK'
  BY DEF SyncInv, CodeTypeOK
<1>2. OwnItems'
  BY DEF SyncInv, OwnItems, ItemsFrom
<1>3. pc \in [Session -> {"idle", "item", "save", "create"}]
  BY DEF SyncInv, CodeTypeOK
<1>4. ValidAtWork'
  <2> SUFFICES ASSUME NEW d \in Session, pc'[d] \in {"save", "create"}
               PROVE  (More(d) /\ item(d).payload # Invalid)'
    BY DEF ValidAtWork
  <2>1. d = c \/ pc[d] \in {"save", "create"}
    BY <1>3
  <2>2. More(d) /\ item(d).payload # Invalid
    BY <2>1 DEF SyncInv, ValidAtWork
  <2>3. QED
    BY <2>2 DEF More, item
<1>5. SaveIsOwn'
  BY <1>3 DEF SyncInv, SaveIsOwn
<1>6. PosFromOne' /\ RowsAreGenuine'
  BY DEF SyncInv, PosFromOne, RowsAreGenuine
<1>7. QED
  BY <1>1, <1>2, <1>4, <1>5, <1>6 DEF SyncInv

LEMMA UnwrittenInv ==
    ASSUME SyncInv, NEW c \in Session, NEW ok, EndItem(c, ok), NoWrite
    PROVE  SyncInv'
<1>1. table' = table
  BY DEF NoWrite
<1>2. table' \in [Id -> Row \union {NoRow}] /\ RowsAreGenuine'
  BY <1>1 DEF SyncInv, CodeTypeOK, RowsAreGenuine
<1>3. QED
  BY <1>2, EndItemInv

LEMMA WriteInv ==
    ASSUME SyncInv, NEW c \in Session, NEW row \in Row \union {NoRow},
           item(c).id \in Id, row # NoRow => row.payload.by = row.edge,
           Write(c, row)
    PROVE  SyncInv'
<1>1. table \in [Id -> Row \union {NoRow}] /\ RowsAreGenuine
  BY DEF SyncInv, CodeTypeOK
<1>2. table' = [table EXCEPT ![item(c).id] = row]
  BY DEF Write
<1>3. table' \in [Id -> Row \union {NoRow}]
  BY <1>1, <1>2
<1>4. RowsAreGenuine'
  BY <1>1, <1>2 DEF RowsAreGenuine
<1>5. EndItem(c, TRUE)
  BY DEF Write
<1>6. QED
  BY <1>3, <1>4, <1>5, EndItemInv

-----------------------------------------------------------------------------
(* The steps of a handler. *)
LEMMA UpdateFailsInv ==
    ASSUME SyncInv, NEW c \in Session, More(c), item(c).payload # Invalid,
           UpdateFails(c), NoWrite
    PROVE  SyncInv'
<1>1. CASE job[c].op = "batch"
  <2>1. existing' \in [Session -> Edge]
    BY <1>1 DEF UpdateFails, SyncInv, CodeTypeOK
  <2>2. QED
    BY <1>1, <2>1, MoveInv DEF UpdateFails, NoWrite
<1>2. CASE job[c].op # "batch"
  BY <1>2, UnwrittenInv DEF UpdateFails
<1>3. QED
  BY <1>1, <1>2

LEMMA AnswerInv ==
    ASSUME SyncInv, NEW c \in Session, Answer(c) PROVE SyncInv'
<1> USE DEF Answer
<1>1. NoJob \in Job /\ EdgeOf[c] \in Edge
  BY SyncAssumption DEF NoJob, Job, Op
<1>2. CodeTypeOK'
  BY <1>1 DEF SyncInv, CodeTypeOK
<1>3. OwnItems'
  <2> SUFFICES ASSUME NEW d \in Session, NEW k \in DOMAIN job'[d].items
               PROVE  job'[d].items[k] \in ItemsFrom(d)
    BY DEF OwnItems, ItemsFrom
  <2>1. d # c /\ job'[d] = job[d]
    BY DEF SyncInv, CodeTypeOK, NoJob
  <2>2. QED
    BY <2>1 DEF SyncInv, OwnItems
<1>4. ValidAtWork'
  <2> SUFFICES ASSUME NEW d \in Session, pc'[d] \in {"save", "create"}
               PROVE  (More(d) /\ item(d).payload # Invalid)'
    BY DEF ValidAtWork
  <2>1. /\ d # c /\ pc[d] \in {"save", "create"}
        /\ job'[d] = job[d] /\ pos'[d] = pos[d]
    BY DEF SyncInv, CodeTypeOK
  <2>2. QED
    BY <2>1 DEF SyncInv, ValidAtWork, More, item
<1>5. SaveIsOwn'
  BY DEF SyncInv, CodeTypeOK, SaveIsOwn
<1>6. PosFromOne' /\ RowsAreGenuine'
  BY DEF SyncInv, CodeTypeOK, PosFromOne, RowsAreGenuine
<1>7. QED
  BY <1>2, <1>3, <1>4, <1>5, <1>6 DEF SyncInv

LEMMA AtWork ==
    ASSUME SyncInv, NEW c \in Session,
           Working(c) \/ pc[c] \in {"save", "create"}
    PROVE  More(c) /\ item(c).payload # Invalid
BY DEF Working, SyncInv, ValidAtWork

LEMMA HandlerInv ==
    ASSUME SyncInv, NEW c \in Session, Step(c) PROVE SyncInv'
<1>1. CASE Skip(c)
  BY <1>1, UnwrittenInv DEF Skip
<1>2. CASE Create(c)
  <2>1. More(c) /\ item(c).payload # Invalid
    BY <1>2, AtWork DEF Create, Creating
  <2>2. /\ RowOf(c, item(c)) \in Row /\ item(c).id \in Id
        /\ RowOf(c, item(c)).payload.by = RowOf(c, item(c)).edge
    BY <2>1, ItemType, SyncAssumption DEF RowOf, Row
  <2>3. QED
    BY <1>2, <2>2, WriteInv DEF Create
<1>3. CASE CreateFails(c)
  BY <1>3, UnwrittenInv DEF CreateFails
<1>4. CASE GetOwn(c)
  <2>1. More(c) /\ item(c).payload # Invalid
    BY <1>4, AtWork DEF GetOwn, Updating
  <2>2. /\ existing' = [existing EXCEPT ![c] = EdgeOf[c]]
        /\ existing \in [Session -> Edge] /\ EdgeOf[c] \in Edge
    BY <1>4, SyncAssumption DEF GetOwn, SyncInv, CodeTypeOK
  <2>3. QED
    BY <1>4, <2>1, <2>2, MoveInv DEF GetOwn, NoWrite
<1>5. CASE GetFails(c)
  BY <1>5, AtWork, UpdateFailsInv DEF GetFails, Updating
<1>6. CASE Save(c)
  <2>1. More(c) /\ item(c).payload # Invalid
    BY <1>6, AtWork DEF Save
  <2> DEFINE row == [edge |-> existing[c], payload |-> item(c).payload]
  <2>2. existing[c] = EdgeOf[c]
    BY <1>6 DEF Save, SyncInv, SaveIsOwn
  <2>3. row \in Row /\ item(c).id \in Id /\ row.payload.by = row.edge
    BY <2>1, <2>2, ItemType, SyncAssumption DEF Row
  <2>4. Write(c, row)
    BY <1>6 DEF Save
  <2> HIDE DEF row
  <2>5. QED
    BY <2>3, <2>4, WriteInv
<1>7. CASE SaveFails(c)
  BY <1>7, AtWork, UpdateFailsInv DEF SaveFails
<1>8. CASE Delete(c)
  <2>1. item(c).id \in Id
    BY <1>8, AtWork, ItemType DEF Delete, Deleting
  <2>2. QED
    BY <1>8, <2>1, WriteInv DEF Delete
<1>9. CASE DeleteFails(c)
  BY <1>9, UnwrittenInv DEF DeleteFails
<1>10. CASE Ack(c) \/ AckLost(c)
  BY <1>10, AnswerInv DEF Ack, AckLost
<1>11. QED
  BY <1>1, <1>2, <1>3, <1>4, <1>5, <1>6, <1>7, <1>8, <1>9, <1>10 DEF Step

LEMMA ReceiveInv ==
    ASSUME SyncInv, NEW c \in Session, NEW op \in Op,
           NEW items \in Seq(ItemsFrom(c)), Receive(c, op, items)
    PROVE  SyncInv'
<1> USE DEF Receive
<1>1. ItemsFrom(c) \subseteq Item
  BY SyncAssumption DEF ItemsFrom, Item, Payload
<1>2. items \in Seq(Item) /\ \A k \in DOMAIN items : items[k] \in ItemsFrom(c)
  BY <1>1
<1>3. [op |-> op, items |-> items] \in Job
  BY <1>2 DEF Job
<1>4. CodeTypeOK'
  BY <1>3 DEF SyncInv, CodeTypeOK
<1>5. /\ job' = [job EXCEPT ![c] = [op |-> op, items |-> items]]
      /\ job \in [Session -> Job]
  BY DEF SyncInv, CodeTypeOK
<1>6. OwnItems'
  <2> SUFFICES ASSUME NEW d \in Session, NEW k \in DOMAIN job'[d].items
               PROVE  job'[d].items[k] \in ItemsFrom(d)
    BY DEF OwnItems, ItemsFrom
  <2>1. CASE d = c
    BY <1>2, <1>5, <2>1
  <2>2. CASE d # c
    BY <1>5, <2>2 DEF SyncInv, OwnItems
  <2>3. QED
    BY <2>1, <2>2
<1>7. ValidAtWork'
  <2> SUFFICES ASSUME NEW d \in Session, pc'[d] \in {"save", "create"}
               PROVE  (More(d) /\ item(d).payload # Invalid)'
    BY DEF ValidAtWork
  <2>1. /\ d # c /\ pc[d] \in {"save", "create"}
        /\ job'[d] = job[d] /\ pos'[d] = pos[d]
    BY DEF SyncInv, CodeTypeOK
  <2>2. QED
    BY <2>1 DEF SyncInv, ValidAtWork, More, item
<1>8. SaveIsOwn' /\ PosFromOne' /\ RowsAreGenuine'
  BY DEF SyncInv, CodeTypeOK, SaveIsOwn, PosFromOne, RowsAreGenuine
<1>9. QED
  BY <1>4, <1>6, <1>7, <1>8 DEF SyncInv

LEMMA DeleteServiceInv ==
    ASSUME SyncInv, NEW i \in Id, handleDeleteService(i) PROVE SyncInv'
<1> USE DEF handleDeleteService
<1>1. CodeTypeOK' /\ RowsAreGenuine'
  BY DEF SyncInv, CodeTypeOK, RowsAreGenuine
<1>2. OwnItems' /\ ValidAtWork'
  BY DEF SyncInv, OwnItems, ItemsFrom, ValidAtWork, More, item
<1>3. SaveIsOwn' /\ PosFromOne'
  BY DEF SyncInv, SaveIsOwn, PosFromOne
<1>4. QED
  BY <1>1, <1>2, <1>3 DEF SyncInv

LEMMA RestartInv == ASSUME SyncInv, Restart PROVE SyncInv'
<1> USE SyncAssumption DEF Restart
<1>1. NoJob \in Job
  BY DEF NoJob, Job, Op
<1>2. CodeTypeOK'
  BY <1>1 DEF SyncInv, CodeTypeOK
<1>3. OwnItems'
  BY DEF OwnItems, NoJob
<1>4. ValidAtWork' /\ SaveIsOwn' /\ PosFromOne' /\ RowsAreGenuine'
  BY DEF SyncInv, ValidAtWork, SaveIsOwn, PosFromOne, RowsAreGenuine
<1>5. QED
  BY <1>2, <1>3, <1>4 DEF SyncInv

LEMMA StepInv == ASSUME SyncInv, [Next]_vars PROVE SyncInv'
<1>1. ASSUME NEW c \in Session, Message(c) PROVE SyncInv'
  <2>1. ASSUME NEW op \in Op \ {"batch"}, NEW it \in ItemsFrom(c),
               Receive(c, op, <<it>>)
        PROVE  SyncInv'
    <3>1. <<it>> \in Seq(ItemsFrom(c)) /\ op \in Op
      OBVIOUS
    <3>2. QED
      BY <2>1, <3>1, ReceiveInv
  <2>2. ASSUME NEW n \in 0..MaxBatch, NEW items \in [1..n -> ItemsFrom(c)],
               Receive(c, "batch", items)
        PROVE  SyncInv'
    <3>1. n \in Nat /\ items \in Seq(ItemsFrom(c))
      <4>1. n \in Nat
        BY SyncAssumption
      <4>2. QED
        BY <4>1, SeqDef
    <3>2. "batch" \in Op
      BY DEF Op
    <3>3. QED
      BY <2>2, <3>1, <3>2, ReceiveInv
  <2>3. QED
    BY <1>1, <2>1, <2>2 DEF Message
<1>2. CASE UNCHANGED vars
  <2> USE <1>2 DEF vars
  <2>1. CodeTypeOK' /\ RowsAreGenuine'
    BY DEF SyncInv, CodeTypeOK, RowsAreGenuine
  <2>2. OwnItems' /\ ValidAtWork'
    BY DEF SyncInv, OwnItems, ItemsFrom, ValidAtWork, More, item
  <2>3. SaveIsOwn' /\ PosFromOne'
    BY DEF SyncInv, SaveIsOwn, PosFromOne
  <2>4. QED
    BY <2>1, <2>2, <2>3 DEF SyncInv
<1>3. QED
  BY <1>1, <1>2, HandlerInv, DeleteServiceInv, RestartInv DEF Next

(* The invariant holds in every state.                                     *)
THEOREM SyncInvariant == Spec => []SyncInv
<1>1. Init => SyncInv
  BY InitInv
<1>2. SyncInv /\ [Next]_vars => SyncInv'
  BY StepInv
<1>3. QED
  BY <1>1, <1>2, PTL DEF Spec

(* No row ever carries one edge's payload under the name of another, in    *)
(* any interleaving of any number of sessions, and across restarts.        *)
THEOREM GenuineRows == Spec => []RowsAreGenuine
<1>1. SyncInv => RowsAreGenuine
  BY DEF SyncInv
<1>2. QED
  BY <1>1, SyncInvariant, PTL

-----------------------------------------------------------------------------
(* What the answers tell.  While a message is worked on, an id that nobody *)
(* else has written is as the items so far have left it: as the last of    *)
(* those on this id asked, if all have succeeded, and as the edge was told *)
(* before, if none was on this id, or if the only one has failed.          *)
Want(c, k) == IF job[c].op = "deleted" THEN NoRow
              ELSE RowOf(c, job[c].items[k])

Known(c, i) == view[c][i] \in {Unknown, table[i]}

Settled(c, i) ==
    \/ Known(c, i) /\ \A k \in ItemsOn(c, i) : k >= pos[c]
    \/ \E k \in ItemsOn(c, i) :
           /\ k < pos[c]
           /\ \A l \in ItemsOn(c, i) : l < pos[c] => l <= k
           /\ table[i] = Want(c, k)

Progress(c) ==
    pc[c] # "idle" => \A i \in Id \ hit[c] :
        /\ ItemsOn(c, i) = {} => Known(c, i)
        /\ stored[c] + 1 = pos[c] => Settled(c, i)
        /\ stored[c] + 1 # pos[c] /\ job[c].op # "batch" => Known(c, i)

Shape(c) ==
    pc[c] # "idle" =>
        /\ job[c].op # "batch" => Len(job[c].items) = 1
        /\ pos[c] <= Len(job[c].items) + 1
        /\ stored[c] + 1 <= pos[c]
        /\ pc[c] = "save" => job[c].op \in {"updated", "batch"}
        /\ pc[c] = "create" => job[c].op = "batch"

(* A row that was read to be saved is still there, or was written since.   *)
Seen(c) ==
    pc[c] = "save" =>
        \/ item(c).id \in hit[c]
        \/ /\ table[item(c).id] # NoRow
           /\ table[item(c).id].edge = existing[c]

Answered(c) == pc[c] = "idle" => \A i \in Id : Known(c, i)

SessionInv(c) == Shape(c) /\ Progress(c) /\ Seen(c) /\ Answered(c)

ViewInv == TypeOK /\ \A c \in Session : SessionInv(c)

(* A session whose own state stays, and which others disturb at most where *)
(* its history says so.                                                    *)
LEMMA Frame ==
    ASSUME SyncInv, ViewInv, NEW d \in Session,
           pc'[d] = pc[d], job'[d] = job[d], pos'[d] = pos[d],
           stored'[d] = stored[d], existing'[d] = existing[d],
           hit[d] \subseteq hit'[d],
           \A i \in Id :
               \/ view'[d][i] = view[d][i] /\ table'[i] = table[i]
               \/ pc[d] = "idle" /\ view'[d][i] = Unknown
               \/ pc[d] # "idle" /\ i \in hit'[d]
    PROVE  SessionInv(d)'
<1>0. SessionInv(d)
  BY DEF ViewInv
<1>1. Shape(d)'
  BY <1>0 DEF SessionInv, Shape
<1>2. Progress(d)'
  <2> SUFFICES ASSUME pc[d] # "idle", NEW i \in Id \ hit'[d]
               PROVE  /\ ItemsOn(d, i)' = {} => Known(d, i)'
                      /\ stored[d] + 1 = pos[d] => Settled(d, i)'
                      /\ stored[d] + 1 # pos[d] /\ job[d].op # "batch"
                         => Known(d, i)'
    BY DEF Progress
  <2>1. i \in Id \ hit[d] /\ view'[d][i] = view[d][i] /\ table'[i] = table[i]
    OBVIOUS
  <2>2. ItemsOn(d, i)' = ItemsOn(d, i)
    BY DEF ItemsOn
  <2>3. Known(d, i)' = Known(d, i)
    BY <2>1 DEF Known
  <2>4. Settled(d, i) => Settled(d, i)'
    BY <2>1, <2>2, <2>3 DEF Settled, Want, RowOf
  <2>5. QED
    BY <1>0, <2>1, <2>2, <2>3, <2>4 DEF SessionInv, Progress
<1>3. Seen(d)'
  <2> SUFFICES ASSUME pc[d] = "save", item(d).id \notin hit'[d]
               PROVE  /\ table'[item(d).id] # NoRow
                      /\ table'[item(d).id].edge = existing[d]
    BY DEF Seen, item
  <2>1. More(d) /\ item(d).payload # Invalid
    BY AtWork
  <2>2. item(d).id \in Id
    BY <2>1, ItemType
  <2>3. table'[item(d).id] = table[item(d).id]
    BY <2>2
  <2>4. QED
    BY <1>0, <2>3 DEF SessionInv, Seen
<1>4. Answered(d)'
  BY <1>0 DEF SessionInv, Answered, Known
<1>5. QED
  BY <1>1, <1>2, <1>3, <1>4 DEF SessionInv

(* What Disturb does to the history.                                       *)
LEMMA DisturbTypes ==
    ASSUME ViewInv, NEW S \in SUBSET Session, NEW i \in Id, Disturb(S, i)
    PROVE  /\ view' \in [Session -> [Id -> Row \union {NoRow, Unknown}]]
           /\ hit' \in [Session -> SUBSET Id]
           /\ \A c \in S : view'[c] = view[c] /\ hit'[c] = hit[c]
           /\ \A c \in Session \ S :
                  /\ hit[c] \subseteq hit'[c]
                  /\ pc[c] # "idle" => i \in hit'[c]
                  /\ view'[c][i] = Unknown
                  /\ \A j \in Id \ {i} : view'[c][j] = view[c][j]
BY DEF ViewInv, TypeOK, Disturb

LEMMA Others ==
    ASSUME SyncInv, ViewInv, NEW S \in SUBSET Session, NEW i \in Id,
           Disturb(S, i), \A j \in Id \ {i} : table'[j] = table[j],
           NEW d \in Session \ S,
           pc'[d] = pc[d], job'[d] = job[d], pos'[d] = pos[d],
           stored'[d] = stored[d], existing'[d] = existing[d]
    PROVE  SessionInv(d)'
<1>1. /\ hit[d] \subseteq hit'[d]
      /\ \A j \in Id :
             \/ view'[d][j] = view[d][j] /\ table'[j] = table[j]
             \/ pc[d] = "idle" /\ view'[d][j] = Unknown
             \/ pc[d] # "idle" /\ j \in hit'[d]
  BY DisturbTypes
<1>2. QED
  BY <1>1, Frame

(* The own session, at the end of an item: an item that failed has left    *)
(* the table alone, one that succeeded has left what it asked for.         *)
LEMMA ItemDone ==
    ASSUME SyncInv, ViewInv, NEW c \in Session, NEW ok \in BOOLEAN,
           pc[c] # "idle", More(c), EndItem(c, ok),
           view'[c] = view[c], hit'[c] = hit[c],
           ok => table'[item(c).id] = Want(c, pos[c]),
           \A j \in Id : (ok /\ j = item(c).id) \/ table'[j] = table[j]
    PROVE  SessionInv(c)'
<1>0. SessionInv(c)
  BY DEF ViewInv
<1>1. /\ pc'[c] = "item" /\ job'[c] = job[c]
      /\ pos[c] \in Nat /\ pos'[c] = pos[c] + 1
      /\ stored[c] \in Nat
      /\ stored'[c] = IF ok THEN stored[c] + 1 ELSE stored[c]
      /\ pos[c] >= 1 /\ job[c].items \in Seq(Item)
  BY DEF EndItem, SyncInv, CodeTypeOK, PosFromOne, Job
<1>2. pos[c] \in DOMAIN job[c].items
  BY <1>1 DEF More
<1>3. Shape(c)'
  BY <1>0, <1>1 DEF SessionInv, Shape, More
<1>4. Seen(c)' /\ Answered(c)'
  BY <1>1 DEF Seen, Answered
<1>5. Progress(c)'
  <2> SUFFICES ASSUME NEW i \in Id \ hit[c]
               PROVE  /\ ItemsOn(c, i)' = {} => Known(c, i)'
                      /\ stored'[c] + 1 = pos'[c] => Settled(c, i)'
                      /\ stored'[c] + 1 # pos'[c] /\ job[c].op # "batch"
                         => Known(c, i)'
    BY <1>1 DEF Progress
  <2>1. /\ ItemsOn(c, i) = {} => Known(c, i)
        /\ stored[c] + 1 = pos[c] => Settled(c, i)
        /\ stored[c] + 1 # pos[c] /\ job[c].op # "batch" => Known(c, i)
    BY <1>0 DEF SessionInv, Progress
  <2>2. ItemsOn(c, i)' = ItemsOn(c, i) /\ ItemsOn(c, i) \subseteq DOMAIN job[c].items
    BY <1>1 DEF ItemsOn
  <2>3. pos[c] \in ItemsOn(c, i) <=> item(c).id = i
    BY <1>2 DEF ItemsOn, item
  <2>4. DOMAIN job[c].items \subseteq Nat
    BY <1>1
  <2>5. \A k \in ItemsOn(c, i) : Want(c, k)' = Want(c, k)
    BY <1>1 DEF Want, RowOf
  <2>6. CASE ok /\ item(c).id = i
    <3>1. pos[c] \in ItemsOn(c, i) /\ pos[c] < pos'[c]
      BY <1>1, <2>3, <2>6
    <3>2. \A l \in ItemsOn(c, i) : l < pos'[c] => l <= pos[c]
      BY <1>1, <2>2, <2>4
    <3>3. PICK k \in ItemsOn(c, i) : k = pos[c] /\ table'[i] = Want(c, k)'
      BY <2>5, <2>6, <3>1
    <3>4. Settled(c, i)'
      BY <2>2, <3>1, <3>2, <3>3 DEF Settled
    <3>5. stored'[c] + 1 # pos'[c] /\ job[c].op # "batch" => Known(c, i)'
      <4> SUFFICES ASSUME stored'[c] + 1 # pos'[c], job[c].op # "batch"
                   PROVE  FALSE
        OBVIOUS
      <4>1. Len(job[c].items) = 1 /\ stored[c] + 1 <= pos[c]
        BY <1>0, <1>1 DEF SessionInv, Shape
      <4>2. pos[c] = 1
        BY <1>1, <4>1 DEF More
      <4>3. QED
        BY <1>1, <2>6, <4>1, <4>2
    <3>6. QED
      BY <2>2, <3>1, <3>4, <3>5
  <2>7. CASE ~(ok /\ item(c).id = i)
    <3>1. table'[i] = table[i]
      BY <2>7
    <3>2. Known(c, i)' = Known(c, i)
      BY <3>1 DEF Known
    <3>3. CASE ok
      <4>1. pos[c] \notin ItemsOn(c, i)
        BY <2>3, <2>7, <3>3
      <4>2. \A k \in ItemsOn(c, i) :
                /\ k < pos'[c] <=> k < pos[c]
                /\ k >= pos[c] => k >= pos'[c]
        BY <1>1, <2>2, <2>4, <4>1
      <4>3. Settled(c, i) => Settled(c, i)'
        BY <2>2, <2>5, <3>1, <3>2, <4>2 DEF Settled
      <4>4. QED
        BY <1>1, <2>1, <2>2, <3>2, <3>3, <4>3
    <3>4. CASE ~ok
      <4>1. stored'[c] + 1 # pos'[c]
        BY <1>0, <1>1, <3>4 DEF SessionInv, Shape
      <4>2. ASSUME job[c].op # "batch" PROVE Known(c, i)
        <5>1. Len(job[c].items) = 1 /\ stored[c] + 1 <= pos[c]
          BY <1>0, <1>1, <4>2 DEF SessionInv, Shape
        <5>2. pos[c] = 1 /\ stored[c] + 1 = pos[c]
          BY <1>1, <5>1 DEF More
        <5>3. Settled(c, i) /\ \A k \in ItemsOn(c, i) : ~(k < pos[c])
          BY <1>1, <2>1, <2>2, <5>2
        <5>4. QED
          BY <5>3 DEF Settled
      <4>3. QED
        BY <2>1, <2>2, <3>2, <4>1, <4>2
    <3>5. QED
      BY <3>3, <3>4
  <2>8. QED
    BY <2>6, <2>7
<1>6. QED
  BY <1>3, <1>4, <1>5 DEF SessionInv

(* The own session, when it goes on with a save or a create.               *)
LEMMA ItemMoves ==
    ASSUME SyncInv, ViewInv, NEW c \in Session, pc[c] # "idle",
           NEW p \in {"save", "create"}, pc' = [pc EXCEPT ![c] = p],
           UNCHANGED <<job, pos, stored>>, NoWrite,
           p = "save" => job[c].op \in {"updated", "batch"} /\ Seen(c)',
           p = "create" => job[c].op = "batch"
    PROVE  SessionInv(c)'
<1>0. SessionInv(c) /\ pc'[c] = p
  BY DEF ViewInv, SyncInv, CodeTypeOK
<1>1. Shape(c)'
  BY <1>0 DEF SessionInv, Shape
<1>2. Progress(c)'
  <2>1. \A i : /\ ItemsOn(c, i)' = ItemsOn(c, i)
               /\ Known(c, i)' = Known(c, i)
    BY DEF ItemsOn, Known, NoWrite
  <2>2. \A i : Settled(c, i)' = Settled(c, i)
    BY <2>1 DEF Settled, Want, RowOf, NoWrite
  <2>3. QED
    BY <1>0, <2>1, <2>2 DEF SessionInv, Progress, NoWrite
<1>3. Seen(c)' /\ Answered(c)'
  BY <1>0 DEF Seen, Answered
<1>4. QED
  BY <1>1, <1>2, <1>3 DEF SessionInv

-----------------------------------------------------------------------------
(* A step of a handler, seen from the other sessions.                      *)
LEMMA QuietForOthers ==
    ASSUME SyncInv, ViewInv, NEW c \in Session, NEW d \in Session \ {c}, NoWrite,
           pc'[d] = pc[d], job'[d] = job[d], pos'[d] = pos[d],
           stored'[d] = stored[d], existing'[d] = existing[d]
    PROVE  SessionInv(d)'
BY Frame DEF NoWrite

LEMMA EndItemLocal ==
    ASSUME SyncInv, NEW c \in Session, NEW ok, EndItem(c, ok),
           NEW d \in Session \ {c}
    PROVE  /\ pc'[d] = pc[d] /\ job'[d] = job[d] /\ pos'[d] = pos[d]
           /\ stored'[d] = stored[d] /\ existing'[d] = existing[d]
BY DEF EndItem, SyncInv, CodeTypeOK

ViewNext == /\ view' \in [Session -> [Id -> Row \union {NoRow, Unknown}]]
            /\ hit' \in [Session -> SUBSET Id]
            /\ \A c \in Session : SessionInv(c)'

LEMMA FailView ==
    ASSUME SyncInv, ViewInv, NEW c \in Session, pc[c] # "idle", More(c),
           EndItem(c, FALSE), NoWrite
    PROVE  ViewNext
<1>1. \A d \in Session \ {c} : SessionInv(d)'
  BY EndItemLocal, QuietForOthers
<1>2. SessionInv(c)'
  BY ItemDone DEF NoWrite
<1>3. QED
  BY <1>1, <1>2 DEF ViewNext, ViewInv, TypeOK, NoWrite

LEMMA WriteView ==
    ASSUME SyncInv, ViewInv, NEW c \in Session, pc[c] # "idle", More(c),
           item(c).id \in Id, NEW row, row = Want(c, pos[c]), Write(c, row)
    PROVE  ViewNext
<1>1. /\ table' = [table EXCEPT ![item(c).id] = row]
      /\ table \in [Id -> Row \union {NoRow}]
      /\ Disturb({c}, item(c).id) /\ EndItem(c, TRUE)
  BY DEF Write, SyncInv, CodeTypeOK
<1>2. /\ table'[item(c).id] = row
      /\ \A j \in Id \ {item(c).id} : table'[j] = table[j]
  BY <1>1
<1>3. ASSUME NEW d \in Session \ {c} PROVE SessionInv(d)'
  <2>1. /\ pc'[d] = pc[d] /\ job'[d] = job[d] /\ pos'[d] = pos[d]
        /\ stored'[d] = stored[d] /\ existing'[d] = existing[d]
    BY <1>1, EndItemLocal
  <2>2. QED
    BY <1>1, <1>2, <2>1, Others
<1>4. view'[c] = view[c] /\ hit'[c] = hit[c]
  <2>1. {c} \in SUBSET Session /\ c \in {c}
    OBVIOUS
  <2>2. \A d \in {c} : view'[d] = view[d] /\ hit'[d] = hit[d]
    BY <1>1, <2>1, DisturbTypes
  <2>3. QED
    BY <2>1, <2>2
<1>5. SessionInv(c)'
  BY <1>1, <1>2, <1>4, ItemDone
<1>6. QED
  BY <1>1, <1>3, <1>5, DisturbTypes DEF ViewNext

LEMMA MoveView ==
    ASSUME SyncInv, ViewInv, NEW c \in Session, pc[c] # "idle",
           NEW p \in {"save", "create"}, pc' = [pc EXCEPT ![c] = p],
           UNCHANGED <<job, pos, stored>>, NoWrite,
           \A d \in Session \ {c} : existing'[d] = existing[d],
           p = "save" => job[c].op \in {"updated", "batch"} /\ Seen(c)',
           p = "create" => job[c].op = "batch"
    PROVE  ViewNext
<1>1. \A d \in Session \ {c} : pc'[d] = pc[d]
  BY DEF SyncInv, CodeTypeOK
<1>2. \A d \in Session \ {c} : SessionInv(d)'
  BY <1>1, QuietForOthers
<1>3. SessionInv(c)'
  BY ItemMoves
<1>4. QED
  BY <1>2, <1>3 DEF ViewNext, ViewInv, TypeOK, NoWrite

LEMMA UpdateFailsView ==
    ASSUME SyncInv, ViewInv, NEW c \in Session, pc[c] # "idle", More(c),
           UpdateFails(c), NoWrite
    PROVE  ViewNext
<1>1. CASE job[c].op = "batch"
  BY <1>1, MoveView DEF UpdateFails
<1>2. CASE job[c].op # "batch"
  BY <1>2, FailView DEF UpdateFails
<1>3. QED
  BY <1>1, <1>2

(* The answer leaves the session idle, and tells it what is so.            *)
LEMMA AnswerView ==
    ASSUME SyncInv, ViewInv, NEW c \in Session, pc[c] = "item", ~More(c),
           Answer(c), NEW told \in [Id -> Row \union {NoRow, Unknown}],
           view' = [view EXCEPT ![c] = told],
           \A i \in Id : told[i] \in {Unknown, table[i]}
    PROVE  ViewNext
<1>1. /\ view' \in [Session -> [Id -> Row \union {NoRow, Unknown}]]
      /\ hit' \in [Session -> SUBSET Id]
      /\ pc'[c] = "idle" /\ view'[c] = told /\ table' = table
      /\ \A d \in Session \ {c} :
             /\ pc'[d] = pc[d] /\ job'[d] = job[d] /\ pos'[d] = pos[d]
             /\ stored'[d] = stored[d] /\ existing'[d] = existing[d]
             /\ view'[d] = view[d] /\ hit'[d] = hit[d]
  BY DEF Answer, SyncInv, CodeTypeOK, ViewInv, TypeOK
<1>2. \A d \in Session \ {c} : SessionInv(d)'
  BY <1>1, Frame
<1>3. SessionInv(c)'
  BY <1>1 DEF SessionInv, Shape, Progress, Seen, Answered, Known
<1>4. QED
  BY <1>1, <1>2, <1>3 DEF ViewNext

LEMMA AllDone ==
    ASSUME SyncInv, ViewInv, NEW c \in Session, pc[c] = "item", ~More(c)
    PROVE  /\ pos[c] = Len(job[c].items) + 1
           /\ stored[c] \in Nat /\ Len(job[c].items) \in Nat
           /\ \A i \in Id : ItemsOn(c, i) \subseteq 1..Len(job[c].items)
<1>1. SessionInv(c) /\ job[c].items \in Seq(Item) /\ pos[c] \in Nat /\ stored[c] \in Nat
  BY DEF ViewInv, SyncInv, CodeTypeOK, Job
<1>2. pos[c] <= Len(job[c].items) + 1
  BY <1>1 DEF SessionInv, Shape
<1>3. QED
  BY <1>1, <1>2 DEF More, ItemsOn

LEMMA ToldIsSo ==
    ASSUME SyncInv, ViewInv, NEW c \in Session, pc[c] = "item", ~More(c),
           NEW i \in Id
    PROVE  Told(c, i) \in {Unknown, table[i]}
<1>1. SessionInv(c)
  BY DEF ViewInv
<1>2. CASE i \in hit[c]
  BY <1>2 DEF Told
<1>3. CASE i \notin hit[c] /\ ItemsOn(c, i) = {}
  BY <1>1, <1>3 DEF Told, SessionInv, Progress, Known
<1>4. CASE i \notin hit[c] /\ ItemsOn(c, i) # {} /\ stored[c] = Len(job[c].items)
  <2>1. Settled(c, i)
    BY <1>1, <1>4, AllDone DEF SessionInv, Progress
  <2>2. \A k \in ItemsOn(c, i) : k \in Nat /\ k < pos[c]
    BY AllDone
  <2>3. PICK k \in ItemsOn(c, i) :
            (\A l \in ItemsOn(c, i) : l <= k) /\ table[i] = Want(c, k)
    BY <1>4, <2>1, <2>2, AllDone DEF Settled
  <2>4. /\ LastOn(c, i) \in ItemsOn(c, i)
        /\ \A l \in ItemsOn(c, i) : l <= LastOn(c, i)
    BY <2>3 DEF LastOn
  <2>5. LastOn(c, i) = k
    BY <2>2, <2>3, <2>4
  <2>6. Asked(c, i) = Want(c, k)
    BY <2>5 DEF Asked, Want
  <2>7. Told(c, i) = Asked(c, i)
    BY <1>4 DEF Told
  <2>8. QED
    BY <2>3, <2>6, <2>7
<1>5. CASE i \notin hit[c] /\ ItemsOn(c, i) # {} /\ stored[c] # Len(job[c].items)
  <2>1. CASE job[c].op = "batch"
    BY <1>5, <2>1 DEF Told
  <2>2. CASE job[c].op # "batch"
    <3>1. stored[c] + 1 # pos[c]
      BY <1>5, AllDone
    <3>2. Known(c, i)
      BY <1>1, <1>5, <2>2, <3>1 DEF SessionInv, Progress
    <3>3. QED
      BY <1>5, <2>2, <3>2 DEF Told, Known
  <2>3. QED
    BY <2>1, <2>2
<1>6. QED
  BY <1>2, <1>3, <1>4, <1>5

(* A session that is told nothing knows what it was told before, of ids    *)
(* that nobody has touched, itself included.                               *)
LEMMA UntoldIsSo ==
    ASSUME SyncInv, ViewInv, NEW c \in Session
    PROVE  /\ Untold(c) \in [Id -> Row \union {NoRow, Unknown}]
           /\ \A i \in Id : Untold(c)[i] \in {Unknown, table[i]}
<1>1. SessionInv(c)
  BY DEF ViewInv
<1>2. \A i \in Id : Untold(c)[i] =
          IF ItemsOn(c, i) # {} \/ i \in hit[c] THEN Unknown ELSE view[c][i]
  BY DEF Untold
<1>3. \A i \in Id : Untold(c)[i] \in {Unknown, table[i]}
  BY <1>1, <1>2 DEF SessionInv, Progress, Answered, Known
<1>4. Untold(c) \in [Id -> Row \union {NoRow, Unknown}]
  <2>1. \A i \in Id : table[i] \in Row \union {NoRow}
    BY DEF SyncInv, CodeTypeOK
  <2>2. QED
    BY <1>3, <2>1 DEF Untold
<1>5. QED
  BY <1>3, <1>4

-----------------------------------------------------------------------------
LEMMA HandlerView ==
    ASSUME SyncInv, ViewInv, NEW c \in Session, Step(c) PROVE ViewNext
<1> USE DEF Working, Updating, Creating, Deleting
<1>1. CASE Skip(c)
  BY <1>1, FailView DEF Skip
<1>2. CASE Create(c)
  <2>1. /\ pc[c] # "idle" /\ More(c) /\ item(c).id \in Id
        /\ job[c].op # "deleted"
    BY <1>2, AtWork, ItemType DEF Create, ViewInv, SessionInv, Shape
  <2>2. RowOf(c, item(c)) = Want(c, pos[c])
    BY <2>1 DEF Want, item
  <2>3. QED
    BY <1>2, <2>1, <2>2, WriteView DEF Create
<1>3. CASE CreateFails(c)
  <2>1. pc[c] # "idle" /\ More(c)
    BY <1>3, AtWork DEF CreateFails
  <2>2. QED
    BY <1>3, <2>1, FailView DEF CreateFails
<1>4. CASE GetOwn(c)
  <2>1. /\ pc[c] # "idle" /\ existing'[c] = table[item(c).id].edge
        /\ table' = table /\ hit' = hit /\ item(c)' = item(c)
        /\ table[item(c).id] # NoRow
    BY <1>4 DEF GetOwn, SyncInv, CodeTypeOK, NoWrite, item
  <2>2. Seen(c)'
    BY <2>1 DEF Seen
  <2>3. \A d \in Session \ {c} : existing'[d] = existing[d]
    BY <1>4 DEF GetOwn, SyncInv, CodeTypeOK
  <2>4. QED
    BY <1>4, <2>1, <2>2, <2>3, MoveView DEF GetOwn
<1>5. CASE GetFails(c)
  BY <1>5, UpdateFailsView DEF GetFails
<1>6. CASE Save(c)
  <2>1. /\ More(c) /\ item(c).id \in Id /\ existing[c] = EdgeOf[c]
        /\ job[c].op # "deleted"
    BY <1>6, AtWork, ItemType
       DEF Save, SyncInv, SaveIsOwn, ViewInv, SessionInv, Shape
  <2>2. [edge |-> existing[c], payload |-> item(c).payload] = Want(c, pos[c])
    BY <2>1 DEF Want, RowOf, item
  <2>3. QED
    BY <1>6, <2>1, <2>2, WriteView DEF Save
<1>7. CASE SaveFails(c)
  BY <1>7, AtWork, UpdateFailsView DEF SaveFails
<1>8. CASE Delete(c)
  <2>1. item(c).id \in Id /\ NoRow = Want(c, pos[c])
    BY <1>8, AtWork, ItemType DEF Delete, Want
  <2>2. QED
    BY <1>8, <2>1, WriteView DEF Delete
<1>9. CASE DeleteFails(c)
  BY <1>9, FailView DEF DeleteFails
<1>10. CASE Ack(c)
  <2> DEFINE told == [i \in Id |-> Told(c, i)]
  <2>1. \A i \in Id : told[i] \in {Unknown, table[i]}
    BY <1>10, ToldIsSo DEF Ack
  <2>2. \A i \in Id : table[i] \in Row \union {NoRow}
    BY DEF SyncInv, CodeTypeOK
  <2>3. told \in [Id -> Row \union {NoRow, Unknown}]
    BY <2>1, <2>2
  <2>4. view' = [view EXCEPT ![c] = told]
    BY <1>10 DEF Ack
  <2> HIDE DEF told
  <2>5. QED
    BY <1>10, <2>1, <2>3, <2>4, AnswerView DEF Ack
<1>11. CASE AckLost(c)
  BY <1>11, UntoldIsSo, AnswerView DEF AckLost
<1>12. QED
  BY <1>1, <1>2, <1>3, <1>4, <1>5, <1>6, <1>7, <1>8, <1>9, <1>10, <1>11 DEF Step

LEMMA ReceiveView ==
    ASSUME SyncInv, ViewInv, NEW c \in Session, NEW op \in Op,
           NEW items \in Seq(ItemsFrom(c)), Receive(c, op, items)
    PROVE  ViewNext
<1>1. /\ pc[c] = "idle" /\ pc'[c] = "item"
      /\ job'[c] = [op |-> op, items |-> items]
      /\ pos'[c] = 1 /\ stored'[c] = 0
      /\ \A d \in Session \ {c} :
             /\ pc'[d] = pc[d] /\ job'[d] = job[d] /\ pos'[d] = pos[d]
             /\ stored'[d] = stored[d]
      /\ UNCHANGED <<table, existing, view, hit>>
  BY DEF Receive, SyncInv, CodeTypeOK
<1>2. \A d \in Session \ {c} : SessionInv(d)'
  BY <1>1, Frame
<1>3. \A i \in Id : Known(c, i)'
  BY <1>1 DEF ViewInv, SessionInv, Answered, Known
<1>4. Shape(c)'
  BY <1>1 DEF Receive, Shape
<1>5. Progress(c)'
  <2>1. \A i \in Id : \A k \in ItemsOn(c, i)' : k >= 1
    BY <1>1 DEF ItemsOn
  <2>2. \A i \in Id : Settled(c, i)'
    BY <1>1, <1>3, <2>1 DEF Settled
  <2>3. QED
    BY <1>3, <2>2 DEF Progress
<1>6. Seen(c)' /\ Answered(c)'
  BY <1>1 DEF Seen, Answered
<1>7. QED
  BY <1>1, <1>2, <1>4, <1>5, <1>6 DEF ViewNext, ViewInv, TypeOK, SessionInv

LEMMA DeleteServiceView ==
    ASSUME SyncInv, ViewInv, NEW i \in Id, handleDeleteService(i)
    PROVE  ViewNext
<1>1. /\ Disturb({}, i) /\ \A j \in Id \ {i} : table'[j] = table[j]
      /\ UNCHANGED <<pc, job, pos, existing, stored>>
  BY DEF handleDeleteService, SyncInv, CodeTypeOK
<1>2. \A d \in Session : SessionInv(d)'
  BY <1>1, Others
<1>3. QED
  BY <1>1, <1>2, DisturbTypes DEF ViewNext

LEMMA RestartView == ASSUME SyncInv, ViewInv, Restart PROVE ViewNext
<1>1. /\ view' \in [Session -> [Id -> Row \union {NoRow, Unknown}]]
      /\ hit' \in [Session -> SUBSET Id]
  BY UntoldIsSo DEF Restart
<1>2. ASSUME NEW c \in Session PROVE SessionInv(c)'
  <2>1. pc'[c] = "idle" /\ view'[c] = Untold(c) /\ table' = table
    BY DEF Restart
  <2>2. QED
    BY <2>1, UntoldIsSo DEF SessionInv, Shape, Progress, Seen, Answered, Known
<1>3. QED
  BY <1>1, <1>2 DEF ViewNext

LEMMA StepView == ASSUME SyncInv, ViewInv, [Next]_vars PROVE ViewInv'
<1>0. ViewNext => TypeOK'
  BY StepInv DEF TypeOK, ViewNext, SyncInv
<1>1. ASSUME NEW c \in Session, Message(c) PROVE ViewNext
  <2>1. ASSUME NEW op \in Op \ {"batch"}, NEW it \in ItemsFrom(c),
               Receive(c, op, <<it>>)
        PROVE  ViewNext
    <3>1. <<it>> \in Seq(ItemsFrom(c)) /\ op \in Op
      OBVIOUS
    <3>2. QED
      BY <2>1, <3>1, ReceiveView
  <2>2. ASSUME NEW n \in 0..MaxBatch, NEW items \in [1..n -> ItemsFrom(c)],
               Receive(c, "batch", items)
        PROVE  ViewNext
    <3>1. n \in Nat
      BY SyncAssumption
    <3>2. items \in Seq(ItemsFrom(c)) /\ "batch" \in Op
      BY <3>1, SeqDef DEF Op
    <3>3. QED
      BY <2>2, <3>2, ReceiveView
  <2>3. QED
    BY <1>1, <2>1, <2>2 DEF Message
<1>2. CASE UNCHANGED vars
  <2>1. \A c \in Session : SessionInv(c)'
    BY <1>2, Frame DEF vars
  <2>2. QED
    BY <1>2, <2>1 DEF vars, ViewInv, TypeOK, CodeTypeOK
<1>3. CASE ViewNext
  BY <1>0, <1>3 DEF ViewInv, ViewNext
<1>4. QED
  BY <1>1, <1>2, <1>3, HandlerView, DeleteServiceView, RestartView DEF Next

LEMMA InitView == ASSUME Init PROVE ViewInv
<1>1. TypeOK
  BY InitInv DEF Init, TypeOK, SyncInv
<1>2. QED
  BY <1>1 DEF Init, ViewInv, SessionInv, Shape, Progress, Seen, Answered, Known

(* Both invariants hold in every state.                                    *)
THEOREM ViewInvariant == Spec => [](SyncInv /\ ViewInv)
<1>1. Init => SyncInv /\ ViewInv
  BY InitInv, InitView
<1>2. SyncInv /\ ViewInv /\ [Next]_vars => (SyncInv /\ ViewInv)'
  BY StepInv, StepView
<1>3. QED
  BY <1>1, <1>2, PTL DEF Spec

(* Every variable has its type, and a row that is written is a whole one.  *)
THEOREM TypeCorrect == Spec => []TypeOK
<1>1. ViewInv => TypeOK
  BY DEF ViewInv
<1>2. QED
  BY <1>1, ViewInvariant, PTL

(* What the answers told an edge is so until somebody else writes: for any *)
(* number of edges, sessions of one edge, and lengths of a batch, whatever *)
(* storage calls fail and answers are lost.                                *)
THEOREM AnswersHold == Spec => []AnswersTrue
<1>1. ViewInv => AnswersTrue
  BY DEF ViewInv, SessionInv, Answered, Known, AnswersTrue
<1>2. QED
  BY <1>1, ViewInvariant, PTL

(* A row changes hands only when it was written between check and save.    *)
THEOREM TakenByRace == Spec => TakenOnlyByRace
<1>1. ASSUME SyncInv, ViewInv, [Next]_vars, NEW i \in Id,
             table[i] # NoRow, table'[i] # NoRow,
             table'[i].edge # table[i].edge
      PROVE  \E c \in Session : pc[c] = "save" /\ item(c).id = i /\ i \in hit[c]
  <2> USE <1>1
  <2>0. table \in [Id -> Row \union {NoRow}]
    BY DEF SyncInv, CodeTypeOK
  <2>1. ASSUME NEW c \in Session, Step(c)
        PROVE  pc[c] = "save" /\ item(c).id = i /\ i \in hit[c]
    <3>1. CASE Save(c)
      <4>1. table' = [table EXCEPT ![item(c).id] =
                         [edge |-> existing[c], payload |-> item(c).payload]]
        BY <3>1 DEF Save, Write
      <4>2. item(c).id = i /\ table'[i].edge = existing[c]
        BY <2>0, <4>1
      <4>3. SessionInv(c) /\ pc[c] = "save"
        BY <3>1 DEF ViewInv, Save
      <4>4. QED
        BY <4>2, <4>3 DEF SessionInv, Seen
    <3>2. CASE Create(c) \/ Delete(c)
      BY <2>0, <3>2 DEF Create, Delete, Write
    <3>3. CASE Skip(c) \/ CreateFails(c) \/ GetOwn(c) \/ GetFails(c)
               \/ SaveFails(c) \/ DeleteFails(c)
      BY <3>3 DEF Skip, CreateFails, GetOwn, GetFails, SaveFails, DeleteFails,
                  NoWrite
    <3>4. CASE Ack(c) \/ AckLost(c)
      BY <3>4 DEF Ack, AckLost, Answer
    <3>5. QED
      BY <2>1, <3>1, <3>2, <3>3, <3>4 DEF Step
  <2>2. ASSUME NEW c \in Session, Message(c) PROVE FALSE
    BY <2>2 DEF Message, Receive
  <2>3. ASSUME NEW j \in Id, handleDeleteService(j) PROVE FALSE
    BY <2>0, <2>3 DEF handleDeleteService
  <2>4. ASSUME Restart \/ UNCHANGED vars PROVE FALSE
    BY <2>4 DEF Restart, vars
  <2>5. QED
    BY <2>1, <2>2, <2>3, <2>4 DEF Next
<1>2. SyncInv /\ ViewInv /\ [Next]_vars => [
        \A i \in Id :
           table[i] # NoRow /\ table'[i] # NoRow /\ table'[i].edge # table[i].edge
           => \E c \in Session : pc[c] = "save" /\ item(c).id = i /\ i \in hit[c]
        ]_vars
  BY <1>1
<1>3. QED
  BY <1>2, ViewInvariant, PTL DEF Spec, TakenOnlyByRace

-----------------------------------------------------------------------------
(* Refinement of ServiceTable. *)

\* A handler leaves the places of the others alone.
LEMMA StepFrame ==
    ASSUME CodeTypeOK, NEW c \in Session, Step(c), NEW d \in Session \ {c}
    PROVE  pc'[d] = pc[d] /\ job'[d] = job[d] /\ pos'[d] = pos[d]
<1> USE DEF CodeTypeOK
<1>1. ASSUME NEW ok, EndItem(c, ok)
      PROVE  pc'[d] = pc[d] /\ job'[d] = job[d] /\ pos'[d] = pos[d]
  BY <1>1 DEF EndItem
<1>2. CASE UpdateFails(c)
  BY <1>1, <1>2 DEF UpdateFails
<1>3. CASE Answer(c)
  BY <1>3 DEF Answer
<1>4. CASE GetOwn(c)
  BY <1>4 DEF GetOwn
<1> QED
  BY <1>1, <1>2, <1>3, <1>4 DEF Step, Skip, Create, CreateFails, GetFails, Save,
     SaveFails, Delete, DeleteFails, Ack, AckLost, Write

\* What a step does to the leaves is what it does to its session's.
LEMMA LeaveOfStep ==
    ASSUME CodeTypeOK, NEW c \in Session, Step(c)
    PROVE  /\ Leave' = [Leave EXCEPT ![c] = Leave'[c]]
           /\ Leave' = Leave <=> Leave'[c] = Leave[c]
<1>1. \A d \in Session \ {c} : Leave'[d] = Leave[d]
  BY StepFrame DEF Leave, item
<1> QED
  BY <1>1 DEF Leave

\* What a session puts into the table is its edge's row.
LEMMA PutsOwn ==
    ASSUME SyncInv, NEW c \in Session, More(c), item(c).payload # Invalid
    PROVE  /\ item(c).id \in Id /\ item(c).payload.value \in Value
           /\ RowOf(c, item(c)) = Table!RowBy(c, item(c).payload.value)
BY ItemType DEF RowOf, Table!RowBy, Payload

\* Where a step leaves its session.
LEMMA LeaveAfter ==
    ASSUME CodeTypeOK, NEW c \in Session
    PROVE  /\ \A ok : EndItem(c, ok) => Leave'[c] = {}
           /\ UpdateFails(c) => Leave'[c] = {}
           /\ Answer(c) => Leave'[c] = {}
           /\ pc[c] # "save" => Leave[c] = {}
BY DEF CodeTypeOK, Leave, EndItem, UpdateFails, Answer

\* Every step of a handler is an operation on the table, or none.
LEMMA HandlerTable ==
    ASSUME SyncInv, NEW c \in Session, Step(c)
    PROVE  Table!Next \/ UNCHANGED <<table, Leave>>
<1>0. CodeTypeOK
  BY DEF SyncInv
<1> USE DEF Table!Next, Table!SessionStep
<1>1. CASE Create(c)
  <2>1. More(c) /\ item(c).payload # Invalid /\ pc[c] # "save"
    BY <1>1, AtWork DEF Create, Creating, Working
  <2>2. Leave' = Leave
    BY <1>0, <1>1, <2>1, LeaveOfStep, LeaveAfter DEF Create, Write
  <2>3. Table!Insert(c, item(c).id, item(c).payload.value)
    BY <1>0, <1>1, <2>1, <2>2, PutsOwn, LeaveAfter
       DEF Create, Write, Table!Insert
  <2> QED
    BY <2>1, <2>3, PutsOwn
<1>2. CASE GetOwn(c)
  <2>1. More(c) /\ item(c).payload # Invalid /\ pc[c] # "save"
    BY <1>2, AtWork DEF GetOwn, Updating, Working
  <2>2. Leave'[c] = {item(c).id}
    BY <1>0, <1>2 DEF GetOwn, Leave, CodeTypeOK, item
  <2>3. Table!Look(c, item(c).id)
    BY <1>0, <1>2, <2>1, <2>2, LeaveOfStep, LeaveAfter
       DEF GetOwn, NoWrite, Table!Look
  <2> QED
    BY <2>1, <2>3, PutsOwn
<1>3. CASE Save(c)
  <2>1. More(c) /\ item(c).payload # Invalid /\ pc[c] = "save"
    BY <1>3, AtWork DEF Save
  <2>2. existing[c] = EdgeOf[c] /\ Leave[c] = {item(c).id}
    BY <2>1 DEF SyncInv, SaveIsOwn, Leave
  <2>3. Leave' = [Leave EXCEPT ![c] = {}]
    BY <1>0, <1>3, LeaveOfStep, LeaveAfter DEF Save, Write
  <2>4. Table!Put(c, item(c).id, item(c).payload.value)
    BY <1>3, <2>1, <2>2, <2>3, PutsOwn DEF Save, Write, RowOf, Table!Put
  <2> QED
    BY <2>1, <2>4, PutsOwn
<1>4. CASE SaveFails(c)
  <2>1. Leave[c] # {}
    BY <1>4 DEF SaveFails, Leave
  <2>2. Table!GiveUp(c)
    BY <1>0, <1>4, <2>1, LeaveOfStep, LeaveAfter
       DEF SaveFails, NoWrite, Table!GiveUp
  <2> QED
    BY <2>2
<1>5. CASE Delete(c)
  <2>1. item(c).id \in Id /\ pc[c] # "save"
    BY <1>5, AtWork, PutsOwn DEF Delete, Deleting, Working
  <2>2. Table!Remove(item(c).id)
    BY <1>0, <1>5, <2>1, LeaveOfStep, LeaveAfter DEF Delete, Write, Table!Remove
  <2> QED
    BY <2>1, <2>2
<1>6. CASE Skip(c) \/ CreateFails(c) \/ GetFails(c) \/ DeleteFails(c)
  <2>1. pc[c] # "save" /\ table' = table
    BY <1>6 DEF Skip, CreateFails, GetFails, DeleteFails, Creating, Updating,
       Deleting, Working, NoWrite
  <2>2. Leave'[c] = {}
    BY <1>0, <1>6, LeaveAfter DEF Skip, CreateFails, GetFails, DeleteFails
  <2> QED
    BY <1>0, <2>1, <2>2, LeaveOfStep, LeaveAfter
<1>7. CASE Ack(c) \/ AckLost(c)
  BY <1>0, <1>7, LeaveOfStep, LeaveAfter DEF Ack, AckLost, Answer
<1> QED
  BY <1>1, <1>2, <1>3, <1>4, <1>5, <1>6, <1>7 DEF Step

\* So is every step.
LEMMA TableStep ==
    ASSUME SyncInv, [Next]_vars
    PROVE  [Table!Next]_(Table!tableVars)
<1> USE DEF Table!tableVars
<1>0. CodeTypeOK
  BY DEF SyncInv
<1>1. ASSUME NEW c \in Session, Message(c) PROVE UNCHANGED <<table, Leave>>
  <2>1. \E op, items : Receive(c, op, items)
    BY <1>1 DEF Message
  <2>2. table' = table /\ pc[c] = "idle" /\ pc'[c] = "item"
    BY <1>0, <2>1 DEF Receive, CodeTypeOK
  <2>3. \A d \in Session \ {c} :
            pc'[d] = pc[d] /\ job'[d] = job[d] /\ pos'[d] = pos[d]
    BY <1>0, <2>1 DEF Receive, CodeTypeOK
  <2>4. \A d \in Session : (IF pc[d] = "save" THEN {item(d).id} ELSE {})'
                             = IF pc[d] = "save" THEN {item(d).id} ELSE {}
    BY <2>2, <2>3 DEF item
  <2> QED
    BY <2>2, <2>4 DEF Leave
<1>2. ASSUME NEW c \in Session, Step(c)
      PROVE  Table!Next \/ UNCHANGED <<table, Leave>>
  BY <1>2, HandlerTable
<1>3. ASSUME NEW i \in Id, handleDeleteService(i) PROVE Table!Remove(i)
  BY <1>3 DEF handleDeleteService, Table!Remove, Leave, item
<1>4. CASE Restart
  <2>1. Table!Restart
    BY <1>4 DEF Restart, Table!Restart, Leave
  <2> QED
    BY <2>1 DEF Table!Next
<1>5. CASE UNCHANGED vars
  BY <1>5 DEF vars, Leave, item
<1> QED
  BY <1>1, <1>2, <1>3, <1>4, <1>5 DEF Next, Table!Next

(* The handlers implement ServiceTable, for any number of sessions of any  *)
(* edges, any batches, and whatever calls fail.                            *)
THEOREM ImplementsTable == Spec => IsServiceTable
<1>1. ASSUME Init PROVE Table!Init
  BY <1>1 DEF Init, Table!Init, Leave
<1> QED
  BY <1>1, TableStep, SyncInvariant, PTL DEF Spec, IsServiceTable, Table!Spec

=============================================================================
