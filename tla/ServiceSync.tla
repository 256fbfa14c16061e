---------------------------- MODULE ServiceSync -----------------------------
(***************************************************************************)
(* Edges that keep the server's table of services in step with their own:  *)
(* handleServiceSync and handleServiceSyncBatch                            *)
(* (internal/signaling/service_handlers.go), the calls of                  *)
(* internal/storage/sqlite.go they make, and the delete of the REST API    *)
(* (internal/api/handlers.go).                                             *)
(*                                                                         *)
(* A message runs in the read loop of its session, one at a time, between  *)
(* the messages of other sessions.  A storage call is one step; it is one  *)
(* statement or transaction of SQLite, and it may fail without effect (the *)
(* database is locked, the disk is full).  What validateService looks at   *)
(* is abstracted to valid or not; the fields an update copies are one      *)
(* payload, which remembers the edge that sent it.                         *)
(***************************************************************************)
EXTENDS Naturals, Sequences

CONSTANTS
    Session,    \* sessions of edges
    Edge,       \* edge ids
    EdgeOf,     \* the id a session registered under
    Id,         \* service ids
    Value,      \* what the fields of a service may hold
    MaxBatch,   \* maxBatchSize
    Invalid,    \* a service that does not parse or fails validateService
    NoRow,      \* no service under this id
    Unknown     \* the edge cannot tell

ASSUME SyncAssumption ==
    /\ EdgeOf \in [Session -> Edge]
    /\ MaxBatch \in Nat

VARIABLES
    table,      \* edge_services, by primary key
    pc,         \* where the handler of a session is
    job,        \* the message it works on
    pos,        \* the item of the message it works on
    existing,   \* updateService: the edge of the row it has read
    stored,     \* items done without an error
    view,       \* history: what the answers told the edge of each id
    hit         \* history: ids others wrote while the message was worked on

vars == <<table, pc, job, pos, existing, stored, view, hit>>

Payload == [by : Edge, value : Value]
Row == [edge : Edge, payload : Payload]
Item == [id : Id, payload : Payload \union {Invalid}]
Op == {"created", "updated", "deleted", "other", "batch"}
Job == [op : Op, items : Seq(Item)]
NoJob == [op |-> "other", items |-> <<>>]

item(c) == job[c].items[pos[c]]
RowOf(c, it) == [edge |-> EdgeOf[c], payload |-> it.payload]

(* The items a session may send: the payloads are its own. *)
ItemsFrom(c) ==
    [id : Id, payload : [by : {EdgeOf[c]}, value : Value] \union {Invalid}]

-----------------------------------------------------------------------------
CodeTypeOK ==
    /\ table \in [Id -> Row \union {NoRow}]
    /\ pc \in [Session -> {"idle", "item", "save", "create"}]
    /\ job \in [Session -> Job]
    /\ pos \in [Session -> Nat]
    /\ existing \in [Session -> Edge]
    /\ stored \in [Session -> Nat]

TypeOK ==
    /\ CodeTypeOK
    /\ view \in [Session -> [Id -> Row \union {NoRow, Unknown}]]
    /\ hit \in [Session -> SUBSET Id]

Init ==
    /\ table = [i \in Id |-> NoRow]
    /\ pc = [c \in Session |-> "idle"]
    /\ job = [c \in Session |-> NoJob]
    /\ pos = [c \in Session |-> 1]
    /\ existing = EdgeOf
    /\ stored = [c \in Session |-> 0]
    /\ view = [c \in Session |-> [i \in Id |-> NoRow]]
    /\ hit = [c \in Session |-> {}]

-----------------------------------------------------------------------------
(* History: somebody other than the sessions of S wrote id i.              *)
Disturb(S, i) ==
    /\ view' = [c \in Session |->
           IF c \in S THEN view[c] ELSE [view[c] EXCEPT ![i] = Unknown]]
    /\ hit' = [c \in Session |->
           IF c \in S \/ pc[c] = "idle" THEN hit[c] ELSE hit[c] \union {i}]

(* The message arrives.  A batch beyond maxBatchSize is refused whole.     *)
Receive(c, op, items) ==
    /\ pc[c] = "idle"
    /\ IF op = "batch" THEN Len(items) <= MaxBatch ELSE Len(items) = 1
    /\ pc' = [pc EXCEPT ![c] = "item"]
    /\ job' = [job EXCEPT ![c] = [op |-> op, items |-> items]]
    /\ pos' = [pos EXCEPT ![c] = 1]
    /\ stored' = [stored EXCEPT ![c] = 0]
    /\ UNCHANGED <<table, existing, view, hit>>

More(c) == pos[c] <= Len(job[c].items)

(* Mutated Working: nothing is validated.                                  *)
WorkingUnvalidated(c) == pc[c] = "item" /\ More(c)

Working(c) == pc[c] = "item" /\ More(c) /\ item(c).payload # Invalid

(* The end of the work on an item: return, or the next round of the loop.  *)
EndItem(c, ok) ==
    /\ pc' = [pc EXCEPT ![c] = "item"]
    /\ pos' = [pos EXCEPT ![c] = @ + 1]
    /\ stored' = [stored EXCEPT ![c] = IF ok THEN @ + 1 ELSE @]
    /\ UNCHANGED <<job, existing>>

Write(c, row) ==
    /\ table' = [table EXCEPT ![item(c).id] = row]
    /\ Disturb({c}, item(c).id)
    /\ EndItem(c, TRUE)

NoWrite == UNCHANGED <<table, view, hit>>

(* Validation refuses every operation, a delete too, and then the switch   *)
(* an operation it does not know.                                          *)
Skip(c) ==
    /\ pc[c] = "item" /\ More(c)
    /\ item(c).payload = Invalid \/ job[c].op = "other"
    /\ EndItem(c, FALSE)
    /\ NoWrite

(* CreateEdgeService: the id is the primary key.                           *)
Creating(c) == pc[c] = "create" \/ (Working(c) /\ job[c].op = "created")
Create(c) ==
    /\ Creating(c)
    /\ table[item(c).id] = NoRow
    /\ Write(c, RowOf(c, item(c)))

(* The id is taken, by whatever edge, or the storage fails.                *)
CreateFails(c) == Creating(c) /\ EndItem(c, FALSE) /\ NoWrite

(* An update that fails ends a single sync; in a batch a create follows.   *)
UpdateFails(c) ==
    IF job[c].op = "batch"
    THEN /\ pc' = [pc EXCEPT ![c] = "create"]
         /\ UNCHANGED <<job, pos, existing, stored>>
    ELSE EndItem(c, FALSE)

(* updateService, the read and the check of the owner.                     *)
Updating(c) == Working(c) /\ job[c].op \in {"updated", "batch"}
(* (Mutated: the owner is not checked.)                                    *)
GetOwnUnchecked(c) ==
    /\ Updating(c)
    /\ table[item(c).id] # NoRow
    /\ existing' = [existing EXCEPT ![c] = table[item(c).id].edge]
    /\ pc' = [pc EXCEPT ![c] = "save"]
    /\ UNCHANGED <<job, pos, stored>> /\ NoWrite

(* (Mutated: the owner is not checked, and overwritten.)                   *)
GetAndTake(c) ==
    /\ Updating(c)
    /\ table[item(c).id] # NoRow
    /\ existing' = [existing EXCEPT ![c] = EdgeOf[c]]
    /\ pc' = [pc EXCEPT ![c] = "save"]
    /\ UNCHANGED <<job, pos, stored>> /\ NoWrite

GetOwn(c) ==
    /\ Updating(c)
    /\ table[item(c).id] # NoRow
    /\ table[item(c).id].edge = EdgeOf[c]
    /\ existing' = [existing EXCEPT ![c] = table[item(c).id].edge]
    /\ pc' = [pc EXCEPT ![c] = "save"]
    /\ UNCHANGED <<job, pos, stored>> /\ NoWrite

(* No row, another edge's row, or a read that fails.                       *)
GetFails(c) == Updating(c) /\ UpdateFails(c) /\ NoWrite

(* UpdateEdgeService: gorm's Save updates by primary key, and when no row  *)
(* is there inserts one.  edge_id is that of the row read before.          *)
Save(c) ==
    /\ pc[c] = "save"
    /\ Write(c, [edge |-> existing[c], payload |-> item(c).payload])

SaveFails(c) == pc[c] = "save" /\ UpdateFails(c) /\ NoWrite

(* deleteService: by id, whoever's row it is.                              *)
Deleting(c) == Working(c) /\ job[c].op = "deleted"
(* (Mutated: a soft delete, which leaves the row.)                         *)
DeleteSoft(c) ==
    /\ Deleting(c)
    /\ table[item(c).id] # NoRow
    /\ Write(c, table[item(c).id])

Delete(c) ==
    /\ Deleting(c)
    /\ table[item(c).id] # NoRow
    /\ Write(c, NoRow)

(* There is no such row, or the storage fails.                             *)
DeleteFails(c) == Deleting(c) /\ EndItem(c, FALSE) /\ NoWrite

-----------------------------------------------------------------------------
(* What the answer tells the edge of id i: a single sync is acknowledged   *)
(* with "success" or "error"; the answer to a batch is always a "success", *)
(* which gives the number of services synced, not which.                   *)
ItemsOn(c, i) == {k \in DOMAIN job[c].items : job[c].items[k].id = i}
LastOn(c, i) == CHOOSE k \in ItemsOn(c, i) : \A l \in ItemsOn(c, i) : l <= k
Asked(c, i) == IF job[c].op = "deleted" THEN NoRow
               ELSE RowOf(c, job[c].items[LastOn(c, i)])
Told(c, i) ==
    IF i \in hit[c] THEN Unknown
    ELSE IF ItemsOn(c, i) = {} THEN view[c][i]
    ELSE IF stored[c] = Len(job[c].items) THEN Asked(c, i)
    ELSE IF job[c].op = "batch" THEN Unknown
    ELSE view[c][i]

Answer(c) ==
    /\ pc' = [pc EXCEPT ![c] = "idle"]
    /\ job' = [job EXCEPT ![c] = NoJob]
    /\ pos' = [pos EXCEPT ![c] = 1]
    /\ existing' = [existing EXCEPT ![c] = EdgeOf[c]]
    /\ stored' = [stored EXCEPT ![c] = 0]
    /\ hit' = [hit EXCEPT ![c] = {}]
    /\ UNCHANGED table

Ack(c) ==
    /\ pc[c] = "item" /\ ~More(c)
    /\ Answer(c)
    /\ view' = [view EXCEPT ![c] = [i \in Id |-> Told(c, i)]]

Untold(c) == [i \in Id |->
    IF ItemsOn(c, i) # {} \/ i \in hit[c] THEN Unknown ELSE view[c][i]]

(* The connection is gone; the handler has run to its end all the same.    *)
AckLost(c) ==
    /\ pc[c] = "item" /\ ~More(c)
    /\ Answer(c)
    /\ view' = [view EXCEPT ![c] = Untold(c)]

(* DELETE /services/:id *)
handleDeleteService(i) ==
    /\ table[i] # NoRow
    /\ table' = [table EXCEPT ![i] = NoRow]
    /\ Disturb({}, i)
    /\ UNCHANGED <<pc, job, pos, existing, stored>>

(* The process dies and starts again, wherever its handlers are: the table *)
(* is on disk.                                                             *)
Restart ==
    /\ pc' = [c \in Session |-> "idle"]
    /\ job' = [c \in Session |-> NoJob]
    /\ pos' = [c \in Session |-> 1]
    /\ existing' = EdgeOf
    /\ stored' = [c \in Session |-> 0]
    /\ hit' = [c \in Session |-> {}]
    /\ view' = [c \in Session |-> Untold(c)]
    /\ UNCHANGED table

Step(c) ==
    \/ Skip(c)
    \/ Create(c) \/ CreateFails(c)
    \/ GetOwn(c) \/ GetFails(c)
    \/ Save(c) \/ SaveFails(c)
    \/ Delete(c) \/ DeleteFails(c)
    \/ Ack(c) \/ AckLost(c)

Message(c) ==
    \/ \E op \in Op \ {"batch"}, it \in ItemsFrom(c) : Receive(c, op, <<it>>)
    \/ \E n \in 0..MaxBatch : \E items \in [1..n -> ItemsFrom(c)] :
           Receive(c, "batch", items)

Next ==
    \/ \E c \in Session : Message(c) \/ Step(c)
    \/ \E i \in Id : handleDeleteService(i)
    \/ Restart

Spec == Init /\ [][Next]_vars

-----------------------------------------------------------------------------
(* Every row is what the edge it belongs to sent: in no interleaving of    *)
(* reads, saves, creates and deletes does a row carry the payload of one   *)
(* edge under the name of another (service_handlers.go:247-294).           *)
RowsAreGenuine ==
    \A i \in Id : table[i] # NoRow => table[i].payload.by = table[i].edge

(* What the answers told an edge about a service is so until another       *)
(* session or the API writes that id: a success means the table holds what *)
(* was asked, an error means it holds what it held, and a batch that synced*)
(* as many services as it had holds the last of each                       *)
(* (service_handlers.go:68-98, 138-217).                                   *)
AnswersTrue ==
    \A c \in Session, i \in Id :
        pc[c] = "idle" => view[c][i] \in {Unknown, table[i]}

(* A row passes from one edge to another only by the save of a session, of *)
(* a row whose id somebody else has written since its message arrived:     *)
(* this is how a row can be deleted, and created again by the other edge,  *)
(* between the check of the owner and the save (service_handlers.go:270,   *)
(* "Verify edge ownership").  In a message that nobody interferes with no  *)
(* session takes what is not its own.                                      *)
TakenOnlyByRace ==
    [][\A i \in Id :
           table[i] # NoRow /\ table'[i] # NoRow /\ table'[i].edge # table[i].edge
           => \E c \in Session : pc[c] = "save" /\ item(c).id = i /\ i \in hit[c]
      ]_vars

-----------------------------------------------------------------------------
(* A session may write over the row it is about to save.                   *)
Leave == [c \in Session |-> IF pc[c] = "save" THEN {item(c).id} ELSE {}]

Table == INSTANCE ServiceTable WITH leave <- Leave

(* Messages, batches, failing calls, lost answers and restarts come down   *)
(* to the operations of ServiceTable, each one storage call: nothing gets  *)
(* into the table but by them, and a handler that has passed the check of  *)
(* the owner saves once, under the id it checked, or not at all            *)
(* (service_handlers.go:138-303, sqlite.go:58-101).                        *)
IsServiceTable == Table!Spec

=============================================================================
