------------------------------ MODULE SqliteStore ------------------------------
(***************************************************************************)
(* SQLiteSnapshotStore (store/sqlite/store.py): a store is made by opening *)
(* and validating an artifact, and then read and closed by any threads.    *)
(*                                                                         *)
(* Every query is made whole under the RLock of the store, and so is       *)
(* close(); but a call makes up to three queries and gives the lock back   *)
(* in between.  The file is opened read-only and is not changed meanwhile: *)
(* publication replaces it and does not write to it.  An inode stands for  *)
(* its row, and an inode that no 64-bit integer holds is not asked for.    *)
(***************************************************************************)
EXTENDS ArtifactValidation, Ordering

CONSTANTS
    Threads,
    Requests    \* the calls a thread may make

ASSUME StoreAssumptions == \A r \in Requests : r.offset \in Int

VARIABLES
    connection, \* "none", "open" or "closed"
    calls       \* each thread's request, its next query, the row to begin with, the reply

vars == <<validation, connection, calls>>

Idle == [request |-> NONE, query |-> 1, offset |-> 0, reply |-> NONE]

KeyError   == <<"KeyError">>
Closed     == <<"SQLiteStoreClosedError">>
Unreadable == <<"SQLiteSchemaError">>
Value(x)   == <<"value", x>>

Init ==
    /\ ValidationInit
    /\ connection = "none"
    /\ calls      = [t \in Threads |-> Idle]

-----------------------------------------------------------------------------
(* The constructor: on any failure the connection is closed again, and there *)
(* is no store.                                                            *)

Open ==
    /\ Validate
    /\ connection' = IF verdict' = "accepted" THEN "open" ELSE connection
    /\ UNCHANGED calls

FailToOpen == FailToRead /\ UNCHANGED <<connection, calls>>

-----------------------------------------------------------------------------

Call(t) ==
    /\ verdict = "accepted" /\ calls[t] = Idle
    /\ \E r \in Requests : calls' = [calls EXCEPT ![t].request = r, ![t].offset = r.offset]
    /\ UNCHANGED <<validation, connection>>

Reply(t, reply) == calls' = [calls EXCEPT ![t].reply = reply]

\* One query of a call to one of the operations, under the lock: it may fail to
\* read the file, and it raises SQLiteStoreClosedError without a connection.
Query(t, ops, query, Then) ==
    /\ calls[t].request # NONE /\ calls[t].reply = NONE
    /\ calls[t].request.op \in ops /\ calls[t].query = query
    /\ IF connection = "open" THEN Then \/ Reply(t, Unreadable) ELSE Reply(t, Closed)
    /\ UNCHANGED <<validation, connection>>

Continue(t) == calls' = [calls EXCEPT ![t].query = @ + 1]

request(t) == calls[t].request
children(t) == { i \in Nodes : nodes[i].parent = request(t).inode }

\* _node() makes a Node of a row, and refuses values that Node refuses.
Rows(t, s) ==
    Reply(t, IF \E k \in DOMAIN s : nodes[s[k]].data = "unfreezable" THEN Unreadable ELSE Value(s))

Row(t, i) == Reply(t, IF nodes[i].data = "unfreezable" THEN Unreadable ELSE Value(i))

QuerySnapshot(t) ==
    Query(t, {"get_snapshot", "get_root"}, 1,
          IF request(t).id \notin artifact.snapshots THEN Reply(t, KeyError)
          ELSE IF artifact.record = "unfreezable" THEN Reply(t, Unreadable)
          ELSE IF request(t).op = "get_root" THEN Continue(t)
          ELSE Reply(t, Value(request(t).id)))

QueryRoot(t) == Query(t, {"get_root"}, 2, Row(t, 1))

QueryNode(t) ==
    Query(t, {"get_node"}, 1,
          IF request(t).inode \in Nodes THEN Row(t, request(t).inode) ELSE Reply(t, KeyError))

\* lookup() and iter_children() begin with a get_node().
QueryParent(t) ==
    Query(t, {"lookup", "iter_children"}, 1,
          IF request(t).inode \notin Nodes THEN Reply(t, KeyError)
          ELSE IF nodes[request(t).inode].data = "unfreezable" THEN Reply(t, Unreadable)
          ELSE Continue(t))

QueryChild(t) ==
    Query(t, {"lookup"}, 2,
          LET found == { i \in children(t) : nodes[i].name = request(t).name }
          IN  IF found = {} THEN Reply(t, Value(NONE)) ELSE \E i \in found : Row(t, i))

\* Fault: a negative offset goes to SQLite as it is, which takes it for none.
QueryCountPlain(t) ==
    Query(t, {"iter_children"}, 2,
          LET count == Cardinality(children(t))
          IN  IF request(t).offset >= count THEN Reply(t, Value(<< >>))
              ELSE calls' = [calls EXCEPT ![t].query = 3,
                                          ![t].offset = IF @ < 0 THEN 0 ELSE @])

\* The COUNT of the children decides where the rows begin.
QueryCount(t) ==
    Query(t, {"iter_children"}, 2,
          LET count == Cardinality(children(t))
          IN  IF request(t).offset >= 0 /\ request(t).offset >= count THEN Reply(t, Value(<< >>))
              ELSE calls' = [calls EXCEPT ![t].query = 3,
                                          ![t].offset = IF @ >= 0 THEN @
                                                        ELSE IF count + @ > 0 THEN count + @
                                                        ELSE 0])

\* The rows in the order of their names, without the first ones: rows of the same
\* name in either order.
QueryChildren(t) ==
    Query(t, {"iter_children"}, 3,
          \E ordered \in Orders(children(t), [i \in children(t) |-> nodes[i].name]) :
             Rows(t, SubSeq(ordered, calls[t].offset + 1, Len(ordered))))

QueryNodes(t) ==
    Query(t, {"iter_nodes"}, 1,
          \E ordered \in Orders(Nodes, [i \in Nodes |-> i]) : Rows(t, ordered))

QueryDiagnostics(t) ==
    Query(t, {"diagnostics"}, 1,
          Reply(t, Value(<<Cardinality(artifact.positions), artifact.diagnostic_count>>)))

Return(t) ==
    /\ calls[t].reply # NONE
    /\ calls' = [calls EXCEPT ![t] = Idle]
    /\ UNCHANGED <<validation, connection>>

\* close(), by any thread, also by one after the other.
Close ==
    /\ connection # "none"
    /\ connection' = "closed"
    /\ UNCHANGED <<validation, calls>>

Serve(t) ==
    \/ Call(t) \/ Return(t)
    \/ QuerySnapshot(t) \/ QueryRoot(t) \/ QueryNode(t) \/ QueryParent(t) \/ QueryChild(t)
    \/ QueryCount(t) \/ QueryChildren(t) \/ QueryNodes(t) \/ QueryDiagnostics(t)

Next == Open \/ FailToOpen \/ Close \/ \E t \in Threads : Serve(t)

\* SQLite goes on with a query as long as it has rows to expand.
Spec == Init /\ [][Next]_vars /\ WF_vars(Open)

-----------------------------------------------------------------------------
(* Properties.                                                             *)

\* What the store holds and what its threads wait for, as SnapshotStore says it.
Snapshot == [id          |-> IF artifact.snapshots = {} THEN NONE
                             ELSE CHOOSE id \in artifact.snapshots : TRUE,
             nodes       |-> nodes,
             diagnostics |-> <<Cardinality(artifact.positions), artifact.diagnostic_count>>]
Pending == [t \in Threads |-> [request |-> calls[t].request, reply |-> calls[t].reply]]

Store == INSTANCE SnapshotStore WITH contents <- Snapshot, open <- connection # "closed",
                                     calls <- Pending

\* A call of several queries answers as one lookup in the in-memory store would,
\* at one instant between its beginning and its end, also while other threads
\* close the store; after that every call is told so.  Of siblings with one name a
\* lookup gives any, and a listing has them in any order.
ImplementsStore == Store!Spec

\* Opening an artifact whose inode 1 has no parent ends, however many nodes it
\* has and wherever the parents of the others are.
RootedValidationEnds ==
    (1 \in Nodes /\ nodes[1].parent = NONE) ~> step = "done"

\* architecture.md: "A recursive CTE verifies every positive inode reaches root 1;
\* additional checks reject cycles": the validation of an artifact ends.
ValidationEnds == <>(step = "done")
=============================================================================
