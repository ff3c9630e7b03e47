----------------------------- MODULE SnapshotStore -----------------------------
(***************************************************************************)
(* What a snapshot store promises to the threads that read it.             *)
(*                                                                         *)
(* The contents never change, a call is answered in one instant, and after *)
(* close() every call is told so.  The answers are those of the in-memory  *)
(* store (store/memory/store.py), whose calls are one lookup in immutable  *)
(* dictionaries each; it cannot be closed and does no I/O, the two ways in *)
(* which a store that keeps a file open may answer otherwise.  And the     *)
(* children of its nodes differ in their names.  Where they do not, as in  *)
(* a file that some other program has written, a call may take any of the  *)
(* children that have one name, and has several answers.                   *)
(***************************************************************************)
EXTENDS Ordering

CONSTANTS
    Threads,
    Requests,   \* the calls a thread may make
    NONE

VARIABLES
    contents,   \* the snapshot: id, nodes by inode, and the diagnostics
    open,
    calls       \* what each thread does: its request and the reply, if any

vars == <<contents, open, calls>>

Idle == [request |-> NONE, reply |-> NONE]

KeyError   == <<"KeyError">>
Closed     == <<"SQLiteStoreClosedError">>
Unreadable == <<"SQLiteSchemaError">>
Value(x)   == <<"value", x>>

-----------------------------------------------------------------------------
(* The in-memory store: nodes by inode, and the children of each by name.  *)

ChildrenOf(nodes, i) == { j \in DOMAIN nodes : nodes[j].parent = i }

ByName(nodes, S) == Orders(S, [i \in S |-> nodes[i].name])

\* The slice s[offset:] of Python, where -n stands for the n-th item from the end.
From(s, offset) ==
    LET first == IF offset >= 0 THEN offset
                 ELSE IF Len(s) + offset > 0 THEN Len(s) + offset ELSE 0
    IN  SubSeq(s, first + 1, Len(s))

Lookup(nodes, i, name) ==
    LET found == { j \in ChildrenOf(nodes, i) : nodes[j].name = name }
    IN  IF found = {} THEN {NONE} ELSE found

Answers(c, r) ==
    CASE r.op \in {"get_snapshot", "get_root"} ->
           {IF r.id # c.id THEN KeyError ELSE Value(IF r.op = "get_root" THEN 1 ELSE c.id)}
      [] r.op = "get_node" ->
           {IF r.inode \in DOMAIN c.nodes THEN Value(r.inode) ELSE KeyError}
      [] r.op = "lookup" ->
           IF r.inode \notin DOMAIN c.nodes THEN {KeyError}
           ELSE { Value(j) : j \in Lookup(c.nodes, r.inode, r.name) }
      [] r.op = "iter_children" ->
           IF r.inode \notin DOMAIN c.nodes THEN {KeyError}
           ELSE { Value(From(s, r.offset)) :
                    s \in ByName(c.nodes, ChildrenOf(c.nodes, r.inode)) }
      [] r.op = "iter_nodes" ->
           { Value(s) : s \in Orders(DOMAIN c.nodes, [i \in DOMAIN c.nodes |-> i]) }
      [] r.op = "diagnostics" -> {Value(c.diagnostics)}

-----------------------------------------------------------------------------

Init == open = TRUE /\ calls = [t \in Threads |-> Idle]

Call(t) ==
    /\ calls[t] = Idle
    /\ \E r \in Requests : calls' = [calls EXCEPT ![t].request = r]
    /\ UNCHANGED <<contents, open>>

Reply(t) ==
    /\ calls[t].request # NONE /\ calls[t].reply = NONE
    /\ LET r == calls[t].request
       IN  \E reply \in IF open THEN Answers(contents, r) \cup {Unreadable} ELSE {Closed} :
             calls' = [calls EXCEPT ![t].reply = reply]
    /\ UNCHANGED <<contents, open>>

Return(t) ==
    /\ calls[t].reply # NONE
    /\ calls' = [calls EXCEPT ![t] = Idle]
    /\ UNCHANGED <<contents, open>>

Close == open' = FALSE /\ UNCHANGED <<contents, calls>>

Next == Close \/ \E t \in Threads : Call(t) \/ Reply(t) \/ Return(t)

Spec == Init /\ [][Next]_vars
=============================================================================
