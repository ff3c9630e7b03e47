---------------------------- MODULE MCSqliteStore ----------------------------
(***************************************************************************)
(* Artifacts: every graph of up to three nodes of both kinds, each with    *)
(* the path and name that would suit it, and where inode 1 may have a      *)
(* parent, but not itself; and one good tree, spoiled at one or two places *)
(* in every way the checks tell apart; and two children of one name, which *)
(* none of the checks looks for.  Calls with every kind of argument.       *)
(***************************************************************************)
EXTENDS SqliteStore, TLC

NoContent == [size |-> NONE, inline |-> NONE, status |-> "not_applicable", ref |-> NONE]
Missing   == [NoContent EXCEPT !.status = "missing", !.size = 7]

Node(parent, name, kind, path) ==
    [parent |-> parent, name |-> name, kind |-> kind, snapshot |-> "s", path |-> path,
     content |-> IF kind = "directory" THEN NoContent ELSE Missing, data |-> "plain"]

Artifact(table) ==
    [file |-> "ok", snapshots |-> {"s"}, record |-> "plain", nodes |-> table,
     positions |-> {0}, diagnostic_count |-> 1, reports |-> "plain"]

\* Names against the order of the inodes.
NameOf(i) == IF i = 1 THEN 0 ELSE 5 - i

\* The path that suits a node of a graph with at most one node above its parent.
PathOf(parent, i) ==
    IF i = 1 THEN NONE
    ELSE IF parent[i] \in {1, NONE} THEN <<NameOf(i)>>
    ELSE <<NameOf(parent[i]), NameOf(i)>>

Graphs ==
    UNION { { Artifact([i \in N |-> Node(parent[i], NameOf(i), kind[i], PathOf(parent, i))]) :
                parent \in { p \in [N -> N \cup {NONE, 4}] : 1 \in N => p[1] # 1 },
                kind \in [N -> {"directory", "file"}] } :
            N \in {{1}, {1, 2}, {1, 2, 3}, {2, 3}} }

Tree == (1 :> Node(NONE, 0, "directory", NONE)) @@ (2 :> Node(1, 3, "directory", <<3>>))
        @@ (3 :> Node(1, 2, "file", <<2>>)) @@ (4 :> Node(2, 2, "file", <<3, 2>>))

Good == Artifact(Tree)

Spoiled ==
    { [Good EXCEPT !.file = f] : f \in File }
    \cup { [Good EXCEPT !.record = d, !.reports = r] : d \in Record, r \in Reports }
    \cup { [Good EXCEPT !.nodes[3].name = 3, !.nodes[3].path = <<3>>, !.nodes[i].data = d] :
             i \in {2, 3}, d \in {"plain", "unfreezable"} }
    \cup { [Good EXCEPT !.snapshots = S] : S \in {{}, {"s"}, {"s", "t"}} }
    \cup { [Good EXCEPT !.positions = P, !.diagnostic_count = n] :
             P \in {{}, {0}, {1}, {0, 1}, {0, 2}}, n \in 0 .. 2 }
    \cup { [Good EXCEPT !.nodes[i].name = n, !.nodes[i].path = p] :
             i \in 1 .. 3, n \in {Unmountable, 0, 1}, p \in {NONE, <<1>>} }
    \cup { [Good EXCEPT !.nodes[4].path = p] : p \in {<<2>>, <<3, 2>>, <<2, 2>>} }
    \cup { [Good EXCEPT !.nodes[i].data = d] : i \in {1, 2, 4}, d \in Data }
    \cup { [Good EXCEPT !.nodes[i].snapshot = "t"] : i \in {1, 4} }
    \cup { [Good EXCEPT !.nodes[i].content = c] :
             i \in {2, 4}, c \in [size : {0, 1, NONE}, inline : {0, 1, NONE}, status : Status,
                                  ref : {NONE, "blank", "ref"}] }
    \cup { [Good EXCEPT !.nodes[4].data = "unfreezable", !.nodes[4].content = c] :
             c \in { [Missing EXCEPT !.status = s] : s \in Status } }

MCArtifacts == Graphs \cup Spoiled

Request(op, id, inode, name, offset) ==
    [op |-> op, id |-> id, inode |-> inode, name |-> name, offset |-> offset]

MCRequests ==
    { Request(op, id, 0, 0, 0) : op \in {"get_root"}, id \in {"s", "t"} }
    \cup { Request("get_snapshot", "s", 0, 0, 0) }
    \cup { Request("get_node", "s", i, 0, 0) : i \in {3, 5} }
    \cup { Request("lookup", "s", i, n, 0) : i \in {1, 5}, n \in 1 .. 3 }
    \cup { Request("iter_children", "s", i, 0, o) : i \in {1, 5}, o \in {-3, -1, 0, 1, 2} }
    \cup { Request(op, "s", 0, 0, 0) : op \in {"iter_nodes", "diagnostics"} }
=============================================================================
