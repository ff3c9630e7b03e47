-------------------------- MODULE ArtifactValidation --------------------------
(***************************************************************************)
(* Opening a SQLite artifact: the checks of SQLiteSnapshotStore._validate  *)
(* (store.py), schema contract (contract.py) and records (validation.py),  *)
(* in the order in which they are made.                                    *)
(*                                                                         *)
(* An artifact is what the checks tell apart, and its tables may hold      *)
(* anything.  Taken for granted is what SQLite goes by itself: that an id  *)
(* is the key of its row, and that the indexes agree with the tables.  It  *)
(* is not that sibling names differ: the schema contract asks for UNIQUE   *)
(* to be declared, and quick_check does not look whether it holds.         *)
(* A mounted name is a number: 0 the empty one, the others in byte order,  *)
(* and Unmountable for one that is too long, not UTF-8, ".", ".." or has a *)
(* NUL or a slash.                                                         *)
(***************************************************************************)
EXTENDS Integers, Sequences, FiniteSets, SequencesExt

CONSTANTS
    Artifacts,  \* the artifacts that may be opened
    NONE

Unmountable == -1

\* What is wrong with the file before its records are read, if anything.
File == {"ok", "missing", "foreign", "version", "corrupt", "schema"}

\* What is to say of a node's values beside those modelled: plain and observed
\* ones are good, the root only takes plain ones; then a value of a wrong storage
\* class, one out of its domain, a timestamp or JSON text that does not decode,
\* and JSON that decodes to what Node refuses (NaN, half a surrogate pair).
Data == {"plain", "observed", "type", "value", "undecodable", "unfreezable"}

\* The same of the rows of the snapshot table, and of the diagnostics, whose
\* texts are not decoded.
Record  == Data \ {"observed"}
Reports == {"plain", "type", "value"}

\* A content_ref may be the empty text, "blank".
Status  == {"not_applicable", "missing", "present", "remote", "failed", "redacted"}
Content == [size : Nat \cup {NONE}, inline : Nat \cup {NONE}, status : Status,
            ref : {NONE, "blank", "ref"}]

ASSUME ValidationAssumptions ==
    /\ NONE \notin Nat \cup {"blank", "ref"}
    /\ \A a \in Artifacts :
         /\ a.file \in File /\ a.record \in Record /\ a.reports \in Reports
         /\ IsFiniteSet(a.snapshots) /\ IsFiniteSet(a.positions) /\ a.positions \subseteq Int
         /\ a.diagnostic_count \in Nat
         /\ DOMAIN a.nodes \subseteq Nat \ {0} /\ IsFiniteSet(DOMAIN a.nodes)
         /\ \A i \in DOMAIN a.nodes :
              /\ a.nodes[i].name \in Int
              /\ a.nodes[i].content \in Content /\ a.nodes[i].data \in Data

VARIABLES
    artifact,
    step,       \* the check to make next
    queue,      \* the rows that the recursive query has yet to expand
    reachable,  \* the rows it has made, up to one more than there are nodes
    verdict     \* "none", "accepted", "refused" or "unreadable"

validation == <<artifact, step, queue, reachable, verdict>>

Step == {"open", "schema", "keys", "counts", "classes", "values", "parents", "walk",
         "names", "root", "diagnostics", "done"}

nodes == artifact.nodes
Nodes == DOMAIN nodes

ValidationInit ==
    /\ artifact \in Artifacts
    /\ step = "open" /\ queue = << >> /\ reachable = 0 /\ verdict = "none"

-----------------------------------------------------------------------------

End(v) == step' = "done" /\ verdict' = v /\ UNCHANGED <<artifact, queue, reachable>>

\* A check that raises SQLiteSchemaError unless the condition holds.
Check(name, condition, next) ==
    /\ step = name
    /\ IF condition
       THEN step' = next /\ UNCHANGED <<artifact, queue, reachable, verdict>>
       ELSE End("refused")

\* The file, its application id and version, and quick_check.
CheckFile   == Check("open", artifact.file \in {"ok", "schema"}, "schema")
CheckSchema == Check("schema", artifact.file = "ok", "keys")

\* PRAGMA foreign_key_check.
CheckKeys ==
    Check("keys", \A i \in Nodes : /\ nodes[i].parent \in Nodes \cup {NONE}
                                   /\ nodes[i].snapshot \in artifact.snapshots, "counts")

CheckCounts ==
    Check("counts", /\ Cardinality(artifact.snapshots) = 1
                    /\ 1 \in Nodes
                    /\ Cardinality({ i \in Nodes : nodes[i].parent = NONE }) = 1, "classes")

\* _require_storage_classes, of the three tables.
CheckClasses ==
    Check("classes", /\ artifact.record # "type" /\ artifact.reports # "type"
                     /\ \A i \in Nodes : nodes[i].data # "type", "values")

\* Fault: content at a place of its own passes for a file of size zero.
ContentInvariantNoRef(i) ==
    LET c == nodes[i].content
    IN  /\ nodes[i].kind = "directory" =>
             c.size = NONE /\ c.inline = NONE /\ c.ref = NONE /\ c.status = "not_applicable"
        /\ nodes[i].kind = "file" =>
             /\ c.status # "not_applicable"
             /\ c.size = 0 => c.inline = 0 /\ c.status = "present"
             /\ c.inline = NONE /\ c.status \in {"present", "remote"} => c.ref = "ref"
             /\ c.inline = NONE /\ c.status \notin {"present", "remote"} => c.ref = NONE

\* _require_content_invariants: the rows that its SELECT does not find.
ContentInvariant(i) ==
    LET c == nodes[i].content
    IN  /\ nodes[i].kind = "directory" =>
             c.size = NONE /\ c.inline = NONE /\ c.ref = NONE /\ c.status = "not_applicable"
        /\ nodes[i].kind = "file" =>
             /\ c.status # "not_applicable"
             /\ c.size = 0 => c.inline = 0 /\ c.status = "present" /\ c.ref = NONE
             /\ c.inline # NONE => /\ c.size = c.inline
                                   /\ c.status = "present" /\ c.ref = NONE
             /\ c.inline = NONE /\ c.status \in {"present", "remote"} => c.ref = "ref"
             /\ c.inline = NONE /\ c.status \notin {"present", "remote"} => c.ref = NONE

\* The COUNT, MIN and MAX of the diagnostics' positions.
Contiguous(P) ==
    P = {} \/ ({0, Cardinality(P) - 1} \subseteq P /\ P \subseteq 0 .. Cardinality(P) - 1)

CheckValues ==
    Check("values", /\ artifact.record # "value" /\ artifact.reports # "value"
                    /\ \A i \in Nodes : nodes[i].data # "value"
                    /\ Contiguous(artifact.positions)
                    /\ \A i \in Nodes : ContentInvariant(i), "parents")

\* Faults: the kind of parents is not asked for; the query starts from every row.
CheckParentsAnyKind ==
    /\ step = "parents"
    /\ step' = "walk" /\ queue' = <<1>> /\ reachable' = 1 /\ UNCHANGED <<artifact, verdict>>

CheckParentsAllRows ==
    /\ step = "parents"
    /\ step' = "walk" /\ queue' = SetToSeq(Nodes) /\ reachable' = Cardinality(Nodes)
    /\ UNCHANGED <<artifact, verdict>>

\* The first query of _require_graph; then the second starts from inode 1.
CheckParents ==
    /\ step = "parents"
    /\ IF \A i \in Nodes : nodes[i].parent # NONE => nodes[nodes[i].parent].kind = "directory"
       THEN step' = "walk" /\ queue' = <<1>> /\ reachable' = 1 /\ UNCHANGED <<artifact, verdict>>
       ELSE End("refused")

\* One row of the recursive query is taken from the queue, and the rows of its
\* children are added to it: UNION ALL does not ask whether they were there.
Expand ==
    /\ step = "walk" /\ queue # << >>
    /\ LET rows == SetToSeq({ i \in Nodes : nodes[i].parent = Head(queue) })
       IN  /\ queue' = Tail(queue) \o rows
           /\ reachable' = IF reachable + Len(rows) > Cardinality(Nodes)
                           THEN Cardinality(Nodes) + 1 ELSE reachable + Len(rows)
    /\ UNCHANGED <<artifact, step, verdict>>

\* The query has ended, and its COUNT is compared with that of the nodes.
CheckWalk == queue = << >> /\ Check("walk", reachable = Cardinality(Nodes), "names")

\* The mounted names from the root to a node, of nodes that reach it.
RelativePath[i \in Nodes] ==
    IF i = 1 THEN << >> ELSE Append(RelativePath[nodes[i].parent], nodes[i].name)

\* The names and serialized values of nodes, row by row, then their paths, and
\* the values of the snapshot.
CheckNames ==
    Check("names", /\ nodes[1].path = NONE /\ nodes[1].data = "plain" /\ nodes[1].name = 0
                   /\ \A i \in Nodes : /\ nodes[i].name # Unmountable
                                       /\ nodes[i].data # "undecodable"
                                       /\ i # 1 => /\ nodes[i].name # 0
                                                   /\ nodes[i].path = RelativePath[i]
                   /\ artifact.record # "undecodable", "root")

CheckRoot == Check("root", nodes[1].parent = NONE /\ nodes[1].kind = "directory", "diagnostics")

CheckDiagnostics ==
    /\ step = "diagnostics"
    /\ End(IF artifact.diagnostic_count < Cardinality(artifact.positions)
           THEN "refused" ELSE "accepted")

\* Any query can fail on the file.
FailToRead == step # "done" /\ End("unreadable")

Validate ==
    \/ CheckFile \/ CheckSchema \/ CheckKeys \/ CheckCounts \/ CheckClasses \/ CheckValues
    \/ CheckParents \/ Expand \/ CheckWalk \/ CheckNames \/ CheckRoot \/ CheckDiagnostics

-----------------------------------------------------------------------------
(* Properties.                                                             *)

\* Node.__post_init__ (model/node.py), the values of its metadata aside.
NodeAccepts(i) ==
    LET c == nodes[i].content
    IN  /\ nodes[i].kind = "directory" =>
             c.size = NONE /\ c.inline = NONE /\ c.ref = NONE /\ c.status = "not_applicable"
        /\ nodes[i].kind = "file" =>
             /\ c.inline # NONE => c.size = c.inline
             /\ c.status # "not_applicable"
             /\ c.size = 0 => c.inline = 0 /\ c.status = "present" /\ c.ref = NONE
             /\ IF c.inline # NONE THEN c.status = "present" /\ c.ref = NONE
                ELSE IF c.status \in {"present", "remote"} THEN c.ref \notin {NONE, "blank"}
                ELSE c.ref = NONE

\* A snapshot is a tree: inode 1 is its only node without a parent, and no set of
\* other nodes holds the parents of all its members.
IsTree ==
    /\ \A i \in Nodes : IF i = 1 THEN nodes[i].parent = NONE
                        ELSE nodes[i].parent \in Nodes /\ nodes[nodes[i].parent].kind = "directory"
    /\ \A S \in SUBSET (Nodes \ {1}) : S # {} => \E i \in S : nodes[i].parent \notin S

\* What a published artifact holds, but for the names of siblings, which differ.
IsSnapshot ==
    /\ artifact.file = "ok"
    /\ artifact.record \in {"plain", "unfreezable"} /\ artifact.reports = "plain"
    /\ 1 \in Nodes /\ nodes[1].kind = "directory" /\ IsTree
    /\ \E id \in artifact.snapshots :
         artifact.snapshots = {id} /\ \A i \in Nodes : nodes[i].snapshot = id
    /\ nodes[1].name = 0 /\ nodes[1].path = NONE /\ nodes[1].data = "plain"
    /\ \A i \in Nodes \ {1} :
         /\ nodes[i].name \notin {0, Unmountable}
         /\ nodes[i].data \in {"plain", "observed", "unfreezable"}
    /\ \A i \in Nodes \ {1} :
            nodes[i].path = Append(IF nodes[i].parent = 1 THEN << >>
                                   ELSE nodes[nodes[i].parent].path, nodes[i].name)
    /\ artifact.positions = 0 .. Cardinality(artifact.positions) - 1
    /\ Cardinality(artifact.positions) <= artifact.diagnostic_count

\* What the constructor of Node takes, JSON that it refuses aside.
Constructible == \A i \in Nodes : NodeAccepts(i)

\* Validation accepts snapshots and nothing else: no cycle, forest, stray parent or
\* misplaced value passes the sequence of its checks, each of which relies on
\* those before it, and no good artifact is refused.  Siblings of one name pass.
AcceptsSnapshots ==
    /\ verdict = "accepted" => IsSnapshot
    /\ verdict = "refused" => ~(IsSnapshot /\ Constructible)

\* The SQL of the validation refuses what the constructor of Node would refuse when
\* the row is read, so that a store that was opened can serve all its nodes; only
\* JSON that decodes to values that Node refuses is not looked at.
AcceptedCanBeServed == verdict = "accepted" => Constructible
=============================================================================
