------------------------ MODULE SnapshotBuilderProofs ------------------------
(***************************************************************************)
(* Proofs that the builder's tree is well formed for every set of entries, *)
(* that a refused entry leaves no trace, that an accepted one is there,    *)
(* that what is published is legal, and that a finished builder does not   *)
(* change.                                                                 *)
(***************************************************************************)
EXTENDS SnapshotBuilder, SequenceTheorems, WellFoundedInduction, TLAPS

\* What the loop of add() knows at the head of an iteration.
WalkInv ==
    call # Idle =>
        /\ ~finished
        /\ call \in [entry : Entries, index : Nat, parent : Nat]
        /\ nodes[call.parent].kind = Directory
        /\ nodes[call.parent].path = SubSeq(call.entry.path, 1, call.index - 1)

\* Either nothing was created so far or the walk is at a node it has created,
\* where no child can conflict with the entry.
FreshInv == call # Idle => tree = before \/ DOMAIN children[call.parent] = {}

\* AcceptedEntriesPresent in the middle of a walk: the node of an accepted entry
\* was observed, and an accepted time stays.
Holds(node, e) ==
    /\ node.path = e.path /\ node.kind = e.kind
    /\ node.observation # NONE
    /\ node.kind = File => node.meta = e.meta
    /\ e.observation # SectionHeader => /\ node.observation # SectionHeader
                                        /\ node.meta.modified = e.meta.modified

PresentInv == \A e \in added : \E id \in DOMAIN nodes : Holds(nodes[id], e)

TreeInv == TypeOK /\ RootedTree /\ WalkInv

\* The part of TypeOK that is about the tree.
TreeTypes ==
    /\ next_id \in Nat /\ next_id >= 2
    /\ DOMAIN nodes \subseteq 1 .. next_id - 1
    /\ DOMAIN children = DOMAIN nodes
    /\ \A id \in DOMAIN nodes :
         /\ nodes[id] \in MutableNode
         /\ DOMAIN children[id] \subseteq Names
         /\ \A n \in DOMAIN children[id] : children[id][n] \in DOMAIN nodes

-----------------------------------------------------------------------------
(* Paths and merges.                                                       *)

\* A path is built one component at a time.
LEMMA PathGrows ==
    ASSUME NEW S, NEW p \in Seq(S), NEW i \in DOMAIN p
    PROVE  /\ SubSeq(p, 1, i) = Append(SubSeq(p, 1, i - 1), p[i])
           /\ SubSeq(p, 1, i) \in Seq(S)
           /\ SubSeq(p, 1, 0) = << >>
           /\ SubSeq(p, 1, Len(p)) = p
<1>1. i \in 1 .. Len(p) /\ SubSeq(p, 1, i - 1) \in Seq(S) /\ p[i] \in S
  <2>1. 1 \in Int /\ i - 1 \in Int /\ \A j \in 1 .. i - 1 : p[j] \in S
    OBVIOUS
  <2>2. SubSeq(p, 1, i - 1) \in Seq(S)
    BY ONLY <2>1, SubSeqProperties, Zenon
  <2> QED
    BY <2>2
<1>2. SubSeq(p, 1, i) = SubSeq(p, 1, i - 1) \o << p[i] >>
  BY <1>1, SubSeqRecursiveSecond, 1 \in 1 .. Len(p), i \in 1 .. Len(p)
<1>3. Append(SubSeq(p, 1, i - 1), p[i]) = SubSeq(p, 1, i - 1) \o << p[i] >>
  BY <1>1, AppendIsConcat
<1>4. SubSeq(p, 1, i) \in Seq(S)
  BY <1>1, <1>2, <1>3, AppendProperties
<1>5. SubSeq(p, 1, 0) = << >> /\ SubSeq(p, 1, Len(p)) = p
  BY SubSeqEmpty, SubSeqFull
<1> QED
  BY <1>2, <1>3, <1>4, <1>5

\* components() only lets mountable names through.
LEMMA MountablePath ==
    ASSUME BuilderAssumptions, NEW e \in Entries, ValidPath(e)
    PROVE  e.path \in Seq(Names) /\ 1 \in DOMAIN e.path /\ Len(e.path) \in DOMAIN e.path
BY DEF BuilderAssumptions, EntryAssumption, ParsedEntry, ValidPath

\* The fields of an entry.
LEMMA EntryFields ==
    ASSUME BuilderAssumptions, NEW e \in Entries
    PROVE  /\ e.kind \in NodeKind /\ e.observation \in Observation /\ e.meta \in Metadata
           /\ e.observation # NONE
BY DEF BuilderAssumptions, ValueAssumption, EntryAssumption, ParsedEntry

\* merge() keeps the identity of a node.
LEMMA MergeKeeps ==
    ASSUME BuilderAssumptions, NEW node \in MutableNode, NEW e \in Entries
    PROVE  /\ Merge(node, e) \in MutableNode
           /\ Merge(node, e).parent = node.parent /\ Merge(node, e).name = node.name
           /\ Merge(node, e).path = node.path /\ Merge(node, e).kind = node.kind
BY EntryFields DEF Merge, Apply, MutableNode, Optional

-----------------------------------------------------------------------------
(* The tree.                                                               *)

\* Adding a node under the directory that the walk has reached.
LEMMA InsertKeepsTree ==
    ASSUME BuilderAssumptions, TreeInv, call # Idle, ~Exists,
           NEW node \in MutableNode, Insert(node),
           node.parent = call.parent, node.name = Component,
           node.path = SubSeq(call.entry.path, 1, call.index)
    PROVE  /\ TreeTypes' /\ RootedTree'
           /\ next_id \in DOMAIN nodes' /\ nodes'[next_id] = node
           /\ DOMAIN children'[next_id] = {}
           /\ \A id \in DOMAIN nodes : id \in DOMAIN nodes' /\ nodes'[id] = nodes[id]
<1>1. /\ call.entry \in Entries /\ ValidPath(call.entry) /\ call.index \in DOMAIN call.entry.path
      /\ call.parent \in DOMAIN nodes /\ nodes[call.parent].kind = Directory
      /\ nodes[call.parent].path = SubSeq(call.entry.path, 1, call.index - 1)
  BY DEF TreeInv, TypeOK, WalkInv
<1>2. /\ Component \in Names
      /\ node.path = Append(nodes[call.parent].path, Component)
  BY <1>1, MountablePath, PathGrows DEF Component, ValidPath
<1>3. /\ next_id \in Nat /\ next_id >= 2 /\ next_id \notin DOMAIN nodes
      /\ DOMAIN children = DOMAIN nodes
      /\ DOMAIN nodes \subseteq 1 .. next_id - 1
  BY DEF TreeInv, TypeOK
<1>4. /\ next_id' = next_id + 1
      /\ DOMAIN nodes' = DOMAIN nodes \cup {next_id}
      /\ DOMAIN children' = DOMAIN nodes'
      /\ nodes'[next_id] = node /\ children'[next_id] = << >>
      /\ \A id \in DOMAIN nodes : nodes'[id] = nodes[id]
      /\ \A id \in DOMAIN nodes \ {call.parent} : children'[id] = children[id]
      /\ DOMAIN children'[call.parent] = DOMAIN children[call.parent] \cup {Component}
      /\ children'[call.parent][Component] = next_id
      /\ \A n \in DOMAIN children[call.parent] :
           n # Component /\ children'[call.parent][n] = children[call.parent][n]
  BY <1>1, <1>3 DEF Insert, Exists
<1>5. DOMAIN children'[next_id] = {}
  BY <1>4
<1>6. TreeTypes'
  <2>1. ASSUME NEW id \in DOMAIN nodes'
        PROVE  /\ nodes'[id] \in MutableNode
               /\ DOMAIN children'[id] \subseteq Names
               /\ \A n \in DOMAIN children'[id] : children'[id][n] \in DOMAIN nodes'
    <3>1. CASE id = next_id
      BY <1>4, <1>5, <3>1
    <3>2. CASE id = call.parent
      <4>1. /\ nodes[id] \in MutableNode /\ DOMAIN children[id] \subseteq Names
            /\ \A n \in DOMAIN children[id] : children[id][n] \in DOMAIN nodes
        BY <1>1, <3>2 DEF TreeInv, TypeOK
      <4>2. \A n \in DOMAIN children'[id] : n = Component \/ n \in DOMAIN children[id]
        BY <1>4, <3>2
      <4> QED
        BY <1>1, <1>2, <1>4, <3>2, <4>1, <4>2
    <3>3. CASE id \in DOMAIN nodes \ {call.parent}
      <4>1. /\ nodes[id] \in MutableNode /\ DOMAIN children[id] \subseteq Names
            /\ \A n \in DOMAIN children[id] : children[id][n] \in DOMAIN nodes
        BY <3>3 DEF TreeInv, TypeOK
      <4> QED
        BY <1>4, <3>3, <4>1
    <3> QED
      BY <1>4, <3>1, <3>2, <3>3
  <2> QED
    BY <1>3, <1>4, <2>1 DEF TreeTypes
<1>7. RootedTree'
  <2>1. Root \in DOMAIN nodes' /\ nodes'[Root] = RootNode
    BY <1>4 DEF TreeInv, RootedTree
  <2>2. ASSUME NEW id \in DOMAIN nodes' \ {Root}
        PROVE  LET n == nodes'[id]
               IN  /\ n.parent \in DOMAIN nodes' /\ n.parent < id
                   /\ nodes'[n.parent].kind = Directory
                   /\ n.name \in DOMAIN children'[n.parent]
                   /\ children'[n.parent][n.name] = id
                   /\ n.path = Append(nodes'[n.parent].path, n.name)
    <3>1. CASE id = next_id
      <4>1. nodes'[id] = node /\ nodes'[call.parent] = nodes[call.parent] /\ call.parent < id
        BY <1>1, <1>3, <1>4, <3>1
      <4> QED
        BY <1>1, <1>2, <1>4, <3>1, <4>1, ZenonT(30)
    <3>2. CASE id # next_id
      <4> DEFINE old == nodes[id]
      <4>1. id \in DOMAIN nodes \ {Root} /\ nodes'[id] = old
        BY <1>4, <3>2
      <4>2. /\ old.parent \in DOMAIN nodes /\ old.parent < id
            /\ nodes[old.parent].kind = Directory
            /\ old.name \in DOMAIN children[old.parent]
            /\ children[old.parent][old.name] = id
            /\ old.path = Append(nodes[old.parent].path, old.name)
        BY <4>1 DEF TreeInv, RootedTree
      <4>3. /\ old.name \in DOMAIN children'[old.parent]
            /\ children'[old.parent][old.name] = id
        <5>1. CASE old.parent = call.parent
          BY <1>4, <4>2, <5>1
        <5>2. CASE old.parent # call.parent
          BY <1>4, <4>2, <5>2
        <5> QED
          BY <5>1, <5>2
      <4> QED
        BY <1>4, <4>1, <4>2, <4>3
    <3> QED
      BY <3>1, <3>2
  <2>3. ASSUME NEW id \in DOMAIN nodes', NEW n \in DOMAIN children'[id]
        PROVE  LET child == children'[id][n]
               IN  child # Root /\ nodes'[child].parent = id /\ nodes'[child].name = n
    <3>1. CASE id = call.parent /\ n = Component
      BY <1>3, <1>4, <3>1 DEF Root
    <3>2. CASE ~(id = call.parent /\ n = Component)
      <4>1. id \in DOMAIN nodes /\ n \in DOMAIN children[id] /\ children'[id][n] = children[id][n]
        BY <1>4, <1>5, <3>2
      <4>2. /\ children[id][n] \in DOMAIN nodes /\ children[id][n] # Root
            /\ nodes[children[id][n]].parent = id /\ nodes[children[id][n]].name = n
        BY <4>1 DEF TreeInv, TypeOK, RootedTree
      <4> QED
        BY <1>4, <4>1, <4>2
    <3> QED
      BY <3>1, <3>2
  <2> QED
    BY <2>1, <2>2, <2>3 DEF RootedTree
<1> QED
  BY <1>4, <1>5, <1>6, <1>7

\* Merging an entry into the node it names.
LEMMA MergeKeepsTree ==
    ASSUME BuilderAssumptions, TreeInv, call # Idle, Exists,
           nodes' = [nodes EXCEPT ![Existing] = Merge(@, call.entry)],
           UNCHANGED <<children, next_id>>
    PROVE  /\ TreeTypes' /\ RootedTree'
           /\ DOMAIN nodes' = DOMAIN nodes
           /\ \A id \in DOMAIN nodes :
                /\ nodes'[id].kind = nodes[id].kind /\ nodes'[id].path = nodes[id].path
                /\ id # Existing => nodes'[id] = nodes[id]
<1>1. /\ call.entry \in Entries /\ call.parent \in DOMAIN nodes
      /\ Existing \in DOMAIN nodes \ {Root}
  BY DEF TreeInv, TypeOK, RootedTree, Exists, Existing
<1>2. DOMAIN nodes' = DOMAIN nodes
  OBVIOUS
<1>3. \A id \in DOMAIN nodes :
        /\ nodes'[id] \in MutableNode
        /\ nodes'[id].parent = nodes[id].parent /\ nodes'[id].name = nodes[id].name
        /\ nodes'[id].kind = nodes[id].kind /\ nodes'[id].path = nodes[id].path
        /\ id # Existing => nodes'[id] = nodes[id]
  <2> TAKE id \in DOMAIN nodes
  <2>1. nodes[id] \in MutableNode
    BY DEF TreeInv, TypeOK
  <2>2. CASE id = Existing
    BY <1>1, <2>1, <2>2, MergeKeeps
  <2>3. CASE id # Existing
    BY <2>1, <2>3
  <2> QED
    BY <2>2, <2>3
<1>4. TreeTypes'
  BY <1>2, <1>3 DEF TreeInv, TypeOK, TreeTypes
<1>5. RootedTree'
  <2>1. Root \in DOMAIN nodes' /\ nodes'[Root] = RootNode
    BY <1>1, <1>2, <1>3 DEF TreeInv, RootedTree
  <2>2. ASSUME NEW id \in DOMAIN nodes' \ {Root}
        PROVE  LET n == nodes'[id]
               IN  /\ n.parent \in DOMAIN nodes' /\ n.parent < id
                   /\ nodes'[n.parent].kind = Directory
                   /\ n.name \in DOMAIN children'[n.parent]
                   /\ children'[n.parent][n.name] = id
                   /\ n.path = Append(nodes'[n.parent].path, n.name)
    <3> DEFINE old == nodes[id]
    <3>1. /\ old.parent \in DOMAIN nodes /\ old.parent < id
          /\ nodes[old.parent].kind = Directory
          /\ old.name \in DOMAIN children[old.parent]
          /\ children[old.parent][old.name] = id
          /\ old.path = Append(nodes[old.parent].path, old.name)
      BY <1>2, <2>2 DEF TreeInv, RootedTree
    <3>2. /\ nodes'[id].parent = old.parent /\ nodes'[id].name = old.name
          /\ nodes'[id].path = old.path
      BY <1>2, <1>3, <2>2
    <3> HIDE DEF old
    <3> QED
      BY <1>2, <1>3, <3>1, <3>2, ZenonT(30)
  <2>3. ASSUME NEW id \in DOMAIN nodes', NEW n \in DOMAIN children'[id]
        PROVE  LET child == children'[id][n]
               IN  child # Root /\ nodes'[child].parent = id /\ nodes'[child].name = n
    <3>1. id \in DOMAIN nodes /\ n \in DOMAIN children[id] /\ children[id][n] \in DOMAIN nodes
      BY <1>2, <2>3 DEF TreeInv, TypeOK
    <3> QED
      BY <1>3, <3>1 DEF TreeInv, RootedTree
  <2> QED
    BY <2>1, <2>2, <2>3 DEF RootedTree
<1> QED
  BY <1>2, <1>3, <1>4, <1>5

LEMMA UnchangedTree ==
    ASSUME TreeInv, UNCHANGED tree
    PROVE  TreeTypes' /\ RootedTree'
BY DEF TreeInv, TypeOK, RootedTree, TreeTypes, tree

\* The invariant of the loop, one iteration on.
LEMMA DescendKeepsWalk ==
    ASSUME BuilderAssumptions, TreeInv, call # Idle, NEW id, Descend(id),
           id \in Nat, id \in DOMAIN nodes', nodes'[id].kind = Kind,
           nodes'[id].path = SubSeq(call.entry.path, 1, call.index),
           UNCHANGED finished
    PROVE  /\ WalkInv' /\ added' \subseteq Entries /\ outcome' \in Outcome
           /\ call' # Idle => /\ call'.entry \in Entries /\ ValidPath(call'.entry)
                              /\ call'.index \in DOMAIN call'.entry.path
                              /\ call'.parent \in DOMAIN nodes'
<1>1. /\ call.entry \in Entries /\ ValidPath(call.entry)
      /\ call.index \in DOMAIN call.entry.path
      /\ call \in [entry : Entries, index : Nat, parent : Nat]
      /\ ~finished
  BY DEF TreeInv, TypeOK, WalkInv
<1>2. CASE Final
  BY <1>1, <1>2 DEF Descend, WalkInv, Outcome, TreeInv, TypeOK
<1>3. CASE ~Final
  <2>1. /\ call' = [call EXCEPT !.index = @ + 1, !.parent = id]
        /\ UNCHANGED <<outcome, added>>
    BY <1>3 DEF Descend
  <2>2. call.index + 1 \in DOMAIN call.entry.path
    BY <1>1, <1>3, MountablePath DEF Final
  <2>3. /\ call'.entry = call.entry /\ call'.index = call.index + 1 /\ call'.parent = id
        /\ (call.index + 1) - 1 = call.index
    BY <1>1, <2>1
  <2>4. call' \in [entry : Entries, index : Nat, parent : Nat]
    <3>1. call' = [entry |-> call.entry, index |-> call.index + 1, parent |-> id]
      BY <1>1, <2>1
    <3> QED
      BY <1>1, <3>1
  <2> QED
    BY <1>1, <1>3, <2>1, <2>2, <2>3, <2>4 DEF WalkInv, TreeInv, TypeOK, Kind
<1> QED
  BY <1>2, <1>3

\* What a new node is like and where it goes.
LEMMA NewNodeTyped ==
    ASSUME BuilderAssumptions, TreeInv, call # Idle,
           NEW node, node = NewNode \/ node = Merge(NewNode, call.entry)
    PROVE  /\ node \in MutableNode /\ node.kind = Kind
           /\ node.parent = call.parent /\ node.name = Component
           /\ node.path = SubSeq(call.entry.path, 1, call.index)
           /\ next_id \in Nat
<1>1. /\ call.entry \in Entries /\ ValidPath(call.entry)
      /\ call.index \in DOMAIN call.entry.path
      /\ call.parent \in Nat /\ next_id \in Nat
  BY DEF TreeInv, TypeOK, WalkInv
<1>2. /\ Component \in Names /\ Kind \in NodeKind
      /\ SubSeq(call.entry.path, 1, call.index) \in Seq(Names)
  BY <1>1, MountablePath, PathGrows, EntryFields DEF Component, ValidPath, Kind, NodeKind
<1>3. /\ NewNode \in MutableNode /\ NewNode.kind = Kind
      /\ NewNode.parent = call.parent /\ NewNode.name = Component
      /\ NewNode.path = SubSeq(call.entry.path, 1, call.index)
  BY <1>1, <1>2 DEF NewNode, MutableNode, Optional, NoMetadata, Metadata
<1> QED
  BY <1>1, <1>3, MergeKeeps

\* The node the walk goes on with has the path walked so far.
LEMMA ExistingPath ==
    ASSUME BuilderAssumptions, TreeInv, call # Idle, Exists
    PROVE  /\ Existing \in DOMAIN nodes \ {Root} /\ Existing \in Nat
           /\ nodes[Existing].path = SubSeq(call.entry.path, 1, call.index)
<1>1. /\ call.entry \in Entries /\ ValidPath(call.entry)
      /\ call.index \in DOMAIN call.entry.path
      /\ call.parent \in DOMAIN nodes
      /\ nodes[call.parent].path = SubSeq(call.entry.path, 1, call.index - 1)
  BY DEF TreeInv, TypeOK, WalkInv
<1>2. /\ Existing \in DOMAIN nodes \ {Root} /\ Existing \in Nat
      /\ nodes[Existing].parent = call.parent /\ nodes[Existing].name = Component
  BY <1>1 DEF TreeInv, TypeOK, RootedTree, Exists, Existing
<1>3. nodes[Existing].path = Append(nodes[call.parent].path, Component)
  BY <1>2 DEF TreeInv, RootedTree
<1>4. SubSeq(call.entry.path, 1, call.index)
        = Append(SubSeq(call.entry.path, 1, call.index - 1), call.entry.path[call.index])
  BY <1>1, MountablePath, PathGrows
<1> QED
  BY <1>1, <1>2, <1>3, <1>4 DEF Component

-----------------------------------------------------------------------------
(* One step of the builder.                                                *)

LEMMA WalkKeepsTree ==
    ASSUME BuilderAssumptions, TreeInv, Walk
    PROVE  TreeInv'
<1>1. CASE WalkNew
  <2> DEFINE node == IF Final THEN Merge(NewNode, call.entry) ELSE NewNode
  <2>1. /\ call # Idle /\ ~Exists /\ Insert(node) /\ Descend(next_id)
        /\ UNCHANGED <<finished, store, before>>
    BY <1>1 DEF WalkNew
  <2>2. /\ node \in MutableNode /\ node.kind = Kind
        /\ node.parent = call.parent /\ node.name = Component
        /\ node.path = SubSeq(call.entry.path, 1, call.index)
        /\ next_id \in Nat
    BY <2>1, NewNodeTyped
  <2> HIDE DEF node
  <2>3. TreeTypes' /\ RootedTree' /\ next_id \in DOMAIN nodes' /\ nodes'[next_id] = node
    BY <2>1, <2>2, InsertKeepsTree
  <2>4. /\ WalkInv' /\ added' \subseteq Entries /\ outcome' \in Outcome
        /\ call' # Idle => /\ call'.entry \in Entries /\ ValidPath(call'.entry)
                           /\ call'.index \in DOMAIN call'.entry.path
                           /\ call'.parent \in DOMAIN nodes'
    BY <2>1, <2>2, <2>3, DescendKeepsWalk
  <2> QED
    BY <2>1, <2>3, <2>4 DEF TreeInv, TypeOK, TreeTypes, ValidPath
<1>2. CASE WalkExisting
  <2>1. /\ call # Idle /\ Exists /\ nodes[Existing].kind = Kind /\ Descend(Existing)
        /\ UNCHANGED <<children, next_id, finished, store, before>>
        /\ \/ nodes' = [nodes EXCEPT ![Existing] = Merge(@, call.entry)]
           \/ UNCHANGED tree
    BY <1>2 DEF WalkExisting, tree
  <2>2. /\ TreeTypes' /\ RootedTree' /\ DOMAIN nodes' = DOMAIN nodes
        /\ nodes'[Existing].kind = nodes[Existing].kind
        /\ nodes'[Existing].path = nodes[Existing].path
    <3>1. CASE nodes' = [nodes EXCEPT ![Existing] = Merge(@, call.entry)]
      BY <2>1, <3>1, MergeKeepsTree, ExistingPath
    <3>2. CASE UNCHANGED tree
      BY <3>2, UnchangedTree DEF tree
    <3> QED
      BY <2>1, <3>1, <3>2
  <2>3. /\ WalkInv' /\ added' \subseteq Entries /\ outcome' \in Outcome
        /\ call' # Idle => /\ call'.entry \in Entries /\ ValidPath(call'.entry)
                           /\ call'.index \in DOMAIN call'.entry.path
                           /\ call'.parent \in DOMAIN nodes'
    BY <2>1, <2>2, ExistingPath, DescendKeepsWalk
  <2> QED
    BY <2>1, <2>2, <2>3 DEF TreeInv, TypeOK, TreeTypes, ValidPath
<1>3. CASE WalkConflict
  <2>1. TreeTypes' /\ RootedTree'
    BY <1>3, UnchangedTree DEF WalkConflict, tree
  <2> QED
    BY <1>3, <2>1 DEF WalkConflict, TreeInv, TypeOK, TreeTypes, WalkInv, Outcome
<1>4. CASE WriteFails
  <2>1. TreeTypes' /\ RootedTree'
    <3>1. CASE UNCHANGED tree
      BY <3>1, UnchangedTree
    <3>2. CASE next_id' = next_id + 1 /\ UNCHANGED <<nodes, children>>
      BY <3>2 DEF TreeInv, TypeOK, RootedTree, TreeTypes
    <3>3. CASE ~Exists /\ Insert(NewNode)
      BY <1>4, <3>3, NewNodeTyped, InsertKeepsTree DEF WriteFails
    <3> QED
      BY <1>4, <3>1, <3>2, <3>3 DEF WriteFails
  <2> QED
    BY <1>4, <2>1 DEF WriteFails, TreeInv, TypeOK, TreeTypes, WalkInv, Outcome
<1> QED
  BY <1>1, <1>2, <1>3, <1>4 DEF Walk

LEMMA StepKeepsTree ==
    ASSUME BuilderAssumptions, TreeInv, [Next]_vars
    PROVE  TreeInv'
<1>1. CASE Walk
  BY <1>1, WalkKeepsTree
<1>2. CASE \E e \in Entries : Add(e)
  <2> PICK e \in Entries : Add(e)
    BY <1>2
  <2>1. TreeTypes' /\ RootedTree'
    BY UnchangedTree DEF Add, tree
  <2>2. /\ call' = [entry |-> e, index |-> 1, parent |-> Root] /\ ValidPath(e) /\ ~finished
        /\ UNCHANGED <<nodes, finished, outcome, added>>
    BY DEF Add
  <2>3. /\ nodes[Root] = RootNode /\ Root \in DOMAIN nodes
        /\ 1 \in DOMAIN e.path /\ SubSeq(e.path, 1, 1 - 1) = << >>
    BY <2>2, MountablePath, PathGrows DEF TreeInv, RootedTree
  <2>4. WalkInv'
    <3>1. /\ call'.entry = e /\ call'.index = 1 /\ call'.parent = Root
          /\ call' \in [entry : Entries, index : Nat, parent : Nat]
      BY <2>2 DEF Root
    <3>2. nodes'[Root].kind = Directory /\ nodes'[Root].path = << >>
      BY <2>2, <2>3 DEF RootNode
    <3> QED
      BY <2>2, <2>3, <3>1, <3>2 DEF WalkInv
  <2> QED
    BY <2>1, <2>2, <2>3, <2>4 DEF TreeInv, TypeOK, TreeTypes, ValidPath
<1>3. CASE (\E e \in Entries : AddInvalid(e)) \/ UseAfterFinish \/ Finish \/ Abort \/ UNCHANGED vars
  <2>1. UNCHANGED tree /\ UNCHANGED <<call, added>> /\ outcome' \in Outcome
        /\ finished' \in BOOLEAN /\ (call = Idle \/ UNCHANGED finished)
    BY <1>3 DEF AddInvalid, UseAfterFinish, Finish, Abort, MayAdd, vars, tree, Outcome, TreeInv, TypeOK
  <2>2. TreeTypes' /\ RootedTree'
    BY <2>1, UnchangedTree
  <2> QED
    BY <2>1, <2>2 DEF TreeInv, TypeOK, TreeTypes, WalkInv, tree, ValidPath
<1> QED
  BY <1>1, <1>2, <1>3 DEF Next

\* Every builder starts with a tree.
LEMMA InitialTree ==
    ASSUME Init
    PROVE  TreeInv
<1>1. /\ DOMAIN nodes = {Root} /\ nodes[Root] = RootNode
      /\ DOMAIN children = {Root} /\ DOMAIN children[Root] = {} /\ next_id = 2
  BY DEF Init
<1>2. RootNode \in MutableNode
  BY DEF RootNode, MutableNode, Optional, NodeKind, NoMetadata, Metadata
<1>3. TypeOK
  <2>1. /\ next_id \in Nat /\ next_id >= 2
        /\ DOMAIN nodes \subseteq 1 .. next_id - 1 /\ DOMAIN children = DOMAIN nodes
    BY <1>1 DEF Root
  <2>2. \A id \in DOMAIN nodes :
             /\ nodes[id] \in MutableNode
             /\ DOMAIN children[id] \subseteq Names
             /\ \A n \in DOMAIN children[id] : children[id][n] \in DOMAIN nodes
    BY <1>1, <1>2
  <2>3. finished \in BOOLEAN /\ outcome \in Outcome /\ added \subseteq Entries /\ call = Idle
    BY DEF Init, Outcome
  <2> QED
    BY <2>1, <2>2, <2>3 DEF TypeOK
<1>4. RootedTree
  BY <1>1 DEF RootedTree
<1>5. WalkInv
  BY DEF Init, WalkInv
<1> QED
  BY <1>3, <1>4, <1>5 DEF TreeInv

-----------------------------------------------------------------------------
(* Refusals, acceptance and the end.                                       *)

LEMMA StepKeepsFresh ==
    ASSUME BuilderAssumptions, TreeInv, FreshInv, AtomicAdd, [Next]_vars
    PROVE  FreshInv' /\ AtomicAdd'
<1>1. CASE WalkNew
  <2> DEFINE node == IF Final THEN Merge(NewNode, call.entry) ELSE NewNode
  <2>1. call # Idle /\ ~Exists /\ Insert(node) /\ Descend(next_id)
    BY <1>1 DEF WalkNew
  <2>2. DOMAIN children'[next_id] = {}
    BY <2>1, NewNodeTyped, InsertKeepsTree
  <2>3. CASE Final
    BY <2>1, <2>3 DEF Descend, FreshInv, AtomicAdd
  <2>4. CASE ~Final
    <3>1. call \in [entry : Entries, index : Nat, parent : Nat] /\ call.index \in DOMAIN call.entry.path
          /\ call.entry \in Entries /\ ValidPath(call.entry)
      BY <2>1 DEF TreeInv, TypeOK, WalkInv
    <3>2. call' = [entry |-> call.entry, index |-> call.index + 1, parent |-> next_id]
      BY <2>1, <2>4, <3>1 DEF Descend
    <3>3. call' # Idle /\ call'.parent = next_id
      BY <3>1, <3>2 DEF Idle
    <3> QED
      BY <2>2, <3>3 DEF FreshInv, AtomicAdd
  <2> QED
    BY <2>3, <2>4
<1>2. CASE WalkExisting
  <2>1. call # Idle /\ Exists /\ Descend(Existing) /\ (Final \/ UNCHANGED tree) /\ UNCHANGED before
    BY <1>2 DEF WalkExisting, tree
  <2>2. tree = before
    BY <2>1 DEF FreshInv, Exists
  <2> QED
    BY <2>1, <2>2 DEF Descend, FreshInv, AtomicAdd, tree
<1>3. CASE WalkConflict
  <2>1. tree = before /\ call' = Idle /\ UNCHANGED <<tree, before>>
    BY <1>3 DEF WalkConflict, FreshInv, Exists, tree
  <2> QED
    BY <2>1 DEF FreshInv, AtomicAdd, tree
<1>4. CASE WriteFails \/ UseAfterFinish \/ Finish \/ Abort
  BY <1>4 DEF WriteFails, UseAfterFinish, Finish, Abort, MayAdd, FreshInv, AtomicAdd
<1>5. CASE \E e \in Entries : Add(e) \/ AddInvalid(e)
  BY <1>5 DEF Add, AddInvalid, MayAdd, FreshInv, AtomicAdd, tree
<1>6. CASE UNCHANGED vars
  BY <1>6 DEF vars, FreshInv, AtomicAdd, tree
<1> QED
  BY <1>1, <1>2, <1>3, <1>4, <1>5, <1>6 DEF Next, Walk

\* merge() keeps what the entries before have told about a node, and the node
\* afterwards tells what this one does.
LEMMA MergeHolds ==
    ASSUME BuilderAssumptions, NEW node \in MutableNode, NEW e \in Entries,
           node.path = e.path, node.kind = e.kind,
           node.observation = NONE \/ Compatible(node, e)
    PROVE  /\ Holds(Merge(node, e), e)
           /\ \A f \in Entries : Holds(node, f) => Holds(Merge(node, e), f)
<1>1. /\ e.observation \in Observation \ {NONE}
      /\ node \in [parent : Optional(Nat), name : Optional(Names), path : Seq(Names),
                   kind : NodeKind, observation : Optional(Observation), meta : Metadata]
      /\ SectionHeader # NONE
  BY EntryFields DEF MutableNode, BuilderAssumptions, ValueAssumption, Observation
<1>2. /\ Apply(node, e).path = node.path /\ Apply(node, e).kind = node.kind
      /\ Apply(node, e).observation = e.observation /\ Apply(node, e).meta = e.meta
  BY <1>1 DEF Apply
<1>3. e.kind # File \/ e.observation # SectionHeader
  BY DEF BuilderAssumptions, EntryAssumption, ParsedEntry, Directory, File, SectionHeader, FileEntry
<1>4. Holds(Merge(node, e), e)
  BY <1>1, <1>2, <1>3 DEF Merge, Compatible, Holds
<1>5. ASSUME NEW f \in Entries, Holds(node, f)
      PROVE  Holds(Merge(node, e), f)
  BY <1>1, <1>2, <1>3, <1>5 DEF Merge, Compatible, Holds
<1> QED
  BY <1>4, <1>5

LEMMA StepKeepsPresent ==
    ASSUME BuilderAssumptions, TreeInv, PresentInv, [Next]_vars
    PROVE  PresentInv'
<1>1. CASE WalkNew
  <2> DEFINE node == IF Final THEN Merge(NewNode, call.entry) ELSE NewNode
  <2>1. call # Idle /\ ~Exists /\ Insert(node) /\ Descend(next_id)
    BY <1>1 DEF WalkNew
  <2>2. NewNode \in MutableNode /\ node \in MutableNode /\ node.parent = call.parent
        /\ node.name = Component /\ node.path = SubSeq(call.entry.path, 1, call.index)
        /\ NewNode.path = SubSeq(call.entry.path, 1, call.index) /\ NewNode.kind = Kind
        /\ NewNode.observation = NONE
    BY <2>1, NewNodeTyped DEF NewNode
  <2>3. next_id \in DOMAIN nodes' /\ nodes'[next_id] = node
        /\ \A id \in DOMAIN nodes : id \in DOMAIN nodes' /\ nodes'[id] = nodes[id]
    BY <2>1, <2>2, InsertKeepsTree
  <2>4. \A e \in added : \E id \in DOMAIN nodes' : Holds(nodes'[id], e)
    BY <2>3 DEF PresentInv
  <2>5. CASE Final
    <3>1. call.entry \in Entries /\ NewNode.path = call.entry.path /\ NewNode.kind = call.entry.kind
      BY <2>1, <2>2, <2>5, MountablePath, PathGrows DEF Final, Kind, TreeInv, TypeOK
    <3>2. Holds(node, call.entry)
      BY <2>2, <2>5, <3>1, MergeHolds
    <3>3. added' = added \cup {call.entry}
      BY <2>1, <2>5 DEF Descend
    <3> QED
      BY <2>3, <2>4, <3>2, <3>3 DEF PresentInv, Holds
  <2>6. CASE ~Final
    BY <2>1, <2>4, <2>6 DEF Descend, PresentInv, Holds
  <2> QED
    BY <2>5, <2>6
<1>2. CASE WalkExisting /\ Final
  <2>1. /\ call # Idle /\ Exists /\ nodes[Existing].kind = call.entry.kind
        /\ Compatible(nodes[Existing], call.entry)
        /\ nodes' = [nodes EXCEPT ![Existing] = Merge(@, call.entry)]
        /\ added' = added \cup {call.entry}
        /\ UNCHANGED <<children, next_id>>
    BY <1>2 DEF WalkExisting, Descend, Kind
  <2>2. /\ Existing \in DOMAIN nodes /\ nodes[Existing].path = call.entry.path
        /\ call.entry \in Entries /\ nodes[Existing] \in MutableNode /\ added \subseteq Entries
    BY <1>2, <2>1, ExistingPath, MountablePath, PathGrows DEF Final, TreeInv, TypeOK
  <2>3. /\ Holds(Merge(nodes[Existing], call.entry), call.entry)
        /\ \A f \in added : Holds(nodes[Existing], f) => Holds(Merge(nodes[Existing], call.entry), f)
    BY <2>1, <2>2, MergeHolds
  <2>4. /\ DOMAIN nodes' = DOMAIN nodes
        /\ nodes'[Existing] = Merge(nodes[Existing], call.entry)
        /\ \A id \in DOMAIN nodes : id # Existing => nodes'[id] = nodes[id]
    BY <2>1, <2>2
  <2>5. \A e \in added' : \E id \in DOMAIN nodes' : Holds(nodes'[id], e)
    BY <2>1, <2>2, <2>3, <2>4 DEF PresentInv
  <2> QED
    BY <2>5 DEF PresentInv, Holds
<1>3. CASE WriteFails
  <2>1. \A id \in DOMAIN nodes : id \in DOMAIN nodes' /\ nodes'[id] = nodes[id]
    <3>1. CASE ~Exists /\ Insert(NewNode)
      BY <1>3, <3>1, NewNodeTyped, InsertKeepsTree DEF WriteFails
    <3>2. CASE UNCHANGED nodes
      BY <3>2
    <3> QED
      BY <1>3, <3>1, <3>2 DEF WriteFails, tree
  <2> QED
    BY <1>3, <2>1 DEF WriteFails, PresentInv, Holds
<1>4. CASE UNCHANGED <<nodes, added>>
  BY <1>4 DEF PresentInv, Holds
<1>5. \/ WalkNew \/ (WalkExisting /\ Final) \/ WriteFails \/ UNCHANGED <<nodes, added>>
  BY DEF Next, Walk, WalkExisting, WalkConflict, Descend, Add, AddInvalid, UseAfterFinish, Finish,
         Abort, vars
<1> QED
  BY <1>1, <1>2, <1>3, <1>4, <1>5

-----------------------------------------------------------------------------
(* What finish() publishes.                                                *)

\* What makes a node legal once it is published.  A file that nobody told of
\* exists only where a write failed, which leaves no way to finish().
Told(node) == \E e \in added : e.path = node.path /\ e.meta = node.meta

LegalInv == \A id \in DOMAIN nodes : LegalMetadata(nodes[id].kind, nodes[id].meta)

ToldInv ==
    /\ call # Idle => outcome # "persistence_error"
    /\ ~finished /\ outcome # "persistence_error" =>
         \A id \in DOMAIN nodes : nodes[id].kind = File => Told(nodes[id])

ValidInv == LegalInv /\ ToldInv /\ PublishedNodesValid

\* merge() keeps a node legal, and gives a file what the entry tells of it.
LEMMA MergeLegal ==
    ASSUME BuilderAssumptions, NEW node \in MutableNode, NEW e \in Entries,
           node.kind = e.kind, node.path = e.path,
           node.observation = NONE \/ Compatible(node, e),
           node.observation = NONE \/ LegalMetadata(node.kind, node.meta)
    PROVE  /\ LegalMetadata(Merge(node, e).kind, Merge(node, e).meta)
           /\ Merge(node, e).kind = File => Merge(node, e).meta = e.meta
           /\ Merge(node, e).path = e.path
<1>1. LegalMetadata(e.kind, e.meta)
  BY DEF BuilderAssumptions, EntryAssumption, ParsedEntry
<1>2. /\ Merge(node, e).kind = node.kind
      /\ Merge(node, e) = node \/ Merge(node, e).meta = e.meta
      /\ node.observation = NONE => Merge(node, e).meta = e.meta
  <2>1. Apply(node, e).meta = e.meta /\ Apply(node, e).kind = node.kind
    BY DEF Apply, MutableNode
  <2> QED
    BY <2>1 DEF Merge
<1>3. Holds(Merge(node, e), e)
  BY MergeHolds
<1> QED
  BY <1>1, <1>2, <1>3 DEF Holds

\* finish() makes legal nodes of legal ones.
LEMMA NodeLegal ==
    ASSUME BuilderAssumptions, NEW node \in MutableNode, LegalMetadata(node.kind, node.meta)
    PROVE  LET made == Node(node)
           IN  /\ made.kind = node.kind /\ made.path = node.path /\ made.size = node.meta.size
               /\ made.kind = Directory =>
                    made.size = NONE /\ made.content = NONE /\ made.status = "not_applicable"
               /\ made.kind = File =>
                    /\ made.status \in {"present", "missing"}
                    /\ made.status = "present" <=> made.content # NONE
                    /\ made.size = 0 => made.content = << >>
                    /\ made.content # NONE => made.size = Len(made.content)
<1>1. /\ node.kind \in NodeKind /\ node.meta.size \in Nat \cup {NONE}
      /\ node.meta.content \in Seq(Bytes) \cup {NONE} /\ NONE \notin Nat
  BY DEF MutableNode, Metadata, Optional, BuilderAssumptions, ValueAssumption
<1>2. Len(<< >>) = 0 /\ << >> # NONE
  <2>1. << >> \in Seq(Bytes)
    OBVIOUS
  <2>2. NONE \notin Seq(Bytes)
    BY DEF BuilderAssumptions, ValueAssumption
  <2> QED
    BY <2>1, <2>2
<1>3. \A s \in Seq(Bytes) : Len(s) = 0 => s = << >>
  OBVIOUS
<1>4. Directory # File
  BY DEF Directory, File
<1> USE DEF Node, ContentValues, LegalMetadata
<1>5. CASE node.kind = File
  <2>1. CASE node.meta.content = NONE
    BY <1>1, <1>2, <1>4, <1>5, <2>1
  <2>2. CASE node.meta.content # NONE
    BY <1>1, <1>3, <1>4, <1>5, <2>2
  <2> QED
    BY <2>1, <2>2
<1>6. CASE node.kind # File
  BY <1>1, <1>4, <1>6
<1> QED
  BY <1>5, <1>6

\* One step of the walk that creates or merges a node.
LEMMA WalkKeepsValid ==
    ASSUME BuilderAssumptions, TreeInv, ValidInv, WalkNew \/ (WalkExisting /\ Final)
    PROVE  LegalInv' /\ ToldInv'
<1>1. /\ call # Idle /\ call.entry \in Entries /\ ValidPath(call.entry)
      /\ Final => SubSeq(call.entry.path, 1, call.index) = call.entry.path
      /\ added \subseteq added'
      /\ Final => call.entry \in added'
  BY MountablePath, PathGrows DEF WalkNew, WalkExisting, Descend, Final, TreeInv, TypeOK
<1>2. /\ finished' = finished /\ ~finished
      /\ outcome' = IF Final THEN "added" ELSE outcome
  BY DEF WalkNew, WalkExisting, Descend, TreeInv, WalkInv
<1>3. CASE WalkNew
  <2> DEFINE node == IF Final THEN Merge(NewNode, call.entry) ELSE NewNode
  <2>1. call # Idle /\ ~Exists /\ Insert(node)
    BY <1>3 DEF WalkNew
  <2>2. /\ NewNode \in MutableNode /\ node \in MutableNode /\ node.parent = call.parent
        /\ node.name = Component /\ node.path = SubSeq(call.entry.path, 1, call.index)
        /\ node.kind = Kind /\ NewNode.path = node.path /\ NewNode.kind = Kind
        /\ NewNode.observation = NONE /\ NewNode.meta = NoMetadata
    BY <2>1, NewNodeTyped DEF NewNode
  <2>3. nodes'[next_id] = node /\ DOMAIN nodes' = DOMAIN nodes \cup {next_id}
        /\ \A id \in DOMAIN nodes : nodes'[id] = nodes[id]
    <3>1. next_id \notin DOMAIN nodes
      BY DEF TreeInv, TypeOK
    <3> QED
      BY <2>1, <3>1 DEF Insert
  <2>4. /\ LegalMetadata(node.kind, node.meta)
        /\ node.kind = File => \E e \in added' : e.path = node.path /\ e.meta = node.meta
    <3>1. CASE Final
      <4>1. /\ LegalMetadata(Merge(NewNode, call.entry).kind, Merge(NewNode, call.entry).meta)
            /\ Merge(NewNode, call.entry).kind = File =>
                 Merge(NewNode, call.entry).meta = call.entry.meta
            /\ Merge(NewNode, call.entry).path = call.entry.path
        BY <1>1, <2>2, <3>1, MergeLegal DEF Kind
      <4> QED
        BY <1>1, <3>1, <4>1
    <3>2. CASE ~Final
      BY <2>2, <3>2 DEF Kind, LegalMetadata, NoMetadata, Directory, File
    <3> QED
      BY <3>1, <3>2
  <2> HIDE DEF node
  <2>5. LegalInv'
    BY <2>3, <2>4 DEF ValidInv, LegalInv
  <2>6. ToldInv'
    <3>1. /\ outcome # "persistence_error" /\ outcome' # "persistence_error"
          /\ \A id \in DOMAIN nodes : nodes[id].kind = File => Told(nodes[id])
      BY <1>1, <1>2 DEF ValidInv, ToldInv
    <3>2. \A id \in DOMAIN nodes' : nodes'[id].kind = File =>
            \E e \in added' : e.path = nodes'[id].path /\ e.meta = nodes'[id].meta
      BY <1>1, <2>3, <2>4, <3>1 DEF Told
    <3> QED
      BY <3>1, <3>2 DEF ToldInv, Told
  <2> QED
    BY <2>5, <2>6
<1>4. CASE WalkExisting /\ Final
  <2>1. /\ Exists /\ nodes[Existing].kind = call.entry.kind
        /\ Compatible(nodes[Existing], call.entry)
        /\ nodes' = [nodes EXCEPT ![Existing] = Merge(@, call.entry)]
    BY <1>4 DEF WalkExisting, Kind
  <2>2. /\ Existing \in DOMAIN nodes /\ nodes[Existing].path = call.entry.path
        /\ nodes[Existing] \in MutableNode
        /\ LegalMetadata(nodes[Existing].kind, nodes[Existing].meta)
    BY <1>1, <1>4, <2>1, ExistingPath DEF TreeInv, TypeOK, ValidInv, LegalInv
  <2> DEFINE merged == Merge(nodes[Existing], call.entry)
  <2>3. /\ LegalMetadata(merged.kind, merged.meta)
        /\ merged.kind = File => merged.meta = call.entry.meta
        /\ merged.path = call.entry.path
    BY <1>1, <2>1, <2>2, MergeLegal
  <2>4. /\ DOMAIN nodes' = DOMAIN nodes /\ nodes'[Existing] = merged
        /\ \A id \in DOMAIN nodes : id # Existing => nodes'[id] = nodes[id]
    BY <2>1, <2>2
  <2> HIDE DEF merged
  <2>5. LegalInv'
    BY <2>3, <2>4 DEF ValidInv, LegalInv
  <2>6. ToldInv'
    <3>1. /\ outcome' # "persistence_error"
          /\ \A id \in DOMAIN nodes : nodes[id].kind = File => Told(nodes[id])
      BY <1>1, <1>2 DEF ValidInv, ToldInv
    <3>2. \A id \in DOMAIN nodes' : nodes'[id].kind = File =>
            \E e \in added' : e.path = nodes'[id].path /\ e.meta = nodes'[id].meta
      BY <1>1, <1>4, <2>3, <2>4, <3>1 DEF Told
    <3> QED
      BY <3>1, <3>2 DEF ToldInv, Told
  <2> QED
    BY <2>5, <2>6
<1> QED
  BY <1>3, <1>4

\* A published store stays legal while entries are only added.
LEMMA StoreStaysValid ==
    ASSUME PublishedNodesValid, store' = store, added \subseteq added'
    PROVE  PublishedNodesValid'
BY DEF PublishedNodesValid

LEMMA StepKeepsValid ==
    ASSUME BuilderAssumptions, TreeInv, ValidInv, [Next]_vars
    PROVE  ValidInv'
<1>1. Finish \/ (store' = store /\ added \subseteq added')
  BY DEF Next, Walk, WalkNew, WalkExisting, WalkConflict, WriteFails, Descend, Add, AddInvalid,
         UseAfterFinish, Abort, vars
<1>2. CASE WalkNew \/ (WalkExisting /\ Final)
  <2>1. store' = store /\ added \subseteq added'
    BY <1>2 DEF WalkNew, WalkExisting, Descend
  <2> QED
    BY <1>2, <2>1, WalkKeepsValid, StoreStaysValid DEF ValidInv
<1>3. CASE WriteFails
  <2>1. LegalInv'
    <3>1. CASE ~Exists /\ Insert(NewNode)
      <4>1. NewNode.meta = NoMetadata
        BY DEF NewNode
      <4>2. LegalMetadata(NewNode.kind, NewNode.meta)
        BY <4>1 DEF LegalMetadata, NoMetadata
      <4>3. \A id \in DOMAIN nodes' : nodes'[id] = NewNode \/ (id \in DOMAIN nodes /\ nodes'[id] = nodes[id])
        BY <3>1 DEF Insert
      <4> QED
        BY <4>2, <4>3 DEF ValidInv, LegalInv
    <3>2. CASE UNCHANGED nodes
      BY <3>2 DEF ValidInv, LegalInv
    <3> QED
      BY <1>3, <3>1, <3>2 DEF WriteFails, tree
  <2>2. ToldInv'
    BY <1>3 DEF WriteFails, ToldInv
  <2>3. store' = store /\ added' = added
    BY <1>3 DEF WriteFails
  <2> QED
    BY <2>1, <2>2, <2>3, StoreStaysValid DEF ValidInv
<1>4. CASE Finish
  <2>1. LegalInv' /\ ToldInv'
    BY <1>4 DEF Finish, MayAdd, ValidInv, LegalInv, ToldInv
  <2>2. \A id \in DOMAIN nodes : /\ nodes[id] \in MutableNode
                                 /\ LegalMetadata(nodes[id].kind, nodes[id].meta)
                                 /\ nodes[id].kind = File => Told(nodes[id])
    BY <1>4 DEF Finish, MayAdd, TreeInv, TypeOK, ValidInv, LegalInv, ToldInv
  <2>3. DOMAIN store' = DOMAIN nodes /\ \A id \in DOMAIN nodes : store'[id] = Node(nodes[id])
    BY <1>4 DEF Finish
  <2>4. added' = added
    BY <1>4 DEF Finish
  <2>5. PublishedNodesValid'
    BY <2>2, <2>3, <2>4, NodeLegal DEF PublishedNodesValid, Told
  <2> QED
    BY <2>1, <2>5 DEF ValidInv
<1>5. CASE \/ WalkConflict \/ (WalkExisting /\ ~Final) \/ UseAfterFinish \/ Abort
          \/ UNCHANGED vars \/ \E e \in Entries : Add(e) \/ AddInvalid(e)
  <2>1. UNCHANGED <<nodes, added, store>> /\ LegalInv'
    BY <1>5 DEF WalkConflict, WalkExisting, Descend, UseAfterFinish, Abort, Add, AddInvalid, vars,
                ValidInv, LegalInv
  <2>2. ToldInv'
    BY <1>5, <2>1 DEF WalkConflict, WalkExisting, Descend, UseAfterFinish, Abort, Add, AddInvalid,
                      MayAdd, vars, ValidInv, ToldInv, Told
  <2> QED
    BY <2>1, <2>2, StoreStaysValid DEF ValidInv
<1> QED
  BY <1>2, <1>3, <1>4, <1>5 DEF Next, Walk

-----------------------------------------------------------------------------
(* The theorems.                                                           *)

LEMMA TreeInvariant == Spec => []TreeInv
<1>1. Init => TreeInv
  BY InitialTree
<1>2. TreeInv /\ [Next]_vars => TreeInv'
  BY BuilderAssumptions, StepKeepsTree
<1> QED
  BY <1>1, <1>2, PTL DEF Spec

\* The state of a builder is well typed whatever is added to it.
THEOREM BuilderTyped == Spec => []TypeOK
BY TreeInvariant, PTL DEF TreeInv

\* The nodes of a builder always form a tree hanging off the root.
THEOREM TreeWellFormed == Spec => []RootedTree
BY TreeInvariant, PTL DEF TreeInv

\* An add() that raises BuildError has changed nothing.
THEOREM RefusalsLeaveNoTrace == Spec => []AtomicAdd
<1>1. Init => FreshInv /\ AtomicAdd
  BY DEF Init, FreshInv, AtomicAdd
<1>2. TreeInv /\ FreshInv /\ AtomicAdd /\ [Next]_vars => FreshInv' /\ AtomicAdd'
  BY BuilderAssumptions, StepKeepsFresh
<1> QED
  BY <1>1, <1>2, TreeInvariant, PTL DEF Spec

\* Every accepted entry is in the tree with its kind and what it told.
THEOREM AcceptedArePresent == Spec => []AcceptedEntriesPresent
<1>1. Init => PresentInv
  BY DEF Init, PresentInv
<1>2. TreeInv /\ PresentInv /\ [Next]_vars => PresentInv'
  BY BuilderAssumptions, StepKeepsPresent
<1>3. PresentInv => AcceptedEntriesPresent
  BY DEF PresentInv, AcceptedEntriesPresent, Holds
<1> QED
  BY <1>1, <1>2, <1>3, TreeInvariant, PTL DEF Spec

\* Node accepts every node that finish() makes, and every file it makes is one that
\* an accepted entry told of.
THEOREM PublishedAreValid == Spec => []PublishedNodesValid
<1>1. Init => ValidInv
  BY DEF Init, ValidInv, LegalInv, ToldInv, PublishedNodesValid, LegalMetadata, RootNode,
         NoMetadata, Directory, File
<1>2. TreeInv /\ ValidInv /\ [Next]_vars => ValidInv'
  BY BuilderAssumptions, StepKeepsValid
<1>3. ValidInv => PublishedNodesValid
  BY DEF ValidInv
<1> QED
  BY <1>1, <1>2, <1>3, TreeInvariant, PTL DEF Spec

\* A finished or aborted builder and the store it published do not change.
THEOREM FinishedIsFrozen == Spec => FrozenOnceFinished
<1>1. TreeInv /\ [Next]_vars => [finished => UNCHANGED <<tree, store>>]_vars
  BY DEF TreeInv, WalkInv, Next, Walk, WalkNew, WalkExisting, WalkConflict, WriteFails, Add,
         AddInvalid, UseAfterFinish, Finish, Abort, tree, vars
<1> QED
  BY <1>1, TreeInvariant, PTL DEF Spec, FrozenOnceFinished

-----------------------------------------------------------------------------
(* Where the nodes come from.                                              *)

\* An observed node says what one of the entries of S says, any other node is an
\* ancestor of one.
Says(node, e) ==
    /\ node.path = e.path /\ node.kind = e.kind
    /\ node.observation = e.observation /\ node.meta = e.meta

Below(p, q) == Len(p) < Len(q) /\ p = SubSeq(q, 1, Len(p))

Caused(node, S) ==
    IF node.observation # NONE THEN \E e \in S : Says(node, e)
    ELSE node.kind = Directory /\ node.meta = NoMetadata /\ \E e \in S : Below(node.path, e.path)

CausedBy(table, S) == \A id \in DOMAIN table \ {Root} : Caused(table[id], S)

\* The nodes of the tree are caused by the accepted entries, in the middle of a walk
\* also by its entry.
CauseInv ==
    /\ call = Idle /\ ~finished /\ outcome # "persistence_error" => CausedBy(nodes, added)
    /\ call # Idle => CausedBy(before[1], added) /\ CausedBy(nodes, added \cup {call.entry})

LEMMA MoreCauses ==
    ASSUME NEW table, NEW S, CausedBy(table, S), NEW T, S \subseteq T
    PROVE  CausedBy(table, T)
BY DEF CausedBy, Caused

\* What the last step of a walk does to its node.
LEMMA MergeCaused ==
    ASSUME BuilderAssumptions, NEW node \in MutableNode, NEW e \in Entries,
           node.path = e.path, node.kind = e.kind,
           NEW S, e \in S, node.observation = NONE \/ Caused(node, S)
    PROVE  Caused(Merge(node, e), S)
<1>1. /\ e.observation # NONE
      /\ node \in [parent : Optional(Nat), name : Optional(Names), path : Seq(Names),
                   kind : NodeKind, observation : Optional(Observation), meta : Metadata]
  BY EntryFields DEF MutableNode
<1>2. Says(Apply(node, e), e) /\ Apply(node, e).observation # NONE
  BY <1>1 DEF Says, Apply
<1>3. CASE Merge(node, e) = Apply(node, e)
  BY <1>2, <1>3 DEF Caused
<1>4. CASE Merge(node, e) = node /\ node.observation # NONE
  BY <1>4
<1> QED BY <1>3, <1>4 DEF Merge

LEMMA PrefixOfPrefix ==
    ASSUME NEW S, NEW p \in Seq(S), NEW n \in 0 .. Len(p), NEW m \in 0 .. n
    PROVE  /\ SubSeq(p, 1, n) \in Seq(S) /\ Len(SubSeq(p, 1, n)) = n
           /\ SubSeq(SubSeq(p, 1, n), 1, m) = SubSeq(p, 1, m)
<1>1. /\ Len(p) \in Nat /\ n \in Nat /\ m \in Nat
      /\ \A i \in 1 .. n : p[i] \in S
  BY LenProperties
<1>2. /\ SubSeq(p, 1, n) \in Seq(S) /\ Len(SubSeq(p, 1, n)) = n
      /\ \A i \in 1 .. n : SubSeq(p, 1, n)[i] = p[i]
  <2>1. 1 \in Int /\ n \in Int /\ n - 1 + 1 = n /\ (1 <= n \/ n = 0)
    BY <1>1
  <2>2. /\ SubSeq(p, 1, n) \in Seq(S)
        /\ Len(SubSeq(p, 1, n)) = IF 1 <= n THEN n - 1 + 1 ELSE 0
        /\ \A i \in 1 .. n - 1 + 1 : SubSeq(p, 1, n)[i] = p[1 + i - 1]
    BY <1>1, <2>1, SubSeqProperties
  <2>3. \A i \in 1 .. n : 1 + i - 1 = i
    OBVIOUS
  <2> QED BY <1>1, <2>1, <2>2, <2>3
<1> DEFINE q == SubSeq(p, 1, n)
<1> HIDE DEF q
<1>3. /\ SubSeq(q, 1, m) \in Seq(S) /\ Len(SubSeq(q, 1, m)) = m
      /\ \A i \in 1 .. m : SubSeq(q, 1, m)[i] = q[i]
  <2>1. 1 \in Int /\ m \in Int /\ m - 1 + 1 = m /\ (1 <= m \/ m = 0)
    BY <1>1
  <2>2. \A i \in 1 .. m : q[i] \in S
    BY <1>1, <1>2 DEF q
  <2>3. /\ SubSeq(q, 1, m) \in Seq(S)
        /\ Len(SubSeq(q, 1, m)) = IF 1 <= m THEN m - 1 + 1 ELSE 0
        /\ \A i \in 1 .. m - 1 + 1 : SubSeq(q, 1, m)[i] = q[1 + i - 1]
    BY <2>1, <2>2, SubSeqProperties
  <2>4. \A i \in 1 .. m : 1 + i - 1 = i
    OBVIOUS
  <2> QED BY <1>1, <2>1, <2>3, <2>4
<1>4. /\ SubSeq(p, 1, m) \in Seq(S) /\ Len(SubSeq(p, 1, m)) = m
      /\ \A i \in 1 .. m : SubSeq(p, 1, m)[i] = p[i]
  <2>1. 1 \in Int /\ m \in Int /\ m - 1 + 1 = m /\ (1 <= m \/ m = 0)
    BY <1>1
  <2>2. \A i \in 1 .. m : p[i] \in S
    BY <1>1
  <2>3. /\ SubSeq(p, 1, m) \in Seq(S)
        /\ Len(SubSeq(p, 1, m)) = IF 1 <= m THEN m - 1 + 1 ELSE 0
        /\ \A i \in 1 .. m - 1 + 1 : SubSeq(p, 1, m)[i] = p[1 + i - 1]
    BY <2>1, <2>2, SubSeqProperties
  <2>4. \A i \in 1 .. m : 1 + i - 1 = i
    OBVIOUS
  <2> QED BY <1>1, <2>1, <2>3, <2>4
<1>5. SubSeq(q, 1, m) = SubSeq(p, 1, m)
  <2>1. \A i \in 1 .. m : SubSeq(q, 1, m)[i] = SubSeq(p, 1, m)[i]
    BY <1>1, <1>2, <1>3, <1>4 DEF q
  <2> QED BY <1>3, <1>4, <2>1, SeqEqual
<1> QED BY <1>2, <1>5 DEF q

\* What a walk knows of the entry and of its place in the path.
LEMMA WalkAt ==
    ASSUME BuilderAssumptions, TreeInv, call # Idle
    PROVE  /\ call.entry \in Entries /\ ValidPath(call.entry)
           /\ call.entry.path \in Seq(Names)
           /\ call.index \in 1 .. Len(call.entry.path)
           /\ SubSeq(call.entry.path, 1, call.index) \in Seq(Names)
           /\ Len(SubSeq(call.entry.path, 1, call.index)) = call.index
           /\ Final => /\ SubSeq(call.entry.path, 1, call.index) = call.entry.path
                       /\ Kind = call.entry.kind
           /\ ~Final => Kind = Directory
           /\ ~Final => Below(SubSeq(call.entry.path, 1, call.index), call.entry.path)
<1>1. /\ call.entry \in Entries /\ ValidPath(call.entry)
      /\ call.index \in DOMAIN call.entry.path
  BY DEF TreeInv, TypeOK
<1>2. call.entry.path \in Seq(Names)
  BY <1>1, MountablePath
<1>3. call.index \in 1 .. Len(call.entry.path) /\ Len(call.entry.path) \in Nat
  BY <1>1, <1>2, LenProperties
<1>4. /\ SubSeq(call.entry.path, 1, call.index) \in Seq(Names)
      /\ Len(SubSeq(call.entry.path, 1, call.index)) = call.index
  BY <1>2, <1>3, PrefixOfPrefix
<1>5. SubSeq(call.entry.path, 1, Len(call.entry.path)) = call.entry.path
  BY <1>2, SubSeqFull
<1>6. ~Final => Below(SubSeq(call.entry.path, 1, call.index), call.entry.path)
  BY <1>3, <1>4 DEF Below, Final
<1> QED BY <1>1, <1>2, <1>3, <1>4, <1>5, <1>6 DEF Final, Kind

LEMMA StepKeepsCauses ==
    ASSUME BuilderAssumptions, TreeInv, FreshInv, CauseInv, [Next]_vars
    PROVE  CauseInv'
<1> DEFINE E == added \cup {call.entry}
<1>1. ASSUME call # Idle, CausedBy(nodes', E), Descend(next_id) \/ Descend(Existing), before' = before
      PROVE  CauseInv'
  <2>1. CASE Final
    BY <1>1, <2>1 DEF Descend, CauseInv
  <2>2. CASE ~Final
    <3>1. call'.entry = call.entry /\ call'.index = call.index + 1 /\ added' = added
      BY <1>1, <2>2 DEF Descend, TreeInv, WalkInv
    <3>2. call' # Idle
      BY <1>1, <3>1, WalkAt DEF Idle
    <3> QED BY <1>1, <3>1, <3>2 DEF CauseInv
  <2> QED BY <2>1, <2>2
<1>2. CASE WalkNew
  <2> DEFINE node == IF Final THEN Merge(NewNode, call.entry) ELSE NewNode
  <2>1. call # Idle /\ ~Exists /\ Insert(node) /\ Descend(next_id) /\ before' = before
    BY <1>2 DEF WalkNew
  <2>2. /\ NewNode \in MutableNode /\ NewNode.observation = NONE /\ NewNode.meta = NoMetadata
        /\ NewNode.path = SubSeq(call.entry.path, 1, call.index) /\ NewNode.kind = Kind
    BY <2>1, NewNodeTyped DEF NewNode
  <2>3. nodes'[next_id] = node /\ DOMAIN nodes' = DOMAIN nodes \cup {next_id}
        /\ \A id \in DOMAIN nodes : nodes'[id] = nodes[id]
    <3>1. next_id \notin DOMAIN nodes
      BY DEF TreeInv, TypeOK
    <3> QED BY <2>1, <3>1 DEF Insert
  <2>4. Caused(node, E)
    <3>1. CASE Final
      BY <2>1, <2>2, <3>1, WalkAt, MergeCaused
    <3>2. CASE ~Final
      BY <2>1, <2>2, <3>2, WalkAt DEF Caused
    <3> QED BY <3>1, <3>2
  <2> HIDE DEF node
  <2>5. CausedBy(nodes', E)
    BY <2>1, <2>3, <2>4 DEF CauseInv, CausedBy
  <2> QED BY <1>1, <2>1, <2>5
<1>3. CASE WalkExisting
  <2>1. call # Idle /\ Exists /\ Descend(Existing) /\ before' = before
        /\ nodes[Existing].kind = Kind
        /\ nodes' = IF Final THEN [nodes EXCEPT ![Existing] = Merge(@, call.entry)] ELSE nodes
    BY <1>3 DEF WalkExisting
  <2>2. Existing \in DOMAIN nodes \ {Root} /\ nodes[Existing] \in MutableNode
        /\ nodes[Existing].path = SubSeq(call.entry.path, 1, call.index)
    BY <2>1, ExistingPath DEF TreeInv, TypeOK
  <2>3. CausedBy(nodes, E)
    BY <2>1 DEF CauseInv
  <2>4. CASE Final
    <3>1. Caused(nodes[Existing], E)
      BY <2>2, <2>3 DEF CausedBy
    <3>2. Caused(Merge(nodes[Existing], call.entry), E)
      BY <2>1, <2>2, <2>4, <3>1, WalkAt, MergeCaused
    <3>3. /\ DOMAIN nodes' = DOMAIN nodes
          /\ \A id \in DOMAIN nodes : nodes'[id] = IF id = Existing THEN Merge(nodes[Existing], call.entry)
                                                   ELSE nodes[id]
      BY <2>1, <2>2, <2>4
    <3>4. CausedBy(nodes', E)
      BY <2>3, <3>2, <3>3 DEF CausedBy
    <3> QED BY <1>1, <2>1, <3>4
  <2>5. CASE ~Final
    BY <1>1, <2>1, <2>3, <2>5
  <2> QED BY <2>4, <2>5
<1>4. CASE WalkConflict
  <2>1. call # Idle /\ Exists /\ call' = Idle /\ nodes' = nodes /\ added' = added
    BY <1>4 DEF WalkConflict
  <2>2. tree = before
    BY <2>1 DEF FreshInv, Exists
  <2>3. CausedBy(nodes, added)
    BY <2>1, <2>2 DEF CauseInv, tree
  <2> QED BY <2>1, <2>3 DEF CauseInv
<1>5. CASE WriteFails
  BY <1>5 DEF WriteFails, CauseInv
<1>6. ASSUME NEW e \in Entries, Add(e) PROVE CauseInv'
  <2>1. CausedBy(nodes, added) /\ before'[1] = nodes /\ nodes' = nodes /\ added' = added
        /\ call' # Idle
    BY <1>6 DEF Add, MayAdd, CauseInv, tree, Idle
  <2>2. CausedBy(nodes, added \cup {call'.entry})
    BY <2>1, MoreCauses
  <2> QED BY <2>1, <2>2 DEF CauseInv
<1>7. ASSUME NEW e \in Entries, AddInvalid(e) PROVE CauseInv'
  BY <1>7 DEF AddInvalid, MayAdd, CauseInv
<1>8. CASE UseAfterFinish \/ Finish \/ Abort
  BY <1>8 DEF UseAfterFinish, Finish, Abort, MayAdd, CauseInv
<1>9. CASE UNCHANGED vars
  BY <1>9 DEF vars, CauseInv
<1> QED BY <1>2, <1>3, <1>4, <1>5, <1>6, <1>7, <1>8, <1>9 DEF Next, Walk

-----------------------------------------------------------------------------
(* The paths of the tree.                                                  *)

LEMMA LeastNumber ==
    ASSUME NEW K \in SUBSET Nat, K # {}
    PROVE  \E k \in K : \A m \in K : k <= m
<1>1. PICK k \in K : \A m \in K : <<m, k>> \notin OpToRel(<, Nat)
  BY NatLessThanWellFounded, WFMin
<1>2. \A m \in K : ~(m < k)
  BY <1>1 DEF OpToRel
<1>3. k \in Nat /\ \A m \in K : m \in Nat
  OBVIOUS
<1> QED BY <1>2, <1>3

LEMMA NodeFacts ==
    ASSUME BuilderAssumptions, TreeInv
    PROVE  /\ DOMAIN nodes \in SUBSET Nat /\ Root \in DOMAIN nodes
           /\ nodes[Root].path = << >> /\ nodes[Root].kind = Directory
           /\ \A id \in DOMAIN nodes : nodes[id].path \in Seq(Names)
           /\ \A id \in DOMAIN nodes \ {Root} :
                LET node == nodes[id]
                IN  /\ node.parent \in DOMAIN nodes /\ node.parent < id
                    /\ nodes[node.parent].kind = Directory
                    /\ node.name \in Names
                    /\ children[node.parent][node.name] = id
                    /\ node.name \in DOMAIN children[node.parent]
                    /\ node.path = Append(nodes[node.parent].path, node.name)
                    /\ Len(node.path) = Len(nodes[node.parent].path) + 1
<1>1. DOMAIN nodes \in SUBSET Nat /\ Root \in DOMAIN nodes /\ nodes[Root] = RootNode
  BY DEF TreeInv, TypeOK, RootedTree
<1>2. \A id \in DOMAIN nodes : nodes[id].path \in Seq(Names)
  BY DEF TreeInv, TypeOK, MutableNode
<1>3. ASSUME NEW id \in DOMAIN nodes \ {Root}
      PROVE  LET node == nodes[id]
             IN  /\ node.parent \in DOMAIN nodes /\ node.parent < id
                 /\ nodes[node.parent].kind = Directory
                 /\ node.name \in Names
                 /\ children[node.parent][node.name] = id
                 /\ node.name \in DOMAIN children[node.parent]
                 /\ node.path = Append(nodes[node.parent].path, node.name)
                 /\ Len(node.path) = Len(nodes[node.parent].path) + 1
  <2> DEFINE node == nodes[id]
  <2>1. /\ node.parent \in DOMAIN nodes /\ node.parent < id
        /\ nodes[node.parent].kind = Directory
        /\ node.name \in DOMAIN children[node.parent]
        /\ children[node.parent][node.name] = id
        /\ node.path = Append(nodes[node.parent].path, node.name)
    BY DEF TreeInv, RootedTree
  <2>2. node.name \in Names
    BY <2>1 DEF TreeInv, TypeOK
  <2> HIDE DEF node
  <2>3. Len(node.path) = Len(nodes[node.parent].path) + 1
    BY <1>2, <2>1, <2>2, AppendProperties
  <2> QED BY <2>1, <2>2, <2>3 DEF node
<1> QED BY <1>1, <1>2, <1>3 DEF RootNode

LEMMA SameAppend ==
    ASSUME NEW S, NEW s \in Seq(S), NEW t \in Seq(S), NEW d \in S, NEW e \in S,
           Append(s, d) = Append(t, e)
    PROVE  s = t /\ d = e
<1>1. /\ Len(s) \in Nat /\ Len(Append(s, d)) = Len(s) + 1 /\ Append(s, d)[Len(s) + 1] = d
      /\ \A i \in 1 .. Len(s) : Append(s, d)[i] = s[i]
  BY AppendProperties, LenProperties
<1>2. /\ Len(t) \in Nat /\ Len(Append(t, e)) = Len(t) + 1 /\ Append(t, e)[Len(t) + 1] = e
      /\ \A i \in 1 .. Len(t) : Append(t, e)[i] = t[i]
  BY AppendProperties, LenProperties
<1>3. Len(s) = Len(t)
  BY <1>1, <1>2
<1>4. d = e /\ \A i \in 1 .. Len(s) : s[i] = t[i]
  BY <1>1, <1>2, <1>3
<1>5. s = t
  BY <1>3, <1>4, SeqEqual
<1> QED BY <1>4, <1>5

\* No two nodes have the same path.
LEMMA PathsDiffer ==
    ASSUME BuilderAssumptions, TreeInv, NEW a \in DOMAIN nodes, NEW b \in DOMAIN nodes,
           nodes[a].path = nodes[b].path
    PROVE  a = b
<1> DEFINE Bad == { i \in DOMAIN nodes : \E j \in DOMAIN nodes : i # j /\ nodes[i].path = nodes[j].path }
<1> SUFFICES ASSUME Bad # {} PROVE FALSE
  OBVIOUS
<1>1. PICK i \in Bad : \A k \in Bad : i <= k
  <2>1. Bad \in SUBSET Nat
    BY NodeFacts
  <2> HIDE DEF Bad
  <2> QED BY <2>1, LeastNumber
<1>2. PICK j \in DOMAIN nodes : i # j /\ nodes[i].path = nodes[j].path
  BY <1>1
<1>3. i \in DOMAIN nodes
  BY <1>1
<1>4. ASSUME NEW k \in DOMAIN nodes \ {Root} PROVE nodes[k].path # << >>
  <2>1. /\ nodes[nodes[k].parent].path \in Seq(Names)
        /\ Len(nodes[k].path) = Len(nodes[nodes[k].parent].path) + 1
    BY NodeFacts
  <2>2. Len(<< >>) = 0 /\ Len(nodes[nodes[k].parent].path) \in Nat
    BY <2>1, LenProperties
  <2> QED BY <2>1, <2>2
<1>5. i # Root /\ j # Root
  BY <1>2, <1>3, <1>4, NodeFacts
<1> DEFINE p == nodes[i].parent
           q == nodes[j].parent
<1>6. /\ p \in DOMAIN nodes /\ p < i /\ q \in DOMAIN nodes
      /\ nodes[p].path \in Seq(Names) /\ nodes[i].name \in Names
      /\ nodes[i].path = Append(nodes[p].path, nodes[i].name)
      /\ children[p][nodes[i].name] = i
      /\ nodes[q].path \in Seq(Names) /\ nodes[j].name \in Names
      /\ nodes[j].path = Append(nodes[q].path, nodes[j].name)
      /\ children[q][nodes[j].name] = j
  BY <1>3, <1>5, NodeFacts
<1> HIDE DEF p, q
<1>7. nodes[p].path = nodes[q].path /\ nodes[i].name = nodes[j].name
  <2>1. Append(nodes[p].path, nodes[i].name) = Append(nodes[q].path, nodes[j].name)
    BY <1>2, <1>6
  <2>2. /\ nodes[p].path \in Seq(Names) /\ nodes[q].path \in Seq(Names)
        /\ nodes[i].name \in Names /\ nodes[j].name \in Names
    BY <1>6
  <2> DEFINE s == nodes[p].path
             t == nodes[q].path
             d == nodes[i].name
             e == nodes[j].name
  <2>3. s \in Seq(Names) /\ t \in Seq(Names) /\ d \in Names /\ e \in Names /\ Append(s, d) = Append(t, e)
    BY <2>1, <2>2
  <2> HIDE DEF s, t, d, e
  <2>4. s = t /\ d = e
    BY <2>3, SameAppend
  <2> QED BY <2>4 DEF s, t, d, e
<1>8. p \notin Bad
  <2>1. i \in Nat /\ p \in Nat
    BY <1>3, <1>6, NodeFacts
  <2> QED BY <1>1, <1>6, <2>1
<1>9. p = q
  BY <1>6, <1>7, <1>8
<1> QED BY <1>2, <1>6, <1>7, <1>9

\* The ancestors of a node are in the tree, and directories.
LEMMA AncestorsAreDirectories ==
    ASSUME BuilderAssumptions, TreeInv, NEW id \in DOMAIN nodes,
           NEW path, Below(path, nodes[id].path)
    PROVE  \E a \in DOMAIN nodes : nodes[a].path = path /\ nodes[a].kind = Directory
<1> DEFINE Has(p) == \E a \in DOMAIN nodes : nodes[a].path = p /\ nodes[a].kind = Directory
           Bad == { i \in DOMAIN nodes : \E n \in 0 .. Len(nodes[i].path) - 1 :
                      ~Has(SubSeq(nodes[i].path, 1, n)) }
<1>1. Len(path) \in 0 .. Len(nodes[id].path) - 1 /\ path = SubSeq(nodes[id].path, 1, Len(path))
  <2>1. /\ nodes[id].path \in Seq(Names) /\ Len(nodes[id].path) \in Nat
        /\ Len(path) < Len(nodes[id].path)
        /\ path = SubSeq(nodes[id].path, 1, Len(path))
    BY NodeFacts, LenProperties DEF Below
  <2>2. Len(path) \in Nat
    <3>1. CASE Len(path) \in Int
      <4>1. \A i \in 1 .. Len(path) : nodes[id].path[i] \in Names
        BY <2>1, <3>1
      <4>2. SubSeq(nodes[id].path, 1, Len(path)) \in Seq(Names)
        BY <2>1, <3>1, <4>1, SubSeqProperties
      <4> QED BY <2>1, <4>2, LenProperties
    <3>2. CASE path \in Seq(Names)
      BY <3>2, LenProperties
    <3> QED BY <2>1, <3>1, <3>2
  <2> QED BY <2>1, <2>2
<1> SUFFICES ASSUME Bad # {} PROVE FALSE
  BY <1>1
<1>2. PICK i \in Bad : \A k \in Bad : i <= k
  <2>1. Bad \in SUBSET Nat
    BY NodeFacts
  <2> HIDE DEF Bad
  <2> QED BY <2>1, LeastNumber
<1>3. PICK n \in 0 .. Len(nodes[i].path) - 1 : ~Has(SubSeq(nodes[i].path, 1, n))
  BY <1>2
<1>4. i \in DOMAIN nodes /\ nodes[i].path \in Seq(Names) /\ Len(nodes[i].path) \in Nat
  BY <1>2, NodeFacts, LenProperties
<1>5. i # Root
  <2>1. Len(<< >>) = 0
    OBVIOUS
  <2> QED BY <1>3, <2>1, NodeFacts
<1> DEFINE p == nodes[i].parent
           q == nodes[p].path
<1>6. /\ p \in DOMAIN nodes /\ p < i /\ nodes[p].kind = Directory
      /\ q \in Seq(Names) /\ Len(q) \in Nat /\ nodes[i].name \in Names
      /\ nodes[i].path = Append(q, nodes[i].name) /\ Len(nodes[i].path) = Len(q) + 1
  BY <1>4, <1>5, NodeFacts, LenProperties
<1> HIDE DEF p, q
<1>7. n \in 0 .. Len(q)
  BY <1>3, <1>6
<1>8. SubSeq(nodes[i].path, 1, Len(q)) = q
  <2>1. SubSeq(nodes[i].path, 1, Len(q)) \in Seq(Names)
        /\ Len(SubSeq(nodes[i].path, 1, Len(q))) = Len(q)
    BY <1>4, <1>6, PrefixOfPrefix
  <2>2. \A k \in 1 .. Len(q) : nodes[i].path[k] = q[k] /\ nodes[i].path[k] \in Names
    BY <1>6, AppendProperties
  <2>3. \A k \in 1 .. Len(q) : SubSeq(nodes[i].path, 1, Len(q))[k] = q[k]
    <3>1. 1 \in Int /\ Len(q) \in Int /\ Len(q) - 1 + 1 = Len(q)
      BY <1>6
    <3>2. \A k \in 1 .. Len(q) : SubSeq(nodes[i].path, 1, Len(q))[k] = nodes[i].path[1 + k - 1]
      BY <2>2, <3>1, SubSeqProperties
    <3>3. \A k \in 1 .. Len(q) : 1 + k - 1 = k
      OBVIOUS
    <3> QED BY <2>2, <3>2, <3>3
  <2> QED BY <1>6, <2>1, <2>3, SeqEqual
<1>9. SubSeq(nodes[i].path, 1, n) = SubSeq(q, 1, n)
  <2>1. Len(q) \in 0 .. Len(nodes[i].path)
    BY <1>6
  <2> QED BY <1>4, <1>7, <1>8, <2>1, PrefixOfPrefix
<1>10. CASE n = Len(q)
  <2>1. SubSeq(q, 1, n) = q
    BY <1>6, <1>10, SubSeqFull
  <2> QED BY <1>3, <1>6, <1>9, <2>1 DEF q
<1>11. CASE n # Len(q)
  <2>1. p \notin Bad
    <3>1. i \in Nat /\ p \in Nat
      BY <1>4, <1>6, NodeFacts
    <3>2. ~(i <= p)
      BY <1>6, <3>1
    <3> QED BY <1>2, <3>2
  <2>2. n \in 0 .. Len(q) - 1
    BY <1>6, <1>7, <1>11
  <2> QED BY <1>3, <1>6, <1>9, <2>1, <2>2 DEF q
<1> QED BY <1>10, <1>11

-----------------------------------------------------------------------------
(* The verdicts are those of SnapshotContents.                             *)

LEMMA StrictPrefixIsBelow ==
    ASSUME NEW S, NEW p \in Seq(S), NEW q \in Seq(S)
    PROVE  Contents!IsStrictPrefix(p, q) <=> Below(p, q)
<1>1. /\ SubSeq(p, 1, Len(p)) = p /\ SubSeq(q, 1, Len(q)) = q
      /\ Len(p) \in Nat /\ Len(q) \in Nat
  BY SubSeqFull, LenProperties
<1> QED BY <1>1 DEF Contents!IsStrictPrefix, Contents!IsPrefix, Below

\* What every accepted entry can be taken to be.
LEMMA EntryFacts ==
    ASSUME BuilderAssumptions, TreeInv, PresentInv, NEW f \in added
    PROVE  /\ f \in Entries /\ f.path \in Seq(Names) /\ f.observation # NONE
           /\ \E id \in DOMAIN nodes : Holds(nodes[id], f)
<1>1. f \in Entries
  BY DEF TreeInv, TypeOK
<1>2. PICK id \in DOMAIN nodes : Holds(nodes[id], f)
  BY DEF PresentInv
<1> QED BY <1>1, <1>2, EntryFields, NodeFacts DEF Holds

\* A node at the path of the entry is found by the last step of the walk.
LEMMA AtEnd ==
    ASSUME BuilderAssumptions, TreeInv, call # Idle, Final,
           NEW id \in DOMAIN nodes, nodes[id].path = call.entry.path
    PROVE  Exists /\ Existing = id
<1>1. /\ call.entry.path \in Seq(Names) /\ call.index \in DOMAIN call.entry.path
      /\ call.index = Len(call.entry.path) /\ Len(call.entry.path) \in Nat
      /\ call.index \in 1 .. Len(call.entry.path)
      /\ call.parent \in DOMAIN nodes
      /\ nodes[call.parent].path = SubSeq(call.entry.path, 1, call.index - 1)
  BY WalkAt, LenProperties DEF Final, TreeInv, TypeOK, WalkInv
<1>2. call.entry.path = Append(nodes[call.parent].path, Component) /\ Component \in Names
  <2> DEFINE path == call.entry.path
             i    == call.index
  <2>1. i \in DOMAIN path /\ path \in Seq(Names)
    BY <1>1
  <2>2. SubSeq(path, 1, i) = Append(SubSeq(path, 1, i - 1), path[i]) /\ SubSeq(path, 1, Len(path)) = path
    BY <2>1, PathGrows
  <2>3. path[i] \in Names
    BY <2>1
  <2> QED BY <1>1, <2>2, <2>3 DEF Component
<1>3. id # Root
  <2>1. Len(<< >>) = 0
    OBVIOUS
  <2> QED BY <1>1, <2>1, NodeFacts
<1> DEFINE p == nodes[id].parent
<1>4. /\ p \in DOMAIN nodes /\ nodes[p].path \in Seq(Names) /\ nodes[id].name \in Names
      /\ nodes[id].path = Append(nodes[p].path, nodes[id].name)
      /\ children[p][nodes[id].name] = id /\ nodes[id].name \in DOMAIN children[p]
  BY <1>3, NodeFacts
<1> HIDE DEF p
<1>5. nodes[p].path = nodes[call.parent].path /\ nodes[id].name = Component
  <2>1. nodes[call.parent].path \in Seq(Names)
    BY <1>1, NodeFacts
  <2>2. Append(nodes[p].path, nodes[id].name) = Append(nodes[call.parent].path, Component)
    BY <1>2, <1>4
  <2>3. nodes[p].path \in Seq(Names) /\ nodes[id].name \in Names /\ Component \in Names
    BY <1>2, <1>4
  <2> QED BY ONLY <2>1, <2>2, <2>3, SameAppend, SMTT(15)
<1>6. p = call.parent
  BY <1>1, <1>4, <1>5, PathsDiffer
<1> QED BY <1>4, <1>5, <1>6 DEF Exists, Existing

\* An add() that returns contradicts no accepted entry.
LEMMA AcceptedAgree ==
    ASSUME BuilderAssumptions, TreeInv, PresentInv, call # Idle, Final,
           Exists => nodes[Existing].kind = Kind /\ Compatible(nodes[Existing], call.entry),
           NEW f \in added
    PROVE  Contents!Agree(call.entry, f)
<1> DEFINE e == call.entry
<1>1. /\ e \in Entries /\ e.path \in Seq(Names) /\ Kind = e.kind
      /\ f \in Entries /\ f.path \in Seq(Names)
  BY WalkAt, EntryFacts
<1>2. PICK id \in DOMAIN nodes : Holds(nodes[id], f)
  BY EntryFacts
<1>3. nodes[id].path = f.path /\ nodes[id].kind = f.kind
  BY <1>2 DEF Holds
<1>4. ASSUME Contents!IsStrictPrefix(e.path, f.path) PROVE e.kind = Directory
  <2>1. Below(e.path, nodes[id].path)
    BY <1>1, <1>3, <1>4, StrictPrefixIsBelow
  <2>2. PICK a \in DOMAIN nodes : nodes[a].path = e.path /\ nodes[a].kind = Directory
    BY <2>1, AncestorsAreDirectories
  <2> QED BY <1>1, <2>2, AtEnd
<1>5. ASSUME Contents!IsStrictPrefix(f.path, e.path) PROVE f.kind = Directory
  <2>1. Below(f.path, e.path) /\ Len(f.path) \in Nat /\ Len(e.path) \in Nat
    BY <1>1, <1>5, StrictPrefixIsBelow, LenProperties
  <2> DEFINE up == nodes[call.parent]
             n  == Len(e.path) - 1
  <2>2. /\ call.parent \in DOMAIN nodes /\ up.kind = Directory
        /\ up.path = SubSeq(e.path, 1, n) /\ up.path \in Seq(Names)
    BY NodeFacts DEF TreeInv, TypeOK, WalkInv, Final
  <2>3. n \in 0 .. Len(e.path) /\ Len(f.path) \in 0 .. n
    BY <2>1 DEF Below
  <2>4. Len(up.path) = n /\ SubSeq(up.path, 1, Len(f.path)) = f.path
    BY <1>1, <2>1, <2>2, <2>3, PrefixOfPrefix DEF Below
  <2> HIDE DEF up, n
  <2>5. CASE Len(f.path) = n
    <3>1. up.path = f.path
      BY <2>1, <2>2, <2>4, <2>5, SubSeqFull
    <3>2. call.parent = id
      BY <1>3, <2>2, <3>1, PathsDiffer DEF up
    <3> QED BY <1>3, <2>2, <3>2 DEF up
  <2>6. CASE Len(f.path) # n
    <3>1. Below(f.path, nodes[call.parent].path)
      BY <2>3, <2>4, <2>6 DEF Below, up
    <3>2. PICK a \in DOMAIN nodes : nodes[a].path = f.path /\ nodes[a].kind = Directory
      BY <2>2, <3>1, AncestorsAreDirectories
    <3>3. a = id
      BY <1>3, <3>2, PathsDiffer
    <3> QED BY <1>3, <3>2, <3>3
  <2> QED BY <2>5, <2>6
<1>6. ASSUME e.path = f.path
      PROVE  /\ e.kind = f.kind
             /\ e.kind = File => e.meta = f.meta
             /\ SectionHeader \notin {e.observation, f.observation}
                  => e.meta.modified = f.meta.modified
  <2>1. /\ Existing = id /\ nodes[id].kind = e.kind
        /\ Compatible(nodes[id], e)
    BY <1>1, <1>3, <1>6, AtEnd
  <2> QED BY <1>2, <2>1 DEF Holds, Compatible
<1> QED BY <1>4, <1>5, <1>6 DEF Contents!Agree, Directory, File, SectionHeader

\* An add() that raises ENTRY_CONFLICT contradicts one.
LEMMA ConflictDisagrees ==
    ASSUME BuilderAssumptions, TreeInv, PresentInv, call # Idle, Exists,
           CausedBy(nodes, added),
           \/ nodes[Existing].kind # Kind
           \/ Final /\ ~Compatible(nodes[Existing], call.entry)
    PROVE  \E f \in added : ~Contents!Agree(call.entry, f)
<1> DEFINE e    == call.entry
           node == nodes[Existing]
<1>1. /\ e.path \in Seq(Names)
      /\ Final => node.path = e.path /\ Kind = e.kind
      /\ ~Final => Kind = Directory /\ Below(node.path, e.path)
  BY WalkAt, ExistingPath
<1>2. Caused(node, added)
  BY ExistingPath DEF CausedBy
<1> HIDE DEF node
<1>3. CASE node.observation # NONE
  <2>1. PICK f \in added : Says(node, f)
    BY <1>2, <1>3 DEF Caused
  <2>2. /\ f.path = node.path /\ f.kind = node.kind /\ f.path \in Seq(Names)
        /\ f.observation = node.observation /\ f.meta = node.meta
    BY <2>1, EntryFacts DEF Says
  <2>3. CASE ~Final
    <3>1. Contents!IsStrictPrefix(f.path, e.path)
      BY <1>1, <2>2, <2>3, StrictPrefixIsBelow
    <3> QED BY <1>1, <2>2, <2>3, <3>1 DEF Contents!Agree, Directory, node
  <2>4. CASE Final
    <3>1. \/ f.kind # e.kind
          \/ ~Compatible(node, e) /\ f.kind = e.kind
      BY <1>1, <2>2, <2>4 DEF node
    <3> QED BY <1>1, <1>3, <2>2, <2>4, <3>1 DEF Contents!Agree, Compatible, File, SectionHeader
  <2> QED BY <2>3, <2>4
<1>4. CASE node.observation = NONE
  <2>1. PICK f \in added : node.kind = Directory /\ Below(node.path, f.path)
    BY <1>2, <1>4 DEF Caused
  <2>2. Final /\ e.kind # Directory /\ node.path = e.path
    BY <1>1, <1>4, <2>1 DEF Compatible, node
  <2>3. Contents!IsStrictPrefix(e.path, f.path)
    BY <1>1, <2>1, <2>2, EntryFacts, StrictPrefixIsBelow
  <2> QED BY <2>2, <2>3 DEF Contents!Agree, Directory
<1> QED BY <1>3, <1>4

-----------------------------------------------------------------------------
(* What is published is what SnapshotContents says of the accepted entries. *)

Shown(table) ==
    [p \in { table[id].path : id \in DOMAIN table \ {Root} } |->
        LET node == CHOOSE n \in { table[id] : id \in DOMAIN table } : n.path = p
        IN  [kind |-> node.kind, modified |-> node.modified,
             size |-> IF node.kind = File THEN node.size ELSE NONE]]

\* The paths of the nodes are those of the entries and of their ancestors.
LEMMA PathsAreTheClosure ==
    ASSUME BuilderAssumptions, TreeInv, PresentInv, CausedBy(nodes, added)
    PROVE  { nodes[id].path : id \in DOMAIN nodes \ {Root} } = Contents!Closure(added)
<1>0. ASSUME NEW id \in DOMAIN nodes \ {Root}
      PROVE  /\ nodes[id].path \in Seq(Names) /\ Len(nodes[id].path) \in Nat
             /\ Len(nodes[id].path) >= 1
  <2>1. /\ nodes[id].path \in Seq(Names) /\ nodes[nodes[id].parent].path \in Seq(Names)
        /\ Len(nodes[id].path) = Len(nodes[nodes[id].parent].path) + 1
    BY NodeFacts
  <2> QED BY <2>1, LenProperties
<1>1. ASSUME NEW id \in DOMAIN nodes \ {Root}
      PROVE  nodes[id].path \in Contents!Closure(added)
  <2> DEFINE path == nodes[id].path
  <2>1. PICK f \in added : path = f.path \/ Below(path, f.path)
    BY DEF CausedBy, Caused, Says
  <2>2. /\ path \in Seq(Names) /\ Len(path) \in Nat /\ Len(path) >= 1
        /\ f.path \in Seq(Names) /\ Len(f.path) \in Nat
    BY <1>0, EntryFacts, LenProperties
  <2> HIDE DEF path
  <2>3. path = SubSeq(f.path, 1, Len(path)) /\ Len(path) \in 1 .. Len(f.path)
    BY <2>1, <2>2, SubSeqFull DEF Below
  <2> QED BY <2>3 DEF Contents!Closure, path
<1>2. ASSUME NEW f \in added, NEW n \in 1 .. Len(f.path)
      PROVE  \E id \in DOMAIN nodes \ {Root} : nodes[id].path = SubSeq(f.path, 1, n)
  <2>1. PICK id \in DOMAIN nodes : nodes[id].path = f.path
    BY EntryFacts DEF Holds
  <2>2. f.path \in Seq(Names) /\ Len(f.path) \in Nat /\ n \in 0 .. Len(f.path) /\ 0 \in 0 .. n
    BY EntryFacts, LenProperties
  <2>3. Len(SubSeq(f.path, 1, n)) = n
    BY <2>2, PrefixOfPrefix
  <2>4. \E a \in DOMAIN nodes : nodes[a].path = SubSeq(f.path, 1, n)
    <3>1. CASE n = Len(f.path)
      BY <2>1, <2>2, <3>1, SubSeqFull
    <3>2. CASE n # Len(f.path)
      <4>1. Below(SubSeq(f.path, 1, n), nodes[id].path)
        BY <2>1, <2>2, <2>3, <3>2 DEF Below
      <4> QED BY <4>1, AncestorsAreDirectories
    <3> QED BY <3>1, <3>2
  <2>5. nodes[Root].path # SubSeq(f.path, 1, n)
    <3>1. Len(<< >>) = 0
      OBVIOUS
    <3> QED BY <2>2, <2>3, <3>1, NodeFacts
  <2> QED BY <2>4, <2>5
<1> DEFINE Paths == { nodes[id].path : id \in DOMAIN nodes \ {Root} }
<1>3. \A q \in Contents!Closure(added) : q \in Paths
  BY <1>2 DEF Contents!Closure
<1>4. \A q \in Paths : q \in Contents!Closure(added)
  BY <1>1
<1> QED BY <1>3, <1>4

\* What the accepted entries say of the path of a node.
LEMMA EntriesAtNode ==
    ASSUME BuilderAssumptions, TreeInv, PresentInv, CausedBy(nodes, added),
           NEW id \in DOMAIN nodes \ {Root}
    PROVE  LET node == nodes[id]
               here == { e \in added : e.path = node.path }
           IN  /\ \A e \in here : Holds(node, e)
               /\ (\A e \in here : e.observation = SectionHeader)
                    => node.kind = Directory /\ node.meta.modified = NONE
<1> DEFINE node == nodes[id]
           here == { e \in added : e.path = node.path }
<1>1. ASSUME NEW e \in here PROVE Holds(node, e)
  <2>1. PICK a \in DOMAIN nodes : Holds(nodes[a], e)
    BY EntryFacts
  <2>2. nodes[a].path = node.path
    BY <2>1 DEF Holds
  <2> QED BY <2>1, <2>2, PathsDiffer
<1>2. ASSUME \A e \in here : e.observation = SectionHeader
      PROVE  node.kind = Directory /\ node.meta.modified = NONE
  <2>1. Caused(node, added)
    BY DEF CausedBy
  <2> HIDE DEF node
  <2>2. CASE node.observation = NONE
    BY <2>1, <2>2 DEF Caused, NoMetadata
  <2>3. CASE node.observation # NONE
    <3>1. PICK e \in added : Says(node, e)
      BY <2>1, <2>3 DEF Caused
    <3>2. e \in Entries /\ e.observation = SectionHeader /\ e.kind = node.kind /\ e.meta = node.meta
      BY <1>2, <3>1, EntryFacts DEF Says
    <3>3. e.meta = NoMetadata /\ e.kind = Directory
      BY <3>2 DEF BuilderAssumptions, EntryAssumption, ParsedEntry, SectionHeader, FileEntry
    <3> QED BY <3>2, <3>3 DEF NoMetadata
  <2> QED BY <2>2, <2>3
<1> QED BY <1>1, <1>2

LEMMA PublishedContents ==
    ASSUME BuilderAssumptions, TreeInv, PresentInv, CausedBy(nodes, added),
           NEW table, table = [id \in DOMAIN nodes |-> Node(nodes[id])]
    PROVE  table # << >> /\ Shown(table) = Contents!Contents(added)
<1>1. /\ DOMAIN table = DOMAIN nodes
      /\ \A id \in DOMAIN nodes :
           /\ table[id].path = nodes[id].path /\ table[id].kind = nodes[id].kind
           /\ table[id].modified = nodes[id].meta.modified /\ table[id].size = nodes[id].meta.size
  BY DEF Node
<1>2. table # << >>
  <2>1. DOMAIN << >> = {}
    OBVIOUS
  <2> QED BY <1>1, <2>1, NodeFacts
<1> DEFINE Paths == { table[id].path : id \in DOMAIN table \ {Root} }
           Value(p) == LET node == CHOOSE n \in { table[id] : id \in DOMAIN table } : n.path = p
                       IN  [kind |-> node.kind, modified |-> node.modified,
                            size |-> IF node.kind = File THEN node.size ELSE NONE]
           Here(p) == { e \in added : e.path = p }
           Speaking(p) == { e \in Here(p) : e.observation # "section_header" }
           KindOf(p) == IF Here(p) = {} THEN "directory" ELSE (CHOOSE e \in Here(p) : TRUE).kind
           Said(p) ==
             [kind     |-> KindOf(p),
              modified |-> IF Speaking(p) = {} THEN NONE ELSE (CHOOSE e \in Speaking(p) : TRUE).meta.modified,
              size     |-> IF KindOf(p) = "file" THEN (CHOOSE e \in Speaking(p) : TRUE).meta.size ELSE NONE]
<1>3. Paths = Contents!Closure(added)
  <2>1. Paths = { nodes[id].path : id \in DOMAIN nodes \ {Root} }
    BY <1>1
  <2> QED BY <2>1, PathsAreTheClosure
<1>4. ASSUME NEW p \in Paths PROVE Value(p) = Said(p)
  <2>1. PICK id \in DOMAIN nodes \ {Root} : nodes[id].path = p
    BY <1>1
  <2> DEFINE node == CHOOSE n \in { table[i] : i \in DOMAIN table } : n.path = p
  <2>2. node = table[id]
    <3>1. \A a \in DOMAIN nodes : table[a].path = p => a = id
      BY <1>1, <2>1, PathsDiffer
    <3>2. id \in DOMAIN table /\ table[id].path = p
      BY <1>1, <2>1
    <3> QED BY <1>1, <3>1, <3>2
  <2>3. Value(p) = [kind |-> nodes[id].kind, modified |-> nodes[id].meta.modified,
                    size |-> IF nodes[id].kind = File THEN nodes[id].meta.size ELSE NONE]
    BY <1>1, <2>2
  <2>4. /\ \A e \in Here(p) : Holds(nodes[id], e)
        /\ Speaking(p) = {} => nodes[id].kind = Directory /\ nodes[id].meta.modified = NONE
    BY <2>1, EntriesAtNode DEF SectionHeader
  <2>5. KindOf(p) = nodes[id].kind
    <3>1. CASE Here(p) = {}
      BY <2>4, <3>1 DEF Directory
    <3>2. CASE Here(p) # {}
      BY <2>4, <3>2 DEF Holds
    <3> QED BY <3>1, <3>2
  <2>6. CASE Speaking(p) = {}
    BY <2>3, <2>4, <2>5, <2>6 DEF Directory, File
  <2>7. CASE Speaking(p) # {}
    <3>1. PICK e : e = CHOOSE x \in Speaking(p) : TRUE
      OBVIOUS
    <3>2. e \in Speaking(p) /\ e \in Here(p) /\ e.observation # SectionHeader
      BY <2>7, <3>1 DEF SectionHeader
    <3>3. nodes[id].meta.modified = e.meta.modified
          /\ (nodes[id].kind = File => nodes[id].meta.size = e.meta.size)
      BY <2>4, <3>2 DEF Holds
    <3> HIDE DEF KindOf, Speaking, Here, Value
    <3> QED BY <2>3, <2>5, <2>7, <3>1, <3>3 DEF File
  <2> QED BY <2>6, <2>7
<1>5. Shown(table) = [p \in Paths |-> Value(p)]
  BY DEF Shown
<1>6. Contents!Contents(added) = [p \in Contents!Closure(added) |-> Said(p)]
  BY DEF Contents!Contents
<1> HIDE DEF Paths, Value, Said
<1>7. [p \in Paths |-> Value(p)] = [p \in Paths |-> Said(p)]
  BY <1>4
<1> QED BY <1>2, <1>3, <1>5, <1>6, <1>7

-----------------------------------------------------------------------------
(* Every step is one of SnapshotContents or none.                          *)

LEMMA InitialContents ==
    ASSUME Init
    PROVE  Contents!Init
BY DEF Init, Contents!Init, Contents!NoVerdict, VisibleVerdict, VisibleContents

\* An iteration of the walk is invisible, and the last one an Accept.
LEMMA DescendImplements ==
    ASSUME BuilderAssumptions, TreeInv, PresentInv, call # Idle, NEW id, Descend(id),
           Exists => nodes[Existing].kind = Kind /\ (Final => Compatible(nodes[Existing], call.entry)),
           UNCHANGED <<finished, store>>
    PROVE  [Contents!Next]_(Contents!vars)
<1>1. UNCHANGED VisibleContents
  BY DEF VisibleContents
<1>2. CASE Final
  <2>1. call.entry \in { e \in Entries : ValidPath(e) } /\ ~finished
    BY WalkAt DEF TreeInv, WalkInv
  <2>2. \A f \in added : Contents!Agree(call.entry, f)
    BY <1>2, AcceptedAgree
  <2>3. /\ added' = added \cup {call.entry}
        /\ VisibleVerdict' = <<"accepted", call.entry>>
    BY <1>2 DEF Descend, VisibleVerdict
  <2>4. Contents!Accept(call.entry)
    BY <1>1, <2>1, <2>2, <2>3 DEF Contents!Accept, Contents!Acceptable
  <2> QED BY <2>1, <2>4 DEF Contents!Next
<1>3. CASE ~Final
  <2>1. UNCHANGED <<outcome, added, judged>>
    BY <1>3 DEF Descend
  <2> QED BY <1>1, <2>1 DEF Contents!vars, VisibleVerdict
<1> QED BY <1>2, <1>3

\* The invariant that the refinement needs.
ContentsInv == TreeInv /\ FreshInv /\ PresentInv /\ CauseInv

LEMMA StepImplements ==
    ASSUME BuilderAssumptions, ContentsInv, [Next]_vars
    PROVE  [Contents!Next]_(Contents!vars)
<1> TreeInv /\ FreshInv /\ PresentInv /\ CauseInv
  BY DEF ContentsInv
<1>1. CASE WalkNew
  <2>1. call # Idle /\ ~Exists /\ Descend(next_id) /\ UNCHANGED <<finished, store>>
    BY <1>1 DEF WalkNew
  <2> QED BY <2>1, DescendImplements
<1>2. CASE WalkExisting
  <2>1. /\ call # Idle /\ Exists /\ Descend(Existing) /\ UNCHANGED <<finished, store>>
        /\ nodes[Existing].kind = Kind /\ (Final => Compatible(nodes[Existing], call.entry))
    BY <1>2 DEF WalkExisting
  <2> QED BY <2>1, DescendImplements
<1>3. CASE WalkConflict
  <2>1. /\ call # Idle /\ Exists /\ UNCHANGED <<finished, store, added>>
        /\ \/ nodes[Existing].kind # Kind
           \/ Final /\ ~Compatible(nodes[Existing], call.entry)
        /\ VisibleVerdict' = <<"rejected", call.entry>>
    BY <1>3 DEF WalkConflict, VisibleVerdict
  <2>2. CausedBy(nodes, added)
    BY <2>1 DEF FreshInv, CauseInv, Exists, tree
  <2>3. \E f \in added : ~Contents!Agree(call.entry, f)
    BY <2>1, <2>2, ConflictDisagrees
  <2>4. call.entry \in Entries /\ ~finished /\ UNCHANGED VisibleContents
    BY <2>1, WalkAt DEF TreeInv, WalkInv, VisibleContents
  <2>5. Contents!Reject(call.entry)
    BY <2>1, <2>3, <2>4 DEF Contents!Reject, Contents!Acceptable
  <2> QED BY <2>4, <2>5 DEF Contents!Next
<1>4. CASE WriteFails
  <2>1. ~finished /\ UNCHANGED <<finished, store, added>> /\ VisibleVerdict' = <<"none", NONE>>
    BY <1>4 DEF WriteFails, TreeInv, WalkInv, VisibleVerdict
  <2>2. UNCHANGED VisibleContents
    BY <2>1 DEF VisibleContents
  <2> QED BY <2>1, <2>2 DEF Contents!Next, Contents!Fail, Contents!NoVerdict
<1>5. ASSUME NEW e \in Entries, Add(e) PROVE UNCHANGED Contents!vars
  BY <1>5 DEF Add, Contents!vars, VisibleVerdict, VisibleContents
<1>6. ASSUME NEW e \in Entries, AddInvalid(e) PROVE Contents!Next
  <2>1. /\ ~finished /\ ~ValidPath(e) /\ UNCHANGED <<finished, store, added>>
        /\ VisibleVerdict' = <<"rejected", e>>
    BY <1>6 DEF AddInvalid, VisibleVerdict
  <2>2. UNCHANGED VisibleContents
    BY <2>1 DEF VisibleContents
  <2>3. Contents!Reject(e)
    BY <2>1, <2>2 DEF Contents!Reject, Contents!Acceptable
  <2> QED BY <2>3 DEF Contents!Next
<1>7. CASE UseAfterFinish \/ Abort
  <2>1. /\ finished' = TRUE /\ UNCHANGED <<store, added>> /\ VisibleVerdict' = <<"none", NONE>>
    BY <1>7 DEF UseAfterFinish, Abort, VisibleVerdict
  <2>2. UNCHANGED VisibleContents
    BY <2>1 DEF VisibleContents
  <2> QED BY <2>1, <2>2 DEF Contents!Next, Contents!Discard, Contents!NoVerdict
<1>8. CASE Finish
  <2>1. /\ ~finished /\ finished' = TRUE /\ added' = added
        /\ store' = [id \in DOMAIN nodes |-> Node(nodes[id])]
        /\ VisibleVerdict' = <<"none", NONE>>
    BY <1>8 DEF Finish, VisibleVerdict
  <2>2. CausedBy(nodes, added)
    BY <1>8 DEF Finish, MayAdd, CauseInv
  <2>3. VisibleContents' = Contents!Contents(added)
    <3>1. PICK table : table = store'
      OBVIOUS
    <3>2. table # << >> /\ Shown(table) = Contents!Contents(added)
      BY <2>1, <2>2, <3>1, PublishedContents
    <3> QED BY <3>1, <3>2 DEF VisibleContents, Shown
  <2> QED BY <2>1, <2>3 DEF Contents!Next, Contents!Publish, Contents!NoVerdict
<1>9. CASE UNCHANGED vars
  BY <1>9 DEF vars, Contents!vars, VisibleVerdict, VisibleContents
<1> QED BY <1>1, <1>2, <1>3, <1>4, <1>5, <1>6, <1>7, <1>8, <1>9 DEF Next, Walk

\* What a builder accepts, refuses and publishes depends on the set of the accepted
\* entries alone: on no order, no inode and no walk.
THEOREM ContentsAreImplemented == Spec => ImplementsContents
<1>1. Init => ContentsInv /\ AtomicAdd /\ Contents!Init
  <2>1. Init => TreeInv /\ Contents!Init
    BY InitialTree, InitialContents
  <2>2. Init => FreshInv /\ PresentInv /\ AtomicAdd /\ CauseInv
    BY DEF Init, FreshInv, PresentInv, AtomicAdd, CauseInv, CausedBy
  <2> QED BY <2>1, <2>2 DEF ContentsInv
<1>2. ContentsInv /\ AtomicAdd /\ [Next]_vars
        => /\ ContentsInv' /\ AtomicAdd'
           /\ [Contents!Next]_(Contents!vars)
  <2> SUFFICES ASSUME ContentsInv, AtomicAdd, [Next]_vars
               PROVE  ContentsInv' /\ AtomicAdd' /\ [Contents!Next]_(Contents!vars)
    OBVIOUS
  <2>1. TreeInv /\ FreshInv /\ PresentInv /\ CauseInv
    BY DEF ContentsInv
  <2>2. TreeInv' /\ FreshInv' /\ AtomicAdd' /\ PresentInv' /\ CauseInv'
    BY <2>1, BuilderAssumptions, StepKeepsTree, StepKeepsFresh, StepKeepsPresent, StepKeepsCauses
  <2>3. [Contents!Next]_(Contents!vars)
    BY BuilderAssumptions, StepImplements
  <2> QED BY <2>2, <2>3 DEF ContentsInv
<1> QED
  BY <1>1, <1>2, PTL DEF Spec, ImplementsContents, Contents!Spec
=============================================================================
