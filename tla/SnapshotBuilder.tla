--------------------------- MODULE SnapshotBuilder ---------------------------
(***************************************************************************)
(* The node tree that both store builders grow, one add() at a time.       *)
(*                                                                         *)
(* InMemorySnapshotBuilder (store/memory/builder.py) keeps it in two       *)
(* dictionaries, SQLiteSnapshotBuilder (store/sqlite/builder.py) in the    *)
(* nodes table and its (parent_id, mounted_name) index; both walk the path *)
(* of the entry from the root and share components(), merge(),             *)
(* apply_entry() and content_values() of store/building.py.  The walk is   *)
(* modelled one loop iteration per step, because an add can fail in the    *)
(* middle of it.  Only the SQLite walk can also fail with an sqlite3 error *)
(* (WriteFails); _create_store aborts the builder after such a failure.    *)
(***************************************************************************)
EXTENDS Integers, Sequences, FiniteSets

CONSTANTS
    Names,      \* path components that encode to a legal mounted name
    BadName,    \* any component that components() refuses
    Times,      \* the modification times of entries
    Bytes,      \* the bytes of file contents
    NONE,       \* Python's None
    Entries     \* the ParsedEntry values the parser may yield

-----------------------------------------------------------------------------
(* ParsedEntry (model/parsed_entry.py), with the checks of __post_init__.  *)

Directory == "directory"
File      == "file"
NodeKind  == {Directory, File, "special"}   \* symlink and unknown act as special

SectionHeader  == "section_header"
DirectoryEntry == "directory_entry"
FileEntry      == "file_entry"
Observation    == {SectionHeader, DirectoryEntry, FileEntry}

Optional(S) == S \cup {NONE}

Metadata == [size : Optional(Nat), modified : Optional(Times), content : Optional(Seq(Bytes))]

NoMetadata == [size |-> NONE, modified |-> NONE, content |-> NONE]

LegalMetadata(kind, meta) ==
    /\ kind = Directory => meta.size = NONE /\ meta.content = NONE
    /\ kind = File /\ meta.content # NONE => meta.size = Len(meta.content)

\* What this repository's parser writes: directories are observed by a section
\* header, which carries no metadata, or by an entry, other kinds by a file entry.
\* The constructor asks for LegalMetadata only: a parser that some other package
\* registers could write headers with metadata, of which merge() keeps the first.
ParsedEntry ==
    { e \in [path : Seq(Names \cup {BadName}), kind : NodeKind,
             observation : Observation, meta : Metadata] :
        /\ LegalMetadata(e.kind, e.meta)
        /\ e.kind = Directory <=> e.observation # FileEntry
        /\ e.observation = SectionHeader => e.meta = NoMetadata }

NameAssumption  == BadName \notin Names /\ NONE \notin Names
ValueAssumption ==
    NONE \notin Nat /\ NONE \notin Times /\ NONE \notin Seq(Bytes) /\ NONE \notin Observation
EntryAssumption == Entries \subseteq ParsedEntry

ASSUME BuilderAssumptions == NameAssumption /\ ValueAssumption /\ EntryAssumption

-----------------------------------------------------------------------------
(* MutableNode and the operations of store/building.py.                    *)

Root == 1

MutableNode ==
    [parent : Optional(Nat), name : Optional(Names), path : Seq(Names),
     kind : NodeKind, observation : Optional(Observation), meta : Metadata]

RootNode ==
    [parent |-> NONE, name |-> NONE, path |-> << >>, kind |-> Directory,
     observation |-> NONE, meta |-> NoMetadata]

\* components(): at least one component, and every one of them mountable.
ValidPath(e) == e.path # << >> /\ \A i \in DOMAIN e.path : e.path[i] \in Names

\* apply_entry(): the node takes everything the entry says.
Apply(node, e) == [node EXCEPT !.observation = e.observation, !.meta = e.meta]

\* Fault: contents and times of a file are not compared.
CompatibleSizes(node, e) ==
    node.observation = NONE \/ node.kind # File \/ node.meta.size = e.meta.size

\* merge() raises ENTRY_CONFLICT when two observations of a node disagree: on
\* anything for a file, on the time for anything else.
Compatible(node, e) ==
    \/ node.observation = NONE
    \/ /\ node.kind = File
       /\ node.meta = e.meta
    \/ /\ node.kind # File
       /\ \/ SectionHeader \in {node.observation, e.observation}
          \/ node.meta.modified = e.meta.modified

\* Fault: the last observation wins.
MergeLast(node, e) == Apply(node, e)

\* The node after a merge() that did not raise.
Merge(node, e) ==
    IF \/ node.observation = NONE
       \/ node.observation = SectionHeader /\ e.observation # SectionHeader
    THEN Apply(node, e)
    ELSE node

ContentStatus == {"not_applicable", "present", "missing"}

\* Fault: an empty file is stored without its content.
ContentValuesRaw(node) ==
    [content |-> node.meta.content,
     status  |-> IF node.kind = Directory THEN "not_applicable"
                 ELSE IF node.kind = File /\ node.meta.content # NONE THEN "present"
                 ELSE "missing"]

\* content_values(): what finish() stores as the content of a node.
ContentValues(node) ==
    LET content == IF node.kind = File /\ node.meta.size = 0 /\ node.meta.content = NONE
                   THEN << >> ELSE node.meta.content
    IN  [content |-> content,
         status  |-> IF node.kind = Directory THEN "not_applicable"
                     ELSE IF node.kind = File /\ content # NONE THEN "present"
                     ELSE "missing"]

\* The immutable Node of a published store.
Node(node) ==
    [parent |-> node.parent, name |-> node.name, path |-> node.path, kind |-> node.kind,
     size |-> node.meta.size, modified |-> node.meta.modified,
     content |-> ContentValues(node).content, status |-> ContentValues(node).status]

-----------------------------------------------------------------------------
VARIABLES
    nodes,      \* _nodes, or the nodes table
    children,   \* _children, or the index on (parent_id, mounted_name)
    next_id,    \* _next_id, or _next_inode
    finished,   \* _finished
    call,       \* the add() in progress: its entry, loop index and parent_id
    outcome,    \* how the last call returned or raised
    store,      \* the nodes that finish() published, none before
    added,      \* history: the entries that add() accepted
    judged,     \* history: the entry that the last finished add() was about
    before      \* history: the tree when the last add() was called

tree == <<nodes, children, next_id>>
vars == <<nodes, children, next_id, finished, call, outcome, store, added, judged, before>>

Idle == [entry |-> NONE, index |-> 0, parent |-> 0]

Outcome == {"none", "added", "invalid_path", "conflict", "persistence_error",
            "runtime_error", "published", "aborted"}

Init ==
    /\ nodes    = [id \in {Root} |-> RootNode]
    /\ children = [id \in {Root} |-> << >>]
    /\ next_id  = 2
    /\ finished = FALSE
    /\ call     = Idle
    /\ outcome  = "none"
    /\ store    = << >>
    /\ added    = {}
    /\ judged   = NONE
    /\ before   = tree

-----------------------------------------------------------------------------
(* add(): the checks before the loop, then one action per branch of the    *)
(* loop body.                                                              *)

\* After an sqlite3 error the importer only aborts.
MayAdd == call = Idle /\ outcome # "persistence_error"

\* Fault: add() does not look at _finished.
AddAnyTime(e) ==
    /\ MayAdd /\ ValidPath(e)
    /\ call'   = [entry |-> e, index |-> 1, parent |-> Root]
    /\ before' = tree
    /\ UNCHANGED <<nodes, children, next_id, finished, outcome, store, added, judged>>

Add(e) ==
    /\ MayAdd /\ ~finished /\ ValidPath(e)
    /\ call'   = [entry |-> e, index |-> 1, parent |-> Root]
    /\ before' = tree
    /\ UNCHANGED <<nodes, children, next_id, finished, outcome, store, added, judged>>

AddInvalid(e) ==
    /\ MayAdd /\ ~finished /\ ~ValidPath(e)
    /\ outcome' = "invalid_path"
    /\ judged'  = e
    /\ before'  = tree
    /\ UNCHANGED <<nodes, children, next_id, finished, call, store, added>>

\* RuntimeError("builder is already finished"), from add() and from finish().
UseAfterFinish ==
    /\ MayAdd /\ finished
    /\ outcome' = "runtime_error"
    /\ UNCHANGED <<nodes, children, next_id, finished, call, store, added, judged, before>>

Component == call.entry.path[call.index]

Final     == call.index = Len(call.entry.path)
Kind      == IF Final THEN call.entry.kind ELSE Directory
Exists    == Component \in DOMAIN children[call.parent]
Existing  == children[call.parent][Component]

\* The loop goes on with the node id, or the add returns.
Descend(id) ==
    IF Final
    THEN /\ call'    = Idle
         /\ outcome' = "added"
         /\ added'   = added \cup {call.entry}
         /\ judged'  = call.entry
    ELSE /\ call'    = [call EXCEPT !.index = @ + 1, !.parent = id]
         /\ UNCHANGED <<outcome, added, judged>>

\* Fault: every node on the path gets the kind of the entry.
NewNodeOfEntryKind ==
    [parent |-> call.parent, name |-> Component, path |-> SubSeq(call.entry.path, 1, call.index),
     kind |-> call.entry.kind, observation |-> NONE, meta |-> NoMetadata]

NewNode ==
    [parent |-> call.parent, name |-> Component, path |-> SubSeq(call.entry.path, 1, call.index),
     kind |-> Kind, observation |-> NONE, meta |-> NoMetadata]

\* The node next_id is added under call.parent.
Insert(node) ==
    /\ next_id'  = next_id + 1
    /\ nodes'    = [id \in DOMAIN nodes \cup {next_id} |->
                      IF id = next_id THEN node ELSE nodes[id]]
    /\ children' = [id \in DOMAIN children \cup {next_id} |->
                      IF id = next_id THEN << >>
                      ELSE IF id = call.parent
                      THEN [n \in DOMAIN children[id] \cup {Component} |->
                              IF n = Component THEN next_id ELSE children[id][n]]
                      ELSE children[id]]

WalkNew ==
    /\ call # Idle /\ ~Exists
    /\ Insert(IF Final THEN Merge(NewNode, call.entry) ELSE NewNode)
    /\ Descend(next_id)
    /\ UNCHANGED <<finished, store, before>>

WalkExisting ==
    /\ call # Idle /\ Exists
    /\ nodes[Existing].kind = Kind
    /\ Final => Compatible(nodes[Existing], call.entry)
    /\ nodes' = IF Final THEN [nodes EXCEPT ![Existing] = Merge(@, call.entry)] ELSE nodes
    /\ Descend(Existing)
    /\ UNCHANGED <<children, next_id, finished, store, before>>

\* Fault: the id is taken before the child is looked up.
ConflictAfterId ==
    /\ call # Idle /\ Exists
    /\ \/ nodes[Existing].kind # Kind
       \/ Final /\ ~Compatible(nodes[Existing], call.entry)
    /\ call'    = Idle
    /\ outcome' = "conflict"
    /\ judged'  = call.entry
    /\ next_id' = next_id + 1
    /\ UNCHANGED <<nodes, children, finished, store, added, before>>

WalkConflict ==
    /\ call # Idle /\ Exists
    /\ \/ nodes[Existing].kind # Kind
       \/ Final /\ ~Compatible(nodes[Existing], call.entry)
    /\ call'    = Idle
    /\ outcome' = "conflict"
    /\ judged'  = call.entry
    /\ UNCHANGED <<nodes, children, next_id, finished, store, added, before>>

\* SQLite only: the SELECT or the UPDATE of an existing row fails, the INSERT
\* fails once the id is taken, or the UPDATE of the inserted row fails.
WriteFails ==
    /\ call # Idle
    /\ \/ UNCHANGED tree
       \/ ~Exists /\ next_id' = next_id + 1 /\ UNCHANGED <<nodes, children>>
       \/ ~Exists /\ Final /\ Insert(NewNode)
    /\ call'    = Idle
    /\ outcome' = "persistence_error"
    /\ UNCHANGED <<finished, store, added, judged, before>>

-----------------------------------------------------------------------------

Finish ==
    /\ MayAdd /\ ~finished
    /\ finished' = TRUE
    /\ outcome'  = "published"
    /\ store'    = [id \in DOMAIN nodes |-> Node(nodes[id])]
    /\ UNCHANGED <<nodes, children, next_id, call, added, judged, before>>

\* abort(), also what finish() of the SQLite builder does when it fails.  It
\* may follow any call, finish() included.
Abort ==
    /\ call = Idle
    /\ finished' = TRUE
    /\ outcome'  = "aborted"
    /\ UNCHANGED <<nodes, children, next_id, call, store, added, judged, before>>

Walk == WalkNew \/ WalkExisting \/ WalkConflict \/ WriteFails

Next ==
    \/ \E e \in Entries : Add(e) \/ AddInvalid(e)
    \/ Walk
    \/ UseAfterFinish
    \/ Finish
    \/ Abort

Spec == Init /\ [][Next]_vars

-----------------------------------------------------------------------------
(* Properties.                                                             *)

\* The one type invariant: ids in use are below next_id, and every id has a
\* node and a child map.
TypeOK ==
    /\ next_id \in Nat /\ next_id >= 2
    /\ DOMAIN nodes \subseteq 1 .. next_id - 1
    /\ DOMAIN children = DOMAIN nodes
    /\ \A id \in DOMAIN nodes :
         /\ nodes[id] \in MutableNode
         /\ DOMAIN children[id] \subseteq Names
         /\ \A n \in DOMAIN children[id] : children[id][n] \in DOMAIN nodes
    /\ finished \in BOOLEAN
    /\ outcome \in Outcome
    /\ added \subseteq Entries
    /\ call # Idle => /\ call.entry \in Entries /\ ValidPath(call.entry)
                      /\ call.index \in DOMAIN call.entry.path
                      /\ call.parent \in DOMAIN nodes

\* The nodes form a tree hanging off the root, whatever add() did, also in the
\* middle of a walk and after a failed write: every other node has an older
\* directory as its parent, its path is its parent's path and its own name, and
\* the child map is exactly the inverse of the parent links, so that siblings
\* have different names.
RootedTree ==
    /\ Root \in DOMAIN nodes /\ nodes[Root] = RootNode
    /\ \A id \in DOMAIN nodes \ {Root} :
         LET node == nodes[id]
         IN  /\ node.parent \in DOMAIN nodes /\ node.parent < id
             /\ nodes[node.parent].kind = Directory
             /\ node.name \in DOMAIN children[node.parent]
             /\ children[node.parent][node.name] = id
             /\ node.path = Append(nodes[node.parent].path, node.name)
    /\ \A id \in DOMAIN nodes : \A n \in DOMAIN children[id] :
         LET child == children[id][n]
         IN  child # Root /\ nodes[child].parent = id /\ nodes[child].name = n

\* An add() that raises BuildError leaves no trace: not the ancestors of the
\* entry, not an id.  The walk may have gone through many nodes by then, but a
\* conflict is only met where nothing had to be created.
AtomicAdd == outcome \in {"invalid_path", "conflict"} /\ call = Idle => tree = before

\* Every accepted entry is in the tree, at its path and with its kind; a file
\* has exactly the metadata of the entry and a directory the time of any
\* directory entry accepted for it, whichever order they came in.
AcceptedEntriesPresent ==
    call = Idle => \A e \in added : \E id \in DOMAIN nodes :
        LET node == nodes[id]
        IN  /\ node.path = e.path /\ node.kind = e.kind
            /\ node.kind = File => node.meta = e.meta
            /\ e.observation # SectionHeader => node.meta.modified = e.meta.modified

\* Node.__post_init__ (model/node.py) accepts every node that finish() makes, so
\* that finish() cannot fail on a tree that add() accepted; and what it
\* publishes has no synthesized file.
PublishedNodesValid ==
    \A id \in DOMAIN store :
        LET node == store[id]
        IN  /\ node.kind = Directory =>
                 node.size = NONE /\ node.content = NONE /\ node.status = "not_applicable"
            /\ node.kind = File =>
                 /\ node.status \in {"present", "missing"}
                 /\ node.status = "present" <=> node.content # NONE
                 /\ node.size = 0 => node.content = << >>
                 /\ node.content # NONE => node.size = Len(node.content)
                 /\ \E e \in added : e.path = node.path /\ e.meta.size = node.size

\* Once the builder is finished or aborted no call changes the tree or the
\* published store any more.
FrozenOnceFinished == [][finished => UNCHANGED <<tree, store>>]_vars

\* The builder implements SnapshotContents.  A walk in progress and a failed
\* write are invisible there; a verdict appears when add() returns or raises.
VisibleVerdict ==
    IF outcome = "added" THEN <<"accepted", judged>>
    ELSE IF outcome \in {"invalid_path", "conflict"} THEN <<"rejected", judged>>
    ELSE <<"none", NONE>>

VisibleContents ==
    IF store = << >> THEN NONE
    ELSE [p \in { store[id].path : id \in DOMAIN store \ {Root} } |->
            LET node == CHOOSE n \in { store[id] : id \in DOMAIN store } : n.path = p
            IN  [kind |-> node.kind, modified |-> node.modified,
                 size |-> IF node.kind = File THEN node.size ELSE NONE]]

Contents == INSTANCE SnapshotContents
    WITH Mountable <- { e \in Entries : ValidPath(e) }, accepted <- added,
         verdict <- VisibleVerdict, open <- ~finished, contents <- VisibleContents

ImplementsContents == Contents!Spec
=============================================================================
