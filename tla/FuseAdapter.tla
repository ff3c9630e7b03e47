----------------------------- MODULE FuseAdapter -----------------------------
(***************************************************************************)
(* SnapshotOperations (fuse/adapter/operations.py) and its kernel: lookup  *)
(* counts, file and directory handles, and directories read in pages.      *)
(*                                                                         *)
(* A handler has no await and runs as one step.  Its reply travels: the    *)
(* kernel takes a reference when it links the entry, and gives all of an   *)
(* inode's references back in a forget request that is queued while other  *)
(* lookups of that inode are answered.  Requests that the adapter refuses  *)
(* (ENOENT, ENOTDIR, EISDIR, EROFS) change nothing and are left out;       *)
(* getattr, access and the xattr handlers read the store only.             *)
(***************************************************************************)
EXTENDS Integers, Sequences, FiniteSets

CONSTANTS
    Inode,          \* the nodes of the store; 1 is the root
    Directory,      \* those that are directories
    Listing,        \* the children of a directory in the order of their names
    Fd,             \* descriptors the kernel can have open at a time
    MaxCount,       \* bound: outstanding references to one inode
    MaxPage,        \* bound: entries that fit into a buffer
    MaxHandle       \* bound: handles given out

ASSUME AdapterAssumptions ==
    /\ Inode \subseteq Nat \ {0} /\ Directory \subseteq Inode /\ 1 \in Directory
    /\ Listing \in [Directory -> Seq(Inode \ {1})]
    /\ \A d, e \in Directory : \A j \in DOMAIN Listing[d], k \in DOMAIN Listing[e] :
         Listing[d][j] = Listing[e][k] => d = e /\ j = k
    /\ \A i \in Inode \ {1} : \E d \in Directory : \E k \in DOMAIN Listing[d] : Listing[d][k] = i
    /\ MaxCount \in Nat /\ MaxHandle \in Nat /\ MaxPage \in Nat

VARIABLES
    lookup_counts,      \* _lookup_counts
    file_handles,       \* _file_handles: handle to inode
    directory_handles,  \* _directory_handles
    next_handle,        \* _next_handle
    nlookup,            \* kernel: references it holds on each inode
    replies,            \* entries on their way to the kernel
    forgets,            \* references on their way back, in forget requests
    descriptors         \* kernel: what each descriptor is open on, or Closed

handles == <<file_handles, directory_handles, next_handle, descriptors>>
counts  == <<lookup_counts, nlookup, replies, forgets>>
vars    == <<handles, counts>>

Opened(i, h) == [inode |-> i, handle |-> h, cookie |-> 0, seen |-> << >>, ended |-> FALSE]
Closed == Opened(0, 0)

\* A directory descriptor's cookie is the id of the last entry it was given, seen
\* what it was given up to there, and ended is set by an empty page.
Descriptor == [inode : Inode, handle : Nat, cookie : Nat, seen : Seq(Inode), ended : BOOLEAN]
Scans  == {fd \in Fd : descriptors[fd] # Closed /\ descriptors[fd].inode \in Directory}
Files  == {fd \in Fd : descriptors[fd] # Closed /\ descriptors[fd].inode \notin Directory}

Init ==
    /\ lookup_counts = << >> /\ file_handles = << >> /\ directory_handles = << >>
    /\ next_handle = 1
    /\ nlookup = [i \in Inode |-> 0]
    /\ replies = [i \in Inode |-> 0]
    /\ forgets = [i \in Inode |-> 0]
    /\ descriptors = [fd \in Fd |-> Closed]

-----------------------------------------------------------------------------
(* Lookup counts.                                                          *)

\* lookup_count(): absent inodes count zero.
Count(i) == IF i \in DOMAIN lookup_counts THEN lookup_counts[i] ELSE 0

\* _increment_lookup for every inode of a set.
Increment(S) == [i \in DOMAIN lookup_counts \cup S |-> IF i \in S THEN Count(i) + 1 ELSE Count(i)]

Children(d) == {Listing[d][k] : k \in DOMAIN Listing[d]}
Parent(i)   == IF i = 1 THEN 1 ELSE CHOOSE d \in Directory : i \in Children(d)

\* What lookup() finds in a directory: ".", ".." or a child.
Found(d) == {d, Parent(d)} \cup Children(d)

\* The kernel asks about inodes it has a reference to; it always has the root.
Known(i) == i = 1 \/ nlookup[i] > 0

Lookup(d, i) ==
    /\ d \in Directory /\ Known(d) /\ i \in Found(d)
    /\ Count(i) < MaxCount
    /\ lookup_counts' = Increment({i})
    /\ replies' = [replies EXCEPT ![i] = @ + 1]
    /\ UNCHANGED <<nlookup, forgets, handles>>

\* The kernel links one entry of a reply.
Link(i) ==
    /\ replies[i] > 0
    /\ replies' = [replies EXCEPT ![i] = @ - 1]
    /\ nlookup' = [nlookup EXCEPT ![i] = @ + 1]
    /\ UNCHANGED <<lookup_counts, forgets, handles>>

\* The kernel drops an inode that nothing uses: no descriptor, no cached child.
Evict(i) ==
    /\ i # 1 /\ nlookup[i] > 0
    /\ \A fd \in Fd : descriptors[fd].inode # i
    /\ i \in Directory => \A c \in Children(i) : nlookup[c] = 0 /\ replies[c] = 0
    /\ forgets' = [forgets EXCEPT ![i] = @ + nlookup[i]]
    /\ nlookup' = [nlookup EXCEPT ![i] = 0]
    /\ UNCHANGED <<lookup_counts, replies, handles>>

\* What forget() leaves of the counts.  An entry of zero references is skipped,
\* and two entries for one inode act like one with their sum:
\* max(0, max(0, c - a) - b) equals max(0, c - (a + b)).
Remaining(batch) ==
    [i \in {j \in DOMAIN lookup_counts : batch[j] = 0 \/ lookup_counts[j] > batch[j]} |->
        lookup_counts[i] - batch[i]]

Forget(batch) ==
    /\ \A i \in Inode : batch[i] <= forgets[i]
    /\ \E i \in Inode : batch[i] > 0
    /\ lookup_counts' = Remaining(batch)
    /\ forgets' = [i \in Inode |-> forgets[i] - batch[i]]
    /\ UNCHANGED <<nlookup, replies, handles>>

-----------------------------------------------------------------------------
(* Handles.  One counter serves both dictionaries.                         *)

\* Fault: the number of open handles in the place of a counter.
HandleByNumber == Cardinality(DOMAIN file_handles \cup DOMAIN directory_handles) + 1

\* _allocate_handle
AllocateHandle == next_handle

With(table, handle, i)  == [h \in DOMAIN table \cup {handle} |-> IF h = handle THEN i ELSE table[h]]
Without(table, handle) == [h \in DOMAIN table \ {handle} |-> table[h]]

Open(fd, i) ==
    /\ Known(i) /\ descriptors[fd] = Closed /\ next_handle <= MaxHandle
    /\ IF i \in Directory
         THEN /\ directory_handles' = With(directory_handles, AllocateHandle, i)
              /\ UNCHANGED file_handles
         ELSE /\ file_handles' = With(file_handles, AllocateHandle, i)
              /\ UNCHANGED directory_handles
    /\ next_handle' = next_handle + 1
    /\ descriptors' = [descriptors EXCEPT ![fd] = Opened(i, AllocateHandle)]
    /\ UNCHANGED counts

\* release() and releasedir(), which the kernel calls once for a descriptor.
Release(fd) ==
    /\ fd \in Files /\ descriptors[fd].handle \in DOMAIN file_handles
    /\ file_handles' = Without(file_handles, descriptors[fd].handle)
    /\ descriptors' = [descriptors EXCEPT ![fd] = Closed]
    /\ UNCHANGED <<directory_handles, next_handle, counts>>

Releasedir(fd) ==
    /\ fd \in Scans /\ descriptors[fd].handle \in DOMAIN directory_handles
    /\ directory_handles' = Without(directory_handles, descriptors[fd].handle)
    /\ descriptors' = [descriptors EXCEPT ![fd] = Closed]
    /\ UNCHANGED <<file_handles, next_handle, counts>>

-----------------------------------------------------------------------------
(* Directory pages.                                                        *)

\* Fault: the id of an entry is its own position, so that a page repeats the last one.
NextIdOfEntry(start_id, k) == start_id + k - 1

\* The id after the k-th entry of a page, from which the next page starts.
NextId(start_id, k) == start_id + k

\* Fault: the entry that did not fit is counted as well.
CountedWithRefused(children, accepted) ==
    {children[k] : k \in 1 .. IF accepted < Len(children) THEN accepted + 1 ELSE accepted}

\* The inodes of a page whose replies were accepted.
Counted(children, accepted) == {children[k] : k \in 1 .. accepted}

\* iter_children(inode, offset)
IterChildren(d, offset) == SubSeq(Listing[d], offset + 1, Len(Listing[d]))

\* readdir() into a buffer that has room for so many entries, at least
\* one.  Each accepted entry carries a reference.
Readdir(fd, room) ==
    /\ fd \in Scans /\ descriptors[fd].handle \in DOMAIN directory_handles
    /\ LET scan     == descriptors[fd]
           children == IterChildren(directory_handles[scan.handle], scan.cookie)
           accepted == IF room <= Len(children) THEN room ELSE Len(children)
       IN  /\ \A i \in Counted(children, accepted) : Count(i) < MaxCount
           /\ lookup_counts' = Increment(Counted(children, accepted))
           /\ replies' = [i \in Inode |->
                 IF \E k \in 1 .. accepted : children[k] = i THEN replies[i] + 1 ELSE replies[i]]
           /\ descriptors' = [descriptors EXCEPT ![fd] =
                 [scan EXCEPT !.cookie = IF accepted = 0 THEN @ ELSE NextId(@, accepted),
                              !.seen   = @ \o SubSeq(children, 1, accepted),
                              !.ended  = accepted = 0]]
    /\ UNCHANGED <<nlookup, forgets, file_handles, directory_handles, next_handle>>

\* The reader goes back to the position behind an entry it has seen.
Seekdir(fd, cookie) ==
    /\ fd \in Scans
    /\ descriptors' = [descriptors EXCEPT
         ![fd].cookie = cookie, ![fd].seen = SubSeq(@, 1, cookie), ![fd].ended = FALSE]
    /\ UNCHANGED <<file_handles, directory_handles, next_handle, counts>>

KernelStep ==
    \/ \E d, i \in Inode : Lookup(d, i)
    \/ \E i \in Inode : Link(i) \/ Evict(i)
    \/ \E batch \in [Inode -> 0 .. MaxCount] : Forget(batch)

DescriptorStep(fd) ==
    \/ \E i \in Inode : Open(fd, i)
    \/ Release(fd) \/ Releasedir(fd)
    \/ \E room \in 1 .. MaxPage : Readdir(fd, room)
    \/ \E cookie \in 0 .. descriptors[fd].cookie : Seekdir(fd, cookie)

Next == KernelStep \/ \E fd \in Fd : DescriptorStep(fd)

Spec == Init /\ [][Next]_vars

-----------------------------------------------------------------------------
(* Properties.                                                             *)

TypeOK ==
    /\ lookup_counts \in [DOMAIN lookup_counts -> Nat \ {0}] /\ DOMAIN lookup_counts \subseteq Inode
    /\ next_handle \in Nat \ {0}
    /\ DOMAIN file_handles \subseteq 1 .. next_handle - 1
    /\ DOMAIN directory_handles \subseteq 1 .. next_handle - 1
    /\ \A h \in DOMAIN file_handles : file_handles[h] \in Inode \ Directory
    /\ \A h \in DOMAIN directory_handles : directory_handles[h] \in Directory
    /\ nlookup \in [Inode -> Nat] /\ replies \in [Inode -> Nat] /\ forgets \in [Inode -> Nat]
    /\ descriptors \in [Fd -> Descriptor \cup {Closed}]

\* The adapter counts the references the kernel holds or that are on their way
\* to it or back, however lookups, pages, evictions and batches of forgets
\* interleave (_increment_lookup, forget).
CountsAgree == \A i \in Inode : Count(i) = nlookup[i] + replies[i] + forgets[i]

\* No descriptor is ever answered EBADF or about another inode, and no handle
\* outlives its descriptor (_allocate_handle, release, releasedir).
HandlesAgree ==
    /\ \A fd \in Scans : LET h == descriptors[fd].handle IN
         h \in DOMAIN directory_handles /\ directory_handles[h] = descriptors[fd].inode
    /\ \A fd \in Files : LET h == descriptors[fd].handle IN
         h \in DOMAIN file_handles /\ file_handles[h] = descriptors[fd].inode
    /\ DOMAIN directory_handles = {descriptors[fd].handle : fd \in Scans}
    /\ DOMAIN file_handles = {descriptors[fd].handle : fd \in Files}

\* A directory read in pages of any sizes, also from an earlier position again,
\* shows each child once and in order, and all of them at its end (readdir).
ScanExact ==
    \A fd \in Scans : LET scan == descriptors[fd] IN
        /\ scan.cookie <= Len(Listing[scan.inode])
        /\ scan.seen = SubSeq(Listing[scan.inode], 1, scan.cookie)
        /\ scan.ended => scan.cookie = Len(Listing[scan.inode])
=============================================================================
