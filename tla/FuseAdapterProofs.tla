-------------------------- MODULE FuseAdapterProofs --------------------------
(***************************************************************************)
(* Proofs that the adapter's lookup counts agree with the kernel's, that   *)
(* its handles stay with their descriptors, and that a directory read in   *)
(* pages is read exactly, for every tree and any number of descriptors.    *)
(***************************************************************************)
EXTENDS FuseAdapter, SequenceTheorems, TLAPS

\* Count(i) as a function of the dictionary.
CountIn(table, i) == IF i \in DOMAIN table THEN table[i] ELSE 0

TableTypes ==
    /\ DOMAIN lookup_counts \subseteq Inode
    /\ lookup_counts \in [DOMAIN lookup_counts -> Nat \ {0}]

FlowTypes == nlookup \in [Inode -> Nat] /\ replies \in [Inode -> Nat] /\ forgets \in [Inode -> Nat]

CountSums == \A i \in Inode : CountIn(lookup_counts, i) = nlookup[i] + replies[i] + forgets[i]

CountInv == TableTypes /\ FlowTypes /\ CountSums

\* The descriptors that are open on inodes of a kind: directories or other nodes.
OfKind(table, K) == {fd \in Fd : table[fd].inode \in K}

\* A dictionary names exactly the descriptors of its kind, each by one handle.
Agree(table, handle_table, K) ==
    /\ \A fd \in OfKind(table, K) : LET h == table[fd].handle IN
         h \in DOMAIN handle_table /\ handle_table[h] = table[fd].inode
    /\ \A h \in DOMAIN handle_table : \E fd \in OfKind(table, K) : table[fd].handle = h
    /\ \A fd, gd \in OfKind(table, K) : table[fd].handle = table[gd].handle => fd = gd

HandleTypes ==
    /\ next_handle \in Nat \ {0}
    /\ DOMAIN file_handles \subseteq 1 .. next_handle - 1
    /\ DOMAIN directory_handles \subseteq 1 .. next_handle - 1
    /\ descriptors \in [Fd -> Descriptor \cup {Closed}]

HandleInv ==
    /\ HandleTypes
    /\ Agree(descriptors, directory_handles, Directory)
    /\ Agree(descriptors, file_handles, Inode \ Directory)

-----------------------------------------------------------------------------
(* The counts.                                                             *)

\* _increment_lookup adds one reference to each inode of a set.
LEMMA IncrementCounts ==
    ASSUME TableTypes, NEW S, S \subseteq Inode
    PROVE  /\ DOMAIN Increment(S) \subseteq Inode
           /\ Increment(S) \in [DOMAIN Increment(S) -> Nat \ {0}]
           /\ \A i \in Inode : CountIn(Increment(S), i) =
                IF i \in S THEN CountIn(lookup_counts, i) + 1 ELSE CountIn(lookup_counts, i)
BY DEF TableTypes, Increment, Count, CountIn

\* forget() takes away what it is given, as long as that was counted.
LEMMA ForgetCounts ==
    ASSUME TableTypes, NEW batch \in [Inode -> Nat],
           \A i \in Inode : batch[i] <= CountIn(lookup_counts, i)
    PROVE  /\ DOMAIN Remaining(batch) \subseteq Inode
           /\ Remaining(batch) \in [DOMAIN Remaining(batch) -> Nat \ {0}]
           /\ \A i \in Inode : CountIn(Remaining(batch), i) = CountIn(lookup_counts, i) - batch[i]
BY DEF TableTypes, Remaining, CountIn

\* The entries of a page are inodes of the store.
LEMMA PageEntries ==
    ASSUME AdapterAssumptions, NEW d \in Directory, NEW offset \in Nat
    PROVE  /\ IterChildren(d, offset) \in Seq(Inode)
           /\ Len(IterChildren(d, offset)) =
                IF offset <= Len(Listing[d]) THEN Len(Listing[d]) - offset ELSE 0
           /\ Listing[d] \in Seq(Inode)
<1>1. Listing[d] \in Seq(Inode) /\ Len(Listing[d]) \in Nat
  BY DEF AdapterAssumptions
<1>2. \A k \in offset + 1 .. Len(Listing[d]) : Listing[d][k] \in Inode
  BY <1>1
<1>3. \A i \in Int, n \in Int :
         (\A k \in i .. n : Listing[d][k] \in Inode) =>
           /\ SubSeq(Listing[d], i, n) \in Seq(Inode)
           /\ Len(SubSeq(Listing[d], i, n)) = IF i <= n THEN n - i + 1 ELSE 0
  BY SubSeqProperties
<1>4. offset + 1 \in Int /\ Len(Listing[d]) \in Int
  BY <1>1
<1>5. /\ IterChildren(d, offset) \in Seq(Inode)
      /\ Len(IterChildren(d, offset)) =
           IF offset + 1 <= Len(Listing[d]) THEN Len(Listing[d]) - (offset + 1) + 1 ELSE 0
  BY <1>2, <1>3, <1>4, Zenon DEF IterChildren
<1>6. ASSUME NEW n \in Nat
      PROVE  (IF offset + 1 <= n THEN n - (offset + 1) + 1 ELSE 0) = IF offset <= n THEN n - offset ELSE 0
  OBVIOUS
<1>7. Len(IterChildren(d, offset)) = IF offset <= Len(Listing[d]) THEN Len(Listing[d]) - offset ELSE 0
  BY <1>1, <1>5, <1>6, Zenon
<1> QED
  BY <1>1, <1>5, <1>7, Zenon

-----------------------------------------------------------------------------
(* Steps that touch the counts, and steps that do not.                     *)

LEMMA CountInit == ASSUME Init PROVE CountInv
BY DEF Init, CountInv, TableTypes, FlowTypes, CountSums, CountIn

LEMMA CountStep ==
    ASSUME AdapterAssumptions, CountInv, HandleInv, [Next]_vars
    PROVE  CountInv'
<1>t. TableTypes
  BY DEF CountInv
<1>f. FlowTypes
  BY DEF CountInv
<1>s. CountSums
  BY DEF CountInv
<1>1. ASSUME NEW d \in Inode, NEW i \in Inode, Lookup(d, i) PROVE CountInv'
  <2>1. {i} \subseteq Inode /\ lookup_counts' = Increment({i})
    BY <1>1 DEF Lookup
  <2>2. /\ DOMAIN lookup_counts' \subseteq Inode
        /\ lookup_counts' \in [DOMAIN lookup_counts' -> Nat \ {0}]
        /\ \A j \in Inode : CountIn(lookup_counts', j) =
             IF j \in {i} THEN CountIn(lookup_counts, j) + 1 ELSE CountIn(lookup_counts, j)
    BY <1>t, <2>1, IncrementCounts, Zenon
  <2>3. nlookup' = nlookup /\ forgets' = forgets /\ replies' = [replies EXCEPT ![i] = @ + 1]
    BY <1>1 DEF Lookup
  <2>4. FlowTypes'
    BY <1>f, <2>3 DEF FlowTypes
  <2>5. /\ \A j \in Inode : nlookup[j] \in Nat /\ replies[j] \in Nat /\ forgets[j] \in Nat
        /\ \A j \in Inode : replies'[j] = IF j \in {i} THEN replies[j] + 1 ELSE replies[j]
    BY <1>f, <2>3 DEF FlowTypes
  <2>6. ASSUME NEW j \in Inode
        PROVE  CountIn(lookup_counts', j) = nlookup'[j] + replies'[j] + forgets'[j]
    <3>1. CountIn(lookup_counts, j) = nlookup[j] + replies[j] + forgets[j]
      BY <1>s DEF CountSums
    <3>2. /\ CountIn(lookup_counts', j) = IF j = i THEN CountIn(lookup_counts, j) + 1
                                                  ELSE CountIn(lookup_counts, j)
          /\ replies'[j] = IF j = i THEN replies[j] + 1 ELSE replies[j]
          /\ nlookup'[j] = nlookup[j] /\ forgets'[j] = forgets[j]
      BY <2>2, <2>3, <2>5
    <3> QED
      BY <2>5, <3>1, <3>2
  <2> QED
    BY <2>2, <2>4, <2>6 DEF CountInv, TableTypes, CountSums
<1>2. ASSUME NEW i \in Inode, Link(i) PROVE CountInv'
  <2>1. /\ lookup_counts' = lookup_counts /\ forgets' = forgets
        /\ replies[i] > 0 /\ replies' = [replies EXCEPT ![i] = @ - 1]
        /\ nlookup' = [nlookup EXCEPT ![i] = @ + 1]
    BY <1>2 DEF Link
  <2>2. FlowTypes'
    BY <1>f, <2>1 DEF FlowTypes
  <2>3. \A j \in Inode : nlookup'[j] + replies'[j] = nlookup[j] + replies[j]
    BY <1>f, <2>1 DEF FlowTypes
  <2>4. ASSUME NEW j \in Inode
        PROVE  CountIn(lookup_counts', j) = nlookup'[j] + replies'[j] + forgets'[j]
    <3>1. CountIn(lookup_counts', j) = nlookup[j] + replies[j] + forgets[j]
      BY <1>s, <2>1 DEF CountSums
    <3> QED
      BY <2>1, <2>3, <3>1
  <2> QED
    BY <1>t, <2>1, <2>2, <2>4 DEF CountInv, TableTypes, CountSums
<1>3. ASSUME NEW i \in Inode, Evict(i) PROVE CountInv'
  <2>1. /\ lookup_counts' = lookup_counts /\ replies' = replies
        /\ forgets' = [forgets EXCEPT ![i] = @ + nlookup[i]]
        /\ nlookup' = [nlookup EXCEPT ![i] = 0]
    BY <1>3 DEF Evict
  <2>2. FlowTypes'
    BY <1>f, <2>1 DEF FlowTypes
  <2>3. CountSums'
    BY <1>f, <1>s, <2>1 DEF FlowTypes, CountSums
  <2> QED
    BY <1>t, <2>1, <2>2, <2>3 DEF CountInv, TableTypes
<1>4. ASSUME NEW batch \in [Inode -> 0 .. MaxCount], Forget(batch) PROVE CountInv'
  <2>1. batch \in [Inode -> Nat]
    BY DEF AdapterAssumptions
  <2>2. \A i \in Inode : batch[i] <= forgets[i]
    BY <1>4 DEF Forget
  <2>3. \A i \in Inode : batch[i] <= CountIn(lookup_counts, i)
    BY <1>f, <1>s, <2>1, <2>2 DEF FlowTypes, CountSums
  <2>4. /\ DOMAIN lookup_counts' \subseteq Inode
        /\ lookup_counts' \in [DOMAIN lookup_counts' -> Nat \ {0}]
        /\ \A i \in Inode : CountIn(lookup_counts', i) = CountIn(lookup_counts, i) - batch[i]
    BY <1>4, <1>t, <2>1, <2>3, ForgetCounts DEF Forget
  <2>5. /\ nlookup' = nlookup /\ replies' = replies
        /\ forgets' = [i \in Inode |-> forgets[i] - batch[i]]
    BY <1>4 DEF Forget
  <2>6. FlowTypes'
    BY <1>f, <2>1, <2>2, <2>5 DEF FlowTypes
  <2>7. CountSums'
    BY <1>f, <1>s, <2>1, <2>2, <2>4, <2>5 DEF FlowTypes, CountSums
  <2> QED
    BY <2>4, <2>6, <2>7 DEF CountInv, TableTypes
<1>5. ASSUME NEW fd \in Fd, NEW room \in 1 .. MaxPage, Readdir(fd, room) PROVE CountInv'
  <2> DEFINE scan     == descriptors[fd]
             children == IterChildren(directory_handles[scan.handle], scan.cookie)
             accepted == IF room <= Len(children) THEN room ELSE Len(children)
             S        == Counted(children, accepted)
  <2>1. directory_handles[scan.handle] \in Directory /\ scan.cookie \in Nat
    <3>1. fd \in OfKind(descriptors, Directory) /\ descriptors[fd] \in Descriptor
      BY <1>5 DEF Readdir, HandleInv, HandleTypes, Scans, OfKind
    <3> QED
      BY <3>1 DEF HandleInv, Agree, Descriptor, OfKind
  <2>2. children \in Seq(Inode)
    BY <2>1, PageEntries
  <2>3. S \subseteq Inode
    <3> HIDE DEF children
    <3>1. accepted \in 0 .. Len(children)
      BY <2>2 DEF AdapterAssumptions
    <3> QED
      BY <2>2, <3>1 DEF Counted
  <2>4. lookup_counts' = Increment(S) /\ nlookup' = nlookup /\ forgets' = forgets
    BY <1>5 DEF Readdir
  <2>5. replies' = [i \in Inode |-> IF i \in S THEN replies[i] + 1 ELSE replies[i]]
    <3> HIDE DEF children
    <3>1. replies' = [i \in Inode |->
             IF \E k \in 1 .. accepted : children[k] = i THEN replies[i] + 1 ELSE replies[i]]
      BY <1>5 DEF Readdir, children
    <3> QED
      BY <3>1 DEF Counted
  <2> HIDE DEF S
  <2>6. /\ DOMAIN lookup_counts' \subseteq Inode
        /\ lookup_counts' \in [DOMAIN lookup_counts' -> Nat \ {0}]
        /\ \A j \in Inode : CountIn(lookup_counts', j) =
             IF j \in S THEN CountIn(lookup_counts, j) + 1 ELSE CountIn(lookup_counts, j)
    BY <1>t, <2>3, <2>4, IncrementCounts, Zenon
  <2>7. FlowTypes'
    BY <1>f, <2>4, <2>5 DEF FlowTypes
  <2>8. CountSums'
    BY <1>f, <1>s, <2>4, <2>5, <2>6, SMTT(30) DEF FlowTypes, CountSums
  <2> QED
    BY <2>6, <2>7, <2>8 DEF CountInv, TableTypes
<1>6. ASSUME UNCHANGED counts PROVE CountInv'
  BY <1>6 DEF counts, CountInv, TableTypes, FlowTypes, CountSums
<1>7. ASSUME NEW fd \in Fd, DescriptorStep(fd) PROVE CountInv'
  BY <1>5, <1>6, <1>7 DEF DescriptorStep, Open, Release, Releasedir, Seekdir
<1> QED
  BY <1>1, <1>2, <1>3, <1>4, <1>6, <1>7 DEF Next, KernelStep, vars

-----------------------------------------------------------------------------
(* Handles.                                                                *)

\* A closed descriptor is of no kind.
LEMMA KindsOfDescriptors ==
    ASSUME AdapterAssumptions, NEW table \in [Fd -> Descriptor \cup {Closed}]
    PROVE  /\ {fd \in Fd : table[fd] # Closed /\ table[fd].inode \in Directory} = OfKind(table, Directory)
           /\ {fd \in Fd : table[fd] # Closed /\ table[fd].inode \notin Directory}
                = OfKind(table, Inode \ Directory)
           /\ \A fd \in Fd : table[fd] # Closed => table[fd] \in Descriptor
<1>1. Closed.inode = 0 /\ 0 \notin Inode /\ Directory \subseteq Inode
  BY DEF Closed, Opened, AdapterAssumptions
<1>2. ASSUME NEW fd \in Fd, table[fd] # Closed PROVE table[fd] \in Descriptor /\ table[fd].inode \in Inode
  BY <1>2 DEF Descriptor
<1> QED
  BY <1>1, <1>2 DEF OfKind

\* An open that adds a handle the dictionary does not have keeps the agreement.
LEMMA AgreeOpen ==
    ASSUME NEW table, DOMAIN table = Fd, NEW handle_table, NEW K, Agree(table, handle_table, K),
           NEW fd \in Fd, NEW i \in K, NEW h, h \notin DOMAIN handle_table, fd \notin OfKind(table, K)
    PROVE  Agree([table EXCEPT ![fd] = Opened(i, h)], With(handle_table, h, i), K)
<1> DEFINE T == [table EXCEPT ![fd] = Opened(i, h)]
           H == With(handle_table, h, i)
<1>1. /\ T[fd].inode = i /\ T[fd].handle = h
      /\ \A gd \in Fd \ {fd} : T[gd] = table[gd]
  BY DEF Opened
<1>2. /\ DOMAIN H = DOMAIN handle_table \cup {h} /\ H[h] = i
      /\ \A g \in DOMAIN handle_table : H[g] = handle_table[g]
  BY DEF With
<1> HIDE DEF T, H
<1>3. OfKind(T, K) = OfKind(table, K) \cup {fd}
  BY <1>1 DEF OfKind
<1>4. fd \notin OfKind(table, K) /\ OfKind(table, K) \subseteq Fd
  BY DEF OfKind
<1>5. \A gd \in OfKind(T, K) : T[gd].handle \in DOMAIN H /\ H[T[gd].handle] = T[gd].inode
  BY <1>1, <1>2, <1>3, <1>4 DEF Agree
<1>6. \A g \in DOMAIN H : \E gd \in OfKind(T, K) : T[gd].handle = g
  BY <1>1, <1>2, <1>3, <1>4 DEF Agree
<1>7. \A gd, ed \in OfKind(T, K) : T[gd].handle = T[ed].handle => gd = ed
  BY <1>1, <1>3, <1>4 DEF Agree
<1>8. Agree(T, H, K)
  BY <1>5, <1>6, <1>7 DEF Agree
<1> QED
  BY <1>8 DEF T, H

\* release() and releasedir() take the one handle of the descriptor.
LEMMA AgreeRelease ==
    ASSUME NEW table, DOMAIN table = Fd, NEW handle_table, NEW K, 0 \notin K, Agree(table, handle_table, K),
           NEW fd \in OfKind(table, K)
    PROVE  Agree([table EXCEPT ![fd] = Closed], Without(handle_table, table[fd].handle), K)
<1> DEFINE T == [table EXCEPT ![fd] = Closed]
           H == Without(handle_table, table[fd].handle)
<1>1. fd \in Fd /\ T[fd].inode = 0 /\ \A gd \in Fd \ {fd} : T[gd] = table[gd]
  BY DEF OfKind, Closed, Opened
<1>2. /\ DOMAIN H = DOMAIN handle_table \ {table[fd].handle}
      /\ \A g \in DOMAIN H : H[g] = handle_table[g]
  BY DEF Without
<1> HIDE DEF T, H
<1>3. OfKind(T, K) = OfKind(table, K) \ {fd} /\ OfKind(table, K) \subseteq Fd
  BY <1>1 DEF OfKind
<1>4. \A gd \in OfKind(T, K) : T[gd].handle \in DOMAIN H /\ H[T[gd].handle] = T[gd].inode
  BY <1>1, <1>2, <1>3 DEF Agree
<1>5. \A g \in DOMAIN H : \E gd \in OfKind(T, K) : T[gd].handle = g
  BY <1>1, <1>2, <1>3 DEF Agree
<1>6. \A gd, ed \in OfKind(T, K) : T[gd].handle = T[ed].handle => gd = ed
  BY <1>1, <1>3 DEF Agree
<1>7. Agree(T, H, K)
  BY <1>4, <1>5, <1>6 DEF Agree
<1> QED
  BY <1>7 DEF T, H

\* What leaves inode and handle of the descriptors of a kind alone keeps it.
LEMMA AgreeSame ==
    ASSUME NEW table, NEW later, NEW handle_table, NEW K, Agree(table, handle_table, K),
           OfKind(later, K) = OfKind(table, K),
           \A fd \in OfKind(table, K) :
             later[fd].inode = table[fd].inode /\ later[fd].handle = table[fd].handle
    PROVE  Agree(later, handle_table, K)
BY DEF Agree

-----------------------------------------------------------------------------
(* Pages.                                                                  *)

\* A prefix of a sequence and the next entries of its rest are a prefix.
LEMMA PrefixGrows ==
    ASSUME NEW S, NEW s \in Seq(S), NEW c \in 0 .. Len(s), NEW n \in 0 .. Len(s) - c
    PROVE  SubSeq(s, 1, c) \o SubSeq(SubSeq(s, c + 1, Len(s)), 1, n) = SubSeq(s, 1, c + n)
<1>1. Len(s) \in Nat /\ c \in Nat /\ n \in Nat
  OBVIOUS
<1>2. SubSeq(SubSeq(s, c + 1, Len(s)), 1, n) = SubSeq(s, c + 1, c + n)
  <2>1. CASE n = 0
    <3>1. 1 \in Int /\ 0 \in Int /\ 0 < 1 /\ c + 1 \in Int /\ c + 0 \in Int /\ c + 0 < c + 1
      BY <1>1
    <3>2. (\A q : SubSeq(q, 1, 0) = << >>) /\ SubSeq(s, c + 1, c + 0) = << >>
      BY <3>1, SubSeqEmpty, Zenon
    <3> QED
      BY <2>1, <3>2
  <2>2. CASE n # 0
    <3>1. /\ c + 1 \in 1 .. Len(s) /\ Len(s) \in 1 .. Len(s)
          /\ 1 \in 1 .. Len(s) - (c + 1) + 1 /\ n \in 1 .. Len(s) - (c + 1) + 1
      BY <1>1, <2>2
    <3>2. SubSeq(SubSeq(s, c + 1, Len(s)), 1, n) = SubSeq(s, c + 1 + 1 - 1, c + 1 + n - 1)
      BY <3>1, SubSeqOfSubSeq
    <3>3. c + 1 + 1 - 1 = c + 1 /\ c + 1 + n - 1 = c + n
      BY <1>1
    <3> QED
      BY <3>2, <3>3, Zenon
  <2> QED
    BY <2>1, <2>2
<1>3. 1 \in 1 .. Len(s) + 1 /\ c \in 1 - 1 .. Len(s) /\ c + n \in c .. Len(s)
  BY <1>1
<1>4. SubSeq(s, 1, c) \o SubSeq(s, c + 1, c + n) = SubSeq(s, 1, c + n)
  BY <1>3, ConcatAdjacentSubSeq
<1> QED
  BY <1>2, <1>4, Zenon

\* A page continues what was read.
LEMMA PageContinues ==
    ASSUME AdapterAssumptions, NEW d \in Directory, NEW c \in 0 .. Len(Listing[d]),
           NEW n \in 0 .. Len(Listing[d]) - c
    PROVE  /\ SubSeq(Listing[d], 1, c) \o SubSeq(IterChildren(d, c), 1, n) = SubSeq(Listing[d], 1, c + n)
           /\ c + n \in 0 .. Len(Listing[d])
<1>1. Listing[d] \in Seq(Inode) /\ Len(Listing[d]) \in Nat /\ c \in Nat
  BY PageEntries
<1>2. SubSeq(Listing[d], 1, c) \o SubSeq(SubSeq(Listing[d], c + 1, Len(Listing[d])), 1, n)
        = SubSeq(Listing[d], 1, c + n)
  BY <1>1, PrefixGrows
<1>3. c + n \in 0 .. Len(Listing[d])
  BY <1>1
<1> QED
  BY <1>2, <1>3, Zenon DEF IterChildren

\* Going back keeps what was read before the new position.
LEMMA SeekKeeps ==
    ASSUME AdapterAssumptions, NEW d \in Directory, NEW c \in 0 .. Len(Listing[d]), NEW k \in 0 .. c
    PROVE  SubSeq(SubSeq(Listing[d], 1, c), 1, k) = SubSeq(Listing[d], 1, k)
<1>1. Listing[d] \in Seq(Inode) /\ Len(Listing[d]) \in Nat /\ 0 \in Int /\ 1 \in Int /\ 0 < 1
  BY PageEntries
<1>2. CASE k = 0
  <2>1. \A s : SubSeq(s, 1, 0) = << >>
    BY <1>1, SubSeqEmpty, Zenon
  <2> QED
    BY <1>2, <2>1
<1>3. CASE k # 0
  <2>1. /\ 1 \in 1 .. Len(Listing[d]) /\ c \in 1 .. Len(Listing[d])
        /\ 1 \in 1 .. c - 1 + 1 /\ k \in 1 .. c - 1 + 1
    BY <1>1, <1>3
  <2>2. SubSeq(SubSeq(Listing[d], 1, c), 1, k) = SubSeq(Listing[d], 1 + 1 - 1, 1 + k - 1)
    BY <1>1, <2>1, SubSeqOfSubSeq
  <2>3. 1 + 1 - 1 = 1 /\ 1 + k - 1 = k
    OBVIOUS
  <2> QED
    BY <2>2, <2>3, Zenon
<1> QED
  BY <1>2, <1>3

\* What a reader has seen is a sequence of inodes.
LEMMA SeenTyped ==
    ASSUME AdapterAssumptions, NEW d \in Directory, NEW c \in 0 .. Len(Listing[d])
    PROVE  SubSeq(Listing[d], 1, c) \in Seq(Inode)
<1>1. Listing[d] \in Seq(Inode) /\ Len(Listing[d]) \in Nat
  BY PageEntries
<1>2. 1 \in Int /\ c \in Int /\ \A k \in 1 .. c : Listing[d][k] \in Inode
  BY <1>1
<1> QED
  BY <1>2, SubSeqProperties, Zenon

-----------------------------------------------------------------------------
(* Steps on descriptors.                                                   *)

\* ScanExact, said of the descriptors that are open on a directory.
ScanInv ==
    \A fd \in OfKind(descriptors, Directory) : LET scan == descriptors[fd] IN
        /\ scan.cookie \in 0 .. Len(Listing[scan.inode])
        /\ scan.seen = SubSeq(Listing[scan.inode], 1, scan.cookie)
        /\ scan.ended => scan.cookie = Len(Listing[scan.inode])

LEMMA ScanInvMeans ==
    ASSUME AdapterAssumptions, HandleTypes
    PROVE  ScanExact <=> ScanInv
<1>1. Scans = OfKind(descriptors, Directory)
  BY KindsOfDescriptors DEF HandleTypes, Scans
<1>2. ASSUME NEW fd \in OfKind(descriptors, Directory)
      PROVE  /\ descriptors[fd].cookie \in Nat
             /\ Len(Listing[descriptors[fd].inode]) \in Nat
  <2>1. descriptors[fd].inode \in Directory /\ descriptors[fd] \in Descriptor
    BY <1>1, KindsOfDescriptors DEF HandleTypes, OfKind, Scans
  <2>2. descriptors[fd].cookie \in Nat
    BY <2>1 DEF Descriptor
  <2>3. Listing[descriptors[fd].inode] \in Seq(Inode)
    <3>1. \A d \in Directory : Listing[d] \in Seq(Inode)
      BY PageEntries
    <3> QED
      BY <2>1, <3>1
  <2> QED
    BY <2>2, <2>3
<1> QED
  BY <1>1, <1>2 DEF ScanExact, ScanInv

LEMMA OpenStep ==
    ASSUME AdapterAssumptions, HandleInv, ScanInv, NEW fd \in Fd, NEW i \in Inode, Open(fd, i)
    PROVE  HandleInv' /\ ScanInv'
<1> DEFINE T == [descriptors EXCEPT ![fd] = Opened(i, next_handle)]
<1>1. descriptors[fd] = Closed /\ descriptors' = T /\ next_handle' = next_handle + 1
  BY DEF Open, AllocateHandle
<1>2. /\ next_handle \in Nat \ {0} /\ descriptors \in [Fd -> Descriptor \cup {Closed}]
      /\ next_handle \notin DOMAIN file_handles /\ next_handle \notin DOMAIN directory_handles
  BY DEF HandleInv, HandleTypes
<1>3. fd \notin OfKind(descriptors, Directory) /\ fd \notin OfKind(descriptors, Inode \ Directory)
  BY <1>1 DEF OfKind, Closed, Opened, AdapterAssumptions
<1>4. Opened(i, next_handle) \in Descriptor /\ Opened(i, next_handle).inode = i
  <2>1. Opened(i, next_handle) =
          [inode |-> i, handle |-> next_handle, cookie |-> 0, seen |-> << >>, ended |-> FALSE]
    BY DEF Opened
  <2>2. next_handle \in Nat /\ 0 \in Nat /\ << >> \in Seq(Inode) /\ FALSE \in BOOLEAN
    BY <1>2
  <2> QED
    BY <2>1, <2>2 DEF Descriptor
<1>5. T \in [Fd -> Descriptor \cup {Closed}] /\ T[fd].inode = i /\ \A gd \in Fd \ {fd} : T[gd] = descriptors[gd]
  BY <1>2, <1>4
<1>6. ASSUME NEW K, i \notin K, fd \notin OfKind(descriptors, K)
      PROVE  OfKind(T, K) = OfKind(descriptors, K) /\ \A gd \in OfKind(T, K) : T[gd] = descriptors[gd]
  <2> HIDE DEF T
  <2> QED
    BY <1>5, <1>6 DEF OfKind
<1>7. CASE i \in Directory
  <2>1. directory_handles' = With(directory_handles, next_handle, i) /\ file_handles' = file_handles
    BY <1>7 DEF Open, AllocateHandle
  <2>2. Agree(T, directory_handles', Directory)
    BY <1>2, <1>3, <1>7, <2>1, AgreeOpen DEF HandleInv
  <2>3. Agree(T, file_handles', Inode \ Directory)
    <3> HIDE DEF T
    <3> QED
      BY <1>3, <1>6, <1>7, <2>1, AgreeSame DEF HandleInv
  <2>4. DOMAIN directory_handles' = DOMAIN directory_handles \cup {next_handle}
    BY <2>1 DEF With
  <2>5. HandleTypes'
    <3> HIDE DEF T
    <3> QED
      BY <1>1, <1>2, <1>5, <2>1, <2>4 DEF HandleInv, HandleTypes
  <2> QED
    <3>1. HandleInv'
      BY <1>1, <2>2, <2>3, <2>5 DEF HandleInv
    <3>2. OfKind(T, Directory) = OfKind(descriptors, Directory) \cup {fd}
      <4> HIDE DEF T
      <4> QED
        BY <1>5, <1>7 DEF OfKind
    <3>3. Opened(i, next_handle).cookie = 0 /\ Opened(i, next_handle).seen = << >> /\ ~Opened(i, next_handle).ended
      BY DEF Opened
    <3>4. Len(Listing[i]) \in Nat /\ SubSeq(Listing[i], 1, 0) = << >>
      <4>1. 1 \in Int /\ 0 \in Int /\ 0 < 1
        OBVIOUS
      <4> QED
        BY <1>7, <4>1, PageEntries, SubSeqEmpty
    <3>5. T[fd] = Opened(i, next_handle) /\ fd \notin OfKind(descriptors, Directory)
      BY <1>2, <1>3
    <3>6. \A gd \in OfKind(descriptors, Directory) : T[gd] = descriptors[gd]
      BY <1>3, <1>5 DEF OfKind
    <3> HIDE DEF T
    <3>7. ASSUME NEW gd \in OfKind(T, Directory)
          PROVE  /\ T[gd].cookie \in 0 .. Len(Listing[T[gd].inode])
                 /\ T[gd].seen = SubSeq(Listing[T[gd].inode], 1, T[gd].cookie)
                 /\ T[gd].ended => T[gd].cookie = Len(Listing[T[gd].inode])
      <4>1. CASE gd = fd
        <5>1. T[gd].cookie = 0 /\ T[gd].seen = << >> /\ T[gd].ended = FALSE /\ T[gd].inode = i
          BY <1>4, <3>3, <3>5, <4>1
        <5>2. 0 \in 0 .. Len(Listing[i])
          BY <3>4
        <5> QED
          BY <3>4, <5>1, <5>2
      <4>2. CASE gd # fd
        <5>1. gd \in OfKind(descriptors, Directory) /\ T[gd] = descriptors[gd]
          BY <3>2, <3>6, <4>2
        <5> QED
          BY <5>1 DEF ScanInv
      <4> QED
        BY <4>1, <4>2
    <3>8. ScanInv'
      BY <1>1, <3>7 DEF ScanInv
    <3> QED
      BY <3>1, <3>8
<1>8. CASE i \notin Directory
  <2>1. file_handles' = With(file_handles, next_handle, i) /\ directory_handles' = directory_handles
    BY <1>8 DEF Open, AllocateHandle
  <2>2. Agree(T, file_handles', Inode \ Directory)
    BY <1>2, <1>3, <1>8, <2>1, AgreeOpen DEF HandleInv
  <2>3. OfKind(T, Directory) = OfKind(descriptors, Directory) /\ \A gd \in OfKind(T, Directory) : T[gd] = descriptors[gd]
    BY <1>3, <1>6, <1>8
  <2>4. DOMAIN file_handles' = DOMAIN file_handles \cup {next_handle}
    BY <2>1 DEF With
  <2> HIDE DEF T
  <2>5. Agree(T, directory_handles', Directory)
    BY <2>1, <2>3, AgreeSame DEF HandleInv
  <2>6. HandleTypes'
    BY <1>1, <1>2, <1>5, <2>1, <2>4 DEF HandleInv, HandleTypes
  <2>7. ScanInv'
    BY <1>1, <2>3 DEF ScanInv
  <2> QED
    BY <1>1, <2>2, <2>5, <2>6, <2>7 DEF HandleInv
<1> QED
  BY <1>7, <1>8

\* Closing a descriptor leaves those of the other kind alone.
LEMMA CloseStep ==
    ASSUME AdapterAssumptions, HandleInv, ScanInv, NEW fd \in Fd, Release(fd) \/ Releasedir(fd)
    PROVE  HandleInv' /\ ScanInv'
<1> DEFINE T == [descriptors EXCEPT ![fd] = Closed]
<1>1. /\ descriptors \in [Fd -> Descriptor \cup {Closed}] /\ T \in [Fd -> Descriptor \cup {Closed}]
      /\ descriptors' = T /\ next_handle' = next_handle
      /\ T[fd].inode = 0 /\ \A gd \in Fd \ {fd} : T[gd] = descriptors[gd]
  BY DEF HandleInv, HandleTypes, Release, Releasedir, Closed, Opened
<1>2. Scans = OfKind(descriptors, Directory) /\ Files = OfKind(descriptors, Inode \ Directory)
  BY <1>1, KindsOfDescriptors DEF Scans, Files
<1>3. 0 \notin Inode /\ 0 \notin Directory
  BY DEF AdapterAssumptions
<1>4. ASSUME NEW K, 0 \notin K
      PROVE  /\ OfKind(T, K) = OfKind(descriptors, K) \ {fd}
             /\ \A gd \in OfKind(T, K) : T[gd] = descriptors[gd]
  <2> HIDE DEF T
  <2> QED
    BY <1>1, <1>4 DEF OfKind
<1>5. ScanInv'
  <2>1. \A gd \in OfKind(T, Directory) : gd \in OfKind(descriptors, Directory) /\ T[gd] = descriptors[gd]
    BY <1>3, <1>4
  <2> HIDE DEF T
  <2> QED
    BY <1>1, <2>1 DEF ScanInv
<1>6. CASE Release(fd)
  <2>1. /\ fd \in OfKind(descriptors, Inode \ Directory)
        /\ file_handles' = Without(file_handles, descriptors[fd].handle)
        /\ directory_handles' = directory_handles
    BY <1>2, <1>6 DEF Release
  <2>2. Agree(T, file_handles', Inode \ Directory)
    BY <1>1, <1>3, <2>1, AgreeRelease DEF HandleInv
  <2>3. DOMAIN file_handles' \subseteq DOMAIN file_handles
    BY <2>1 DEF Without
  <2>4. fd \notin OfKind(descriptors, Directory)
    BY <2>1 DEF OfKind
  <2>5. OfKind(T, Directory) = OfKind(descriptors, Directory) /\ \A gd \in OfKind(T, Directory) : T[gd] = descriptors[gd]
    <3>1. /\ OfKind(T, Directory) = OfKind(descriptors, Directory) \ {fd}
          /\ \A gd \in OfKind(T, Directory) : T[gd] = descriptors[gd]
      BY <1>3, <1>4
    <3> HIDE DEF T
    <3> QED
      BY <2>4, <3>1
  <2> HIDE DEF T
  <2>6. Agree(T, directory_handles', Directory)
    BY <2>1, <2>5, AgreeSame DEF HandleInv
  <2>7. HandleTypes'
    BY <1>1, <2>1, <2>3 DEF HandleInv, HandleTypes
  <2> QED
    BY <1>1, <1>5, <2>2, <2>6, <2>7 DEF HandleInv
<1>7. CASE Releasedir(fd)
  <2>1. /\ fd \in OfKind(descriptors, Directory)
        /\ directory_handles' = Without(directory_handles, descriptors[fd].handle)
        /\ file_handles' = file_handles
    BY <1>2, <1>7 DEF Releasedir
  <2>2. Agree(T, directory_handles', Directory)
    BY <1>1, <1>3, <2>1, AgreeRelease DEF HandleInv
  <2>3. DOMAIN directory_handles' \subseteq DOMAIN directory_handles
    BY <2>1 DEF Without
  <2>4. fd \notin OfKind(descriptors, Inode \ Directory)
    BY <2>1 DEF OfKind
  <2>5. /\ OfKind(T, Inode \ Directory) = OfKind(descriptors, Inode \ Directory)
        /\ \A gd \in OfKind(T, Inode \ Directory) : T[gd] = descriptors[gd]
    <3> HIDE DEF T
    <3> QED
      BY <1>1, <1>3, <2>4 DEF OfKind
  <2> HIDE DEF T
  <2>6. Agree(T, file_handles', Inode \ Directory)
    BY <2>1, <2>5, AgreeSame DEF HandleInv
  <2>7. HandleTypes'
    BY <1>1, <2>1, <2>3 DEF HandleInv, HandleTypes
  <2> QED
    BY <1>1, <1>5, <2>2, <2>6, <2>7 DEF HandleInv
<1> QED
  BY <1>6, <1>7

\* A step that only moves a directory's reader, to where it has read exactly.
LEMMA MoveStep ==
    ASSUME AdapterAssumptions, HandleInv, ScanInv,
           NEW fd \in OfKind(descriptors, Directory), NEW moved \in Descriptor,
           moved.inode = descriptors[fd].inode, moved.handle = descriptors[fd].handle,
           moved.cookie \in 0 .. Len(Listing[moved.inode]),
           moved.seen = SubSeq(Listing[moved.inode], 1, moved.cookie),
           moved.ended => moved.cookie = Len(Listing[moved.inode]),
           descriptors' = [descriptors EXCEPT ![fd] = moved],
           file_handles' = file_handles, directory_handles' = directory_handles, next_handle' = next_handle
    PROVE  HandleInv' /\ ScanInv'
<1> DEFINE T == [descriptors EXCEPT ![fd] = moved]
<1>1. /\ fd \in Fd /\ descriptors[fd].inode \in Directory
      /\ descriptors \in [Fd -> Descriptor \cup {Closed}] /\ T \in [Fd -> Descriptor \cup {Closed}]
      /\ T[fd] = moved /\ \A gd \in Fd \ {fd} : T[gd] = descriptors[gd]
  BY DEF HandleInv, HandleTypes, OfKind
<1>2. descriptors' = T
  OBVIOUS
<1> HIDE DEF T
<1>3. \A gd \in Fd : T[gd].inode = descriptors[gd].inode /\ T[gd].handle = descriptors[gd].handle
  BY <1>1
<1>4. \A K : OfKind(T, K) = OfKind(descriptors, K) /\ OfKind(descriptors, K) \subseteq Fd
  BY <1>3 DEF OfKind
<1>5. Agree(T, directory_handles, Directory)
  BY <1>3, <1>4, AgreeSame DEF HandleInv
<1>6. Agree(T, file_handles, Inode \ Directory)
  BY <1>3, <1>4, AgreeSame DEF HandleInv
<1>7. HandleTypes'
  BY <1>1, <1>2 DEF HandleInv, HandleTypes
<1>8. ASSUME NEW gd \in OfKind(T, Directory)
      PROVE  /\ T[gd].cookie \in 0 .. Len(Listing[T[gd].inode])
             /\ T[gd].seen = SubSeq(Listing[T[gd].inode], 1, T[gd].cookie)
             /\ T[gd].ended => T[gd].cookie = Len(Listing[T[gd].inode])
  <2>1. CASE gd = fd
    BY <1>1, <2>1
  <2>2. CASE gd # fd
    <3>1. gd \in OfKind(descriptors, Directory) /\ T[gd] = descriptors[gd]
      BY <1>1, <1>4, <2>2
    <3> QED
      BY <3>1 DEF ScanInv
  <2> QED
    BY <2>1, <2>2
<1>9. ScanInv'
  BY <1>2, <1>8 DEF ScanInv
<1> QED
  BY <1>2, <1>5, <1>6, <1>7, <1>9 DEF HandleInv

LEMMA ReadStep ==
    ASSUME AdapterAssumptions, HandleInv, ScanInv,
           NEW fd \in Fd, NEW room \in 1 .. MaxPage, Readdir(fd, room)
    PROVE  HandleInv' /\ ScanInv'
<1>1. PICK scan : scan = descriptors[fd]
  OBVIOUS
<1>2. fd \in OfKind(descriptors, Directory) /\ scan \in Descriptor
  BY <1>1, KindsOfDescriptors DEF Readdir, HandleInv, HandleTypes, Scans
<1>3. PICK d \in Directory : scan.inode = d /\ directory_handles[scan.handle] = d
  BY <1>1, <1>2 DEF HandleInv, Agree, OfKind
<1>4. PICK c \in 0 .. Len(Listing[d]) : scan.cookie = c /\ scan.seen = SubSeq(Listing[d], 1, c)
  <2>1. scan.cookie \in 0 .. Len(Listing[d]) /\ scan.seen = SubSeq(Listing[d], 1, scan.cookie)
    BY <1>1, <1>2, <1>3 DEF ScanInv
  <2> QED
    BY <2>1
<1>5. PICK page : page = IterChildren(d, c)
  OBVIOUS
<1>6. PICK n : n = IF room <= Len(page) THEN room ELSE Len(page)
  OBVIOUS
<1>7. PICK moved : moved = [scan EXCEPT !.cookie = IF n = 0 THEN @ ELSE NextId(@, n),
                                        !.seen   = @ \o SubSeq(page, 1, n),
                                        !.ended  = n = 0]
  OBVIOUS
<1>8. /\ descriptors' = [descriptors EXCEPT ![fd] = moved]
      /\ file_handles' = file_handles /\ directory_handles' = directory_handles
      /\ next_handle' = next_handle
  BY <1>1, <1>3, <1>4, <1>5, <1>6, <1>7 DEF Readdir
<1>9. n \in 0 .. Len(Listing[d]) - c /\ (n = 0 => c = Len(Listing[d]))
  <2>1. Len(Listing[d]) \in Nat /\ c \in Nat /\ room \in Nat \ {0}
    BY PageEntries DEF AdapterAssumptions
  <2>2. Len(page) = Len(Listing[d]) - c
    <3>1. Len(IterChildren(d, c)) = IF c <= Len(Listing[d]) THEN Len(Listing[d]) - c ELSE 0
      BY <2>1, PageEntries, Zenon
    <3>2. c <= Len(Listing[d])
      BY <2>1
    <3> QED
      BY <1>5, <3>1, <3>2, Zenon
  <2> QED
    BY <1>6, <2>1, <2>2
<1>10. /\ SubSeq(Listing[d], 1, c) \o SubSeq(page, 1, n) = SubSeq(Listing[d], 1, c + n)
       /\ c + n \in 0 .. Len(Listing[d])
  <2>1. /\ SubSeq(Listing[d], 1, c) \o SubSeq(IterChildren(d, c), 1, n) = SubSeq(Listing[d], 1, c + n)
        /\ c + n \in 0 .. Len(Listing[d])
    BY <1>9, PageContinues, Zenon
  <2> QED
    BY <1>5, <2>1, Zenon
<1>11. n \in Nat /\ c \in Nat /\ c + n \in Nat /\ (n = 0) \in BOOLEAN
  BY <1>9, PageEntries
<1>12. SubSeq(Listing[d], 1, c + n) \in Seq(Inode)
  BY <1>10, SeenTyped
<1>13. (IF n = 0 THEN c ELSE NextId(c, n)) = c + n
  BY <1>11 DEF NextId
<1>14. moved = [scan EXCEPT !.cookie = c + n, !.seen = SubSeq(Listing[d], 1, c + n), !.ended = (n = 0)]
  BY <1>4, <1>7, <1>10, <1>13
<1>15. /\ moved \in Descriptor
       /\ moved.inode = scan.inode /\ moved.handle = scan.handle
       /\ moved.cookie = c + n /\ moved.seen = SubSeq(Listing[d], 1, c + n) /\ moved.ended = (n = 0)
  <2>1. PICK k \in Nat, q \in Seq(Inode) : k = c + n /\ q = SubSeq(Listing[d], 1, c + n)
    BY <1>11, <1>12
  <2>2. moved = [scan EXCEPT !.cookie = k, !.seen = q, !.ended = (n = 0)]
    BY <1>14, <2>1
  <2>3. /\ moved \in Descriptor
        /\ moved.inode = scan.inode /\ moved.handle = scan.handle
        /\ moved.cookie = k /\ moved.seen = q /\ moved.ended = (n = 0)
    BY <1>2, <2>2 DEF Descriptor
  <2> QED
    BY <2>1, <2>3
<1>16. /\ moved.cookie \in 0 .. Len(Listing[moved.inode])
       /\ moved.seen = SubSeq(Listing[moved.inode], 1, moved.cookie)
       /\ moved.ended => moved.cookie = Len(Listing[moved.inode])
  <2>1. moved.inode = d
    BY <1>3, <1>15
  <2>2. n = 0 => c + n = Len(Listing[d])
    BY <1>9, <1>11
  <2> QED
    BY <1>10, <1>15, <2>1, <2>2, Zenon
<1> QED
  BY <1>1, <1>2, <1>8, <1>15, <1>16, MoveStep

LEMMA SeekStep ==
    ASSUME AdapterAssumptions, HandleInv, ScanInv,
           NEW fd \in Fd, NEW cookie \in 0 .. descriptors[fd].cookie, Seekdir(fd, cookie)
    PROVE  HandleInv' /\ ScanInv'
<1>1. PICK scan : scan = descriptors[fd]
  OBVIOUS
<1>2. fd \in OfKind(descriptors, Directory) /\ scan \in Descriptor
  BY <1>1, KindsOfDescriptors DEF Seekdir, HandleInv, HandleTypes, Scans
<1>3. PICK d \in Directory : scan.inode = d
  BY <1>1, <1>2 DEF OfKind
<1>4. PICK c \in 0 .. Len(Listing[d]) : scan.cookie = c /\ scan.seen = SubSeq(Listing[d], 1, c)
  <2>1. scan.cookie \in 0 .. Len(Listing[d]) /\ scan.seen = SubSeq(Listing[d], 1, scan.cookie)
    BY <1>1, <1>2, <1>3 DEF ScanInv
  <2> QED
    BY <2>1
<1>5. PICK moved : moved = [scan EXCEPT !.cookie = cookie, !.seen = SubSeq(@, 1, cookie), !.ended = FALSE]
  OBVIOUS
<1>6. /\ descriptors' = [descriptors EXCEPT ![fd] = moved]
      /\ file_handles' = file_handles /\ directory_handles' = directory_handles
      /\ next_handle' = next_handle
  <2>1. fd \in Fd /\ descriptors \in [Fd -> Descriptor \cup {Closed}]
    BY DEF HandleInv, HandleTypes
  <2>2. descriptors' = [descriptors EXCEPT
          ![fd].cookie = cookie, ![fd].seen = SubSeq(@, 1, cookie), ![fd].ended = FALSE]
    BY DEF Seekdir
  <2> QED
    BY <1>1, <1>2, <1>5, <2>1, <2>2, ZenonT(30) DEF Seekdir, Descriptor
<1>7. Len(Listing[d]) \in Nat /\ cookie \in 0 .. c /\ cookie \in Nat /\ cookie \in 0 .. Len(Listing[d])
  BY <1>1, <1>4, PageEntries
<1>8. SubSeq(scan.seen, 1, cookie) = SubSeq(Listing[d], 1, cookie)
  <2>1. SubSeq(SubSeq(Listing[d], 1, c), 1, cookie) = SubSeq(Listing[d], 1, cookie)
    BY <1>7, SeekKeeps
  <2> QED
    BY <1>4, <2>1, Zenon
<1>9. SubSeq(Listing[d], 1, cookie) \in Seq(Inode)
  BY <1>7, SeenTyped, Zenon
<1>10. PICK q \in Seq(Inode) : q = SubSeq(Listing[d], 1, cookie)
  BY <1>9
<1>11. /\ moved \in Descriptor
       /\ moved.inode = scan.inode /\ moved.handle = scan.handle
       /\ moved.cookie = cookie /\ moved.seen = SubSeq(Listing[d], 1, cookie) /\ moved.ended = FALSE
  <2>1. moved = [scan EXCEPT !.cookie = cookie, !.seen = q, !.ended = FALSE]
    BY <1>5, <1>8, <1>10
  <2>2. /\ moved \in Descriptor
        /\ moved.inode = scan.inode /\ moved.handle = scan.handle
        /\ moved.cookie = cookie /\ moved.seen = q /\ moved.ended = FALSE
    BY <1>2, <1>7, <2>1 DEF Descriptor
  <2> QED
    BY <1>10, <2>2
<1>12. moved.inode = d
  BY <1>3, <1>11
<1> QED
  BY <1>1, <1>2, <1>6, <1>7, <1>11, <1>12, MoveStep

LEMMA DescriptorsInit == ASSUME AdapterAssumptions, Init PROVE HandleInv /\ ScanInv
<1>1. OfKind(descriptors, Directory) = {} /\ OfKind(descriptors, Inode \ Directory) = {}
  BY DEF Init, OfKind, Closed, Opened, AdapterAssumptions
<1>2. HandleTypes
  BY DEF Init, HandleTypes
<1>3. DOMAIN file_handles = {} /\ DOMAIN directory_handles = {}
  BY DEF Init
<1> QED
  BY <1>1, <1>2, <1>3 DEF HandleInv, Agree, ScanInv

LEMMA DescriptorsStep ==
    ASSUME AdapterAssumptions, HandleInv, ScanInv, [Next]_vars
    PROVE  HandleInv' /\ ScanInv'
<1>1. ASSUME UNCHANGED handles PROVE HandleInv' /\ ScanInv'
  BY <1>1 DEF handles, HandleInv, HandleTypes, Agree, OfKind, ScanInv
<1>2. CASE KernelStep
  BY <1>1, <1>2 DEF KernelStep, Lookup, Link, Evict, Forget
<1>3. ASSUME NEW fd \in Fd, DescriptorStep(fd) PROVE HandleInv' /\ ScanInv'
  BY <1>3, OpenStep, CloseStep, ReadStep, SeekStep DEF DescriptorStep
<1> QED
  BY <1>1, <1>2, <1>3 DEF Next, vars

-----------------------------------------------------------------------------
(* Theorems.                                                               *)

Inv == CountInv /\ HandleInv /\ ScanInv

LEMMA AdapterInvariant == Spec => []Inv
<1>1. Init => Inv
  BY AdapterAssumptions, CountInit, DescriptorsInit DEF Inv
<1>2. Inv /\ [Next]_vars => Inv'
  BY AdapterAssumptions, CountStep, DescriptorsStep DEF Inv
<1> QED
  BY <1>1, <1>2, PTL DEF Spec

\* The adapter and the kernel agree on every inode's references, for every tree and
\* any number of lookups, pages and batches of forgets (CountsAgree).
THEOREM CountsAlwaysAgree == Spec => []CountsAgree
<1>1. Inv => CountsAgree
  BY DEF Inv, CountInv, CountSums, CountIn, CountsAgree, Count
<1> QED
  BY <1>1, AdapterInvariant, PTL

\* Every descriptor is answered about its own inode and no handle is left over,
\* however descriptors are opened and released (HandlesAgree).
THEOREM HandlesAlwaysAgree == Spec => []HandlesAgree
<1>1. ASSUME Inv PROVE HandlesAgree
  <2>1. Scans = OfKind(descriptors, Directory) /\ Files = OfKind(descriptors, Inode \ Directory)
    BY <1>1, AdapterAssumptions, KindsOfDescriptors DEF Inv, HandleInv, HandleTypes, Scans, Files
  <2> QED
    <3>1. /\ Agree(descriptors, directory_handles, Directory)
          /\ Agree(descriptors, file_handles, Inode \ Directory)
      BY <1>1 DEF Inv, HandleInv
    <3>2. /\ DOMAIN directory_handles = {descriptors[fd].handle : fd \in Scans}
          /\ DOMAIN file_handles = {descriptors[fd].handle : fd \in Files}
      <4>1. \A h : h \in DOMAIN directory_handles <=> \E fd \in Scans : h = descriptors[fd].handle
        BY <2>1, <3>1 DEF Agree
      <4>2. \A h : h \in DOMAIN file_handles <=> \E fd \in Files : h = descriptors[fd].handle
        <5>1. PICK K : K = Inode \ Directory
          OBVIOUS
        <5>2. Agree(descriptors, file_handles, K) /\ Files = OfKind(descriptors, K)
          BY <2>1, <3>1, <5>1
        <5> QED
          BY <5>2 DEF Agree
      <4> QED
        BY <4>1, <4>2, Zenon
    <3> QED
      BY <2>1, <3>1, <3>2 DEF Agree, HandlesAgree
<1> QED
  BY <1>1, AdapterInvariant, PTL

\* A directory of any length, read in pages of any sizes and from any earlier
\* position again, is read exactly (ScanExact).
THEOREM ScansAreExact == Spec => []ScanExact
<1>1. Inv => ScanExact
  BY AdapterAssumptions, ScanInvMeans DEF Inv, HandleInv
<1> QED
  BY <1>1, AdapterInvariant, PTL

\* The adapter's state is well typed (TypeOK).
THEOREM AdapterTyped == Spec => []TypeOK
<1>1. ASSUME Inv PROVE TypeOK
  <2>1. /\ \A h \in DOMAIN file_handles : file_handles[h] \in Inode \ Directory
        /\ \A h \in DOMAIN directory_handles : directory_handles[h] \in Directory
    BY <1>1 DEF Inv, HandleInv, Agree, OfKind
  <2> QED
    BY <1>1, <2>1 DEF Inv, CountInv, TableTypes, FlowTypes, HandleInv, HandleTypes, TypeOK
<1> QED
  BY <1>1, AdapterInvariant, PTL
====
