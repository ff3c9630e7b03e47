-------------------------- MODULE SqliteStoreProofs --------------------------
(***************************************************************************)
(* Proofs about opening and reading SQLite artifacts with any number of    *)
(* nodes and threads: what validation accepts is a snapshot, and the store *)
(* implements SnapshotStore.                                               *)
(***************************************************************************)
EXTENDS SqliteStore, FiniteSetTheorems, SequenceTheorems, WellFoundedInduction, TLAPS

-----------------------------------------------------------------------------
(* Counting: what is not so for all counts is not so for a least one.      *)

LEMMA LeastNumber ==
    ASSUME NEW K \in SUBSET Nat, K # {}
    PROVE  \E k \in K : \A m \in K : k <= m
<1>1. PICK k \in K : \A m \in K : <<m, k>> \notin OpToRel(<, Nat)
  BY NatLessThanWellFounded, WFMin
<1>2. \A m \in K : ~(m < k)
  BY <1>1 DEF OpToRel
<1>3. k \in Nat /\ \A m \in K : m \in Nat
  OBVIOUS
<1> QED BY <1>2, <1>3

-----------------------------------------------------------------------------
(* Sequences that list a set: each member once.                            *)

Lists(s, S) ==
    /\ s \in Seq(S)
    /\ \A i, j \in 1 .. Len(s) : s[i] = s[j] => i = j
    /\ \A x \in S : \E i \in 1 .. Len(s) : s[i] = x

LEMMA SetToSeqLists ==
    ASSUME NEW S, IsFiniteSet(S)
    PROVE  Lists(SetToSeq(S), S) /\ Len(SetToSeq(S)) = Cardinality(S)
<1> DEFINE n == Cardinality(S)
<1>1. n \in Nat /\ ExistsBijection(1 .. n, S)
  BY FS_CardinalityType
<1>2. PICK f \in [1 .. n -> S] : /\ \A x \in S : \E i \in 1 .. n : f[i] = x
                                 /\ \A i, j \in 1 .. n : f[i] = f[j] => i = j
  BY <1>1 DEF ExistsBijection, Bijection, Injection, Surjection, IsInjective
<1> HIDE DEF n
<1>3. IsInjective(f)
  BY <1>2 DEF IsInjective
<1>4. SetToSeq(S) \in [1 .. n -> S] /\ IsInjective(SetToSeq(S))
  BY <1>3 DEF SetToSeq, n
<1> DEFINE s == SetToSeq(S)
<1> HIDE DEF s
<1>5. s \in [1 .. n -> S] /\ IsInjective(s)
  BY <1>4 DEF s
<1>6. s \in Seq(S) /\ Len(s) = n
  BY <1>1, <1>5, SeqDef
<1>7. s \in Injection(1 .. n, S)
  BY <1>5 DEF Injection, IsInjective
<1>8. s \in Surjection(1 .. n, S)
  <2>1. IsFiniteSet(1 .. n) /\ Cardinality(1 .. n) = n
    BY <1>1, FS_Interval
  <2> QED BY <1>7, <2>1, FS_Injection DEF n
<1> QED BY <1>5, <1>6, <1>7, <1>8 DEF Lists, Injection, Surjection, IsInjective, s, n

\* The first of a sequence, and the rest of it.
LEMMA HeadAndRest ==
    ASSUME NEW Q, NEW q, Lists(q, Q), q # << >>
    PROVE  Head(q) \in Q /\ Lists(Tail(q), Q \ {Head(q)})
<1>1. /\ q \in Seq(Q) /\ Len(q) \in Nat \ {0} /\ Head(q) = q[1]
      /\ Tail(q) \in Seq(Q) /\ Len(Tail(q)) = Len(q) - 1
      /\ \A i \in 1 .. Len(Tail(q)) : Tail(q)[i] = q[i + 1]
  BY HeadTailProperties, EmptySeq DEF Lists
<1>2. \A i, j \in 1 .. Len(Tail(q)) : Tail(q)[i] = Tail(q)[j] => i = j
  BY <1>1 DEF Lists
<1>3. \A x \in Q \ {Head(q)} : \E i \in 1 .. Len(Tail(q)) : Tail(q)[i] = x
  <2> SUFFICES ASSUME NEW x \in Q \ {Head(q)} PROVE \E i \in 1 .. Len(Tail(q)) : Tail(q)[i] = x
    OBVIOUS
  <2>1. PICK k \in 1 .. Len(q) : q[k] = x
    BY DEF Lists
  <2>2. k - 1 \in 1 .. Len(Tail(q)) /\ Tail(q)[k - 1] = x
    BY <1>1, <2>1
  <2> QED BY <2>2
<1>4. \A i \in 1 .. Len(Tail(q)) : Tail(q)[i] \in Q \ {Head(q)}
  BY <1>1 DEF Lists
<1>5. Tail(q) \in Seq(Q \ {Head(q)})
  <2>1. Tail(q) \in [1 .. Len(Tail(q)) -> Q \ {Head(q)}]
    BY <1>1, <1>4, LenProperties
  <2>2. Len(Tail(q)) \in Nat
    BY <1>1
  <2> QED BY <2>1, <2>2, SeqDef
<1> QED BY <1>1, <1>2, <1>3, <1>5 DEF Lists

\* One list behind another, if they have nothing in common.
LEMMA ListsJoin ==
    ASSUME NEW A, NEW B, NEW a, NEW b, Lists(a, A), Lists(b, B), A \cap B = {}
    PROVE  Lists(a \o b, A \cup B)
<1>1. a \in Seq(A \cup B) /\ b \in Seq(A \cup B) /\ Len(a) \in Nat /\ Len(b) \in Nat
  BY SeqMonotonic, LenProperties DEF Lists
<1> DEFINE c == a \o b
<1>2. /\ c \in Seq(A \cup B) /\ Len(c) = Len(a) + Len(b)
      /\ \A i \in 1 .. Len(c) : c[i] = IF i <= Len(a) THEN a[i] ELSE b[i - Len(a)]
  BY <1>1, ConcatProperties
<1> HIDE DEF c
<1>3. \A i \in 1 .. Len(a) : a[i] \in A
  BY LenProperties DEF Lists
<1>4. \A i \in 1 .. Len(b) : b[i] \in B
  BY LenProperties DEF Lists
<1>5. ASSUME NEW i \in 1 .. Len(c), NEW j \in 1 .. Len(c), c[i] = c[j] PROVE i = j
  <2>1. CASE i <= Len(a) /\ j <= Len(a)
    <3>1. i \in 1 .. Len(a) /\ j \in 1 .. Len(a) /\ a[i] = a[j]
      BY <1>1, <1>2, <1>5, <2>1
    <3> QED BY <3>1 DEF Lists
  <2>2. CASE ~(i <= Len(a)) /\ ~(j <= Len(a))
    <3>1. i - Len(a) \in 1 .. Len(b) /\ j - Len(a) \in 1 .. Len(b)
      BY <1>1, <1>2, <2>2
    <3>2. b[i - Len(a)] = b[j - Len(a)]
      BY <1>2, <1>5, <2>2
    <3>3. i - Len(a) = j - Len(a)
      BY <3>1, <3>2 DEF Lists
    <3> QED BY <1>1, <1>2, <3>3
  <2>3. CASE i <= Len(a) /\ ~(j <= Len(a))
    <3>1. c[i] \in A /\ c[j] \in B
      BY <1>1, <1>2, <1>3, <1>4, <2>3, SMTT(15)
    <3> QED BY <1>5, <3>1
  <2>4. CASE ~(i <= Len(a)) /\ j <= Len(a)
    <3>1. c[j] \in A /\ c[i] \in B
      BY <1>1, <1>2, <1>3, <1>4, <2>4, SMTT(15)
    <3> QED BY <1>5, <3>1
  <2> QED BY <2>1, <2>2, <2>3, <2>4
<1>6. ASSUME NEW x \in A \cup B PROVE \E i \in 1 .. Len(c) : c[i] = x
  <2>1. CASE x \in A
    <3>1. PICK k \in 1 .. Len(a) : a[k] = x
      BY <2>1 DEF Lists
    <3> QED BY <1>1, <1>2, <3>1
  <2>2. CASE x \in B
    <3>1. PICK k \in 1 .. Len(b) : b[k] = x
      BY <2>2 DEF Lists
    <3>2. Len(a) + k \in 1 .. Len(c) /\ ~(Len(a) + k <= Len(a)) /\ (Len(a) + k) - Len(a) = k
      BY <1>1, <1>2
    <3> QED BY <1>2, <3>1, <3>2
  <2> QED BY <2>1, <2>2
<1> QED BY <1>2, <1>5, <1>6 DEF Lists, c

-----------------------------------------------------------------------------
(* A finite set whose members have keys can be put in their order.         *)

\* A member with the largest key: one that the fewest exceed.
LEMMA LargestKey ==
    ASSUME NEW S, IsFiniteSet(S), S # {}, NEW key, \A x \in S : key[x] \in Int
    PROVE  \E m \in S : \A x \in S : key[x] <= key[m]
<1> DEFINE Above(x) == { y \in S : key[x] < key[y] }
           Counts == { k \in Nat : \E x \in S : k = Cardinality(Above(x)) }
<1>1. \A x \in S : IsFiniteSet(Above(x)) /\ Cardinality(Above(x)) \in Nat
  BY FS_Subset, FS_CardinalityType
<1>2. PICK k \in Counts : \A n \in Counts : k <= n
  <2>1. Counts \in SUBSET Nat /\ Counts # {}
    BY <1>1
  <2> HIDE DEF Counts
  <2> QED BY <2>1, LeastNumber
<1>3. PICK m \in S : k = Cardinality(Above(m))
  BY <1>2
<1>4. ASSUME NEW x \in S, key[m] < key[x] PROVE FALSE
  <2>1. Above(x) \in SUBSET Above(m) /\ x \in Above(m) /\ x \notin Above(x)
    BY <1>4
  <2>2. Cardinality(Above(x)) <= k /\ Cardinality(Above(x)) # k
    <3> HIDE DEF Above
    <3> QED BY <1>1, <1>3, <2>1, FS_Subset
  <2>3. Cardinality(Above(x)) \in Counts
    BY <1>1
  <2>4. k <= Cardinality(Above(x)) /\ k \in Nat /\ Cardinality(Above(x)) \in Nat
    BY <1>1, <1>2, <2>3
  <2> QED BY <2>2, <2>4
<1> QED BY <1>4

Ordered(s, S, key) == s \in Orders(S, key)

LEMMA SetsCanBeOrdered ==
    ASSUME NEW T, IsFiniteSet(T), NEW key, \A x \in T : key[x] \in Int
    PROVE  \E s : Ordered(s, T, key)
<1> DEFINE Bad == { n \in Nat : \E S \in SUBSET T :
                      n = Cardinality(S) /\ \A s : ~Ordered(s, S, key) }
<1> SUFFICES ASSUME Bad # {} PROVE FALSE
  BY FS_CardinalityType
<1>1. PICK n \in Bad : \A k \in Bad : n <= k
  <2>1. Bad \in SUBSET Nat
    OBVIOUS
  <2> HIDE DEF Bad
  <2> QED BY <2>1, LeastNumber
<1>2. PICK S \in SUBSET T : n = Cardinality(S) /\ \A s : ~Ordered(s, S, key)
  BY <1>1
<1>3. IsFiniteSet(S) /\ n \in Nat
  BY <1>1, FS_Subset
<1>4. CASE S = {}
  <2>1. n = 0
    BY <1>2, <1>4, FS_EmptySet
  <2>2. Ordered([i \in 1 .. 0 |-> i], S, key)
    <3>1. 1 .. 0 = {}
      OBVIOUS
    <3> QED BY <1>2, <2>1, <3>1 DEF Ordered, Orders, IsInjective
  <2> QED BY <1>2, <2>2
<1>5. CASE S # {}
  <2>1. PICK m \in S : \A x \in S : key[x] <= key[m]
    BY <1>3, <1>5, LargestKey
  <2> DEFINE R == S \ {m}
  <2>2. Cardinality(R) = n - 1 /\ n - 1 \in Nat /\ R \in SUBSET T
    <3>1. Cardinality(R) = n - 1 /\ IsFiniteSet(R)
      BY <1>2, <1>3, <2>1, FS_RemoveElement
    <3>2. Cardinality(R) \in Nat
      BY <3>1, FS_CardinalityType
    <3> QED BY <3>1, <3>2
  <2> HIDE DEF R
  <2>3. n - 1 \notin Bad
    BY <1>1, <1>3
  <2>4. PICK r : Ordered(r, R, key)
    BY <2>2, <2>3
  <2>5. /\ r \in [1 .. n - 1 -> R] /\ IsInjective(r)
        /\ \A i, j \in 1 .. n - 1 : i < j => key[r[i]] <= key[r[j]]
    BY <2>2, <2>4 DEF Ordered, Orders
  <2> DEFINE s == [i \in 1 .. n |-> IF i = n THEN m ELSE r[i]]
  <2>6. \A i \in 1 .. n : /\ i = n => s[i] = m
                          /\ i # n => i \in 1 .. n - 1 /\ s[i] = r[i] /\ s[i] \in R
    BY <1>3, <2>5
  <2>7. s \in [1 .. n -> S]
    BY <2>1, <2>5 DEF R
  <2> HIDE DEF s
  <2>8. DOMAIN s = 1 .. n
    BY <2>7
  <2>9. IsInjective(s)
    <3> SUFFICES ASSUME NEW i \in 1 .. n, NEW j \in 1 .. n, s[i] = s[j] PROVE i = j
      BY <2>8 DEF IsInjective
    <3>1. m \notin R
      BY DEF R
    <3>2. CASE i # n /\ j # n
      BY <2>5, <2>6, <3>2 DEF IsInjective
    <3> QED BY <2>6, <3>1, <3>2
  <2>10. ASSUME NEW i \in 1 .. n, NEW j \in 1 .. n, i < j PROVE key[s[i]] <= key[s[j]]
    <3>1. i # n
      BY <1>3, <2>10
    <3>2. CASE j = n
      BY <2>1, <2>6, <2>7, <3>2
    <3>3. CASE j # n
      BY <2>5, <2>6, <2>10, <3>1, <3>3
    <3> QED BY <3>2, <3>3
  <2>11. Ordered(s, S, key)
    BY <1>2, <2>7, <2>8, <2>9, <2>10 DEF Ordered, Orders
  <2> QED BY <1>2, <2>11
<1> QED BY <1>4, <1>5

\* A query with ORDER BY has an order to give its rows in, and it gives them all.
LEMMA OrdersExist ==
    ASSUME NEW S, IsFiniteSet(S), NEW key, \A x \in S : key[x] \in Int
    PROVE  /\ Orders(S, key) # {}
           /\ \A s \in Orders(S, key) : s \in Seq(S) /\ Len(s) = Cardinality(S)
<1>1. PICK s : Ordered(s, S, key)
  BY SetsCanBeOrdered
<1>2. Cardinality(S) \in Nat
  BY FS_CardinalityType
<1>3. ASSUME NEW o \in Orders(S, key) PROVE o \in Seq(S) /\ Len(o) = Cardinality(S)
  <2>1. o \in [1 .. Cardinality(S) -> S]
    BY DEF Orders
  <2> QED BY <1>2, <2>1, SeqDef
<1> QED BY <1>1, <1>3 DEF Ordered

-----------------------------------------------------------------------------
(* What the checks have established when they are passed.                  *)

Passed(steps) == step \in steps \/ verdict = "accepted"

FromDiagnostics == {"diagnostics"}
FromRoot    == {"root"} \cup FromDiagnostics
FromNames   == {"names"} \cup FromRoot
FromWalk    == {"walk"} \cup FromNames
FromParents == {"parents"} \cup FromWalk
FromValues  == {"values"} \cup FromParents
FromClasses == {"classes"} \cup FromValues
FromCounts  == {"counts"} \cup FromClasses
FromKeys    == {"keys"} \cup FromCounts

KeysHold ==
    \A i \in Nodes : nodes[i].parent \in Nodes \cup {NONE} /\ nodes[i].snapshot \in artifact.snapshots

\* One snapshot, and one node without a parent; that inode 1 is this node is only
\* known in the end.
CountsHold ==
    /\ \E id : artifact.snapshots = {id}
    /\ 1 \in Nodes
    /\ \E root : { i \in Nodes : nodes[i].parent = NONE } = {root}

ClassesHold ==
    /\ artifact.record # "type" /\ artifact.reports # "type"
    /\ \A i \in Nodes : nodes[i].data # "type"

ValuesHold ==
    /\ artifact.record # "value" /\ artifact.reports # "value"
    /\ artifact.positions = 0 .. Cardinality(artifact.positions) - 1
    /\ \A i \in Nodes : nodes[i].data # "value" /\ ContentInvariant(i)

ParentsHold ==
    \A i \in Nodes : nodes[i].parent # NONE => nodes[nodes[i].parent].kind = "directory"

Rooted == nodes[1].parent = NONE

\* No set of nodes of V, without inode 1, holds the parents of all its members.
Grounded(V) == \A S \in SUBSET (V \ {1}) : S # {} => \E i \in S : nodes[i].parent \notin S

\* The rows that the recursive query has made, V, and those it has yet to expand, Q.
Walked(V, Q) ==
    /\ V \subseteq Nodes /\ 1 \in V /\ Q \subseteq V
    /\ reachable = Cardinality(V)
    /\ Lists(queue, Q)
    /\ \A i \in V \ {1} : nodes[i].parent \in V
    /\ \A i \in Nodes : nodes[i].parent \in V => (i \in V <=> nodes[i].parent \notin Q)
    /\ Grounded(V)

WalkInv == Rooted => \E V, Q \in SUBSET Nodes : Walked(V, Q)

NamesHold ==
    /\ nodes[1].path = NONE /\ nodes[1].data = "plain" /\ nodes[1].name = 0
    /\ \A i \in Nodes : /\ nodes[i].name # Unmountable
                        /\ nodes[i].data # "undecodable"
                        /\ i # 1 => /\ nodes[i].name # 0
                                    /\ nodes[i].path = RelativePath[i]
    /\ artifact.record # "undecodable"

ValidationInv ==
    /\ artifact \in Artifacts /\ step \in Step
    /\ verdict \in {"none", "accepted", "refused", "unreadable"}
    /\ verdict = "none" <=> step # "done"
    /\ Passed(FromKeys) => artifact.file = "ok"
    /\ Passed(FromCounts) => KeysHold
    /\ Passed(FromClasses) => CountsHold
    /\ Passed(FromValues) => ClassesHold
    /\ Passed(FromParents) => ValuesHold
    /\ Passed(FromWalk) => ParentsHold
    /\ step = "walk" => WalkInv
    /\ Passed(FromNames) => (Rooted => Grounded(Nodes))
    /\ Passed(FromRoot) => NamesHold
    /\ Passed(FromDiagnostics) => Rooted /\ nodes[1].kind = "directory"
    /\ verdict = "accepted" => Cardinality(artifact.positions) <= artifact.diagnostic_count
    /\ verdict = "refused" => ~(IsSnapshot /\ Constructible)

\* What is assumed of the artifact that is opened.
LEMMA Tables ==
    ASSUME artifact \in Artifacts
    PROVE  /\ NONE \notin Nat \cup {"blank", "ref"}
           /\ IsFiniteSet(artifact.snapshots)
           /\ IsFiniteSet(artifact.positions) /\ artifact.positions \subseteq Int
           /\ artifact.diagnostic_count \in Nat
           /\ Nodes \subseteq Nat \ {0} /\ IsFiniteSet(Nodes)
           /\ artifact.record \in Record /\ artifact.reports \in Reports
           /\ \A i \in Nodes : nodes[i].name \in Int /\ nodes[i].content \in Content
                               /\ nodes[i].data \in Data
BY ValidationAssumptions DEF nodes, Nodes

-----------------------------------------------------------------------------
(* The recursive query.                                                    *)

\* It begins with the row of inode 1.
LEMMA WalkBegins ==
    ASSUME artifact \in Artifacts, 1 \in Nodes, artifact' = artifact,
           queue' = << 1 >>, reachable' = 1
    PROVE  WalkInv'
<1>1. NONE \notin Nat /\ nodes' = nodes /\ Nodes' = Nodes
  BY Tables DEF nodes, Nodes
<1> SUFFICES ASSUME Rooted' PROVE Walked({1}, {1})'
  BY <1>1 DEF WalkInv
<1>2. nodes[1].parent = NONE
  BY <1>1 DEF Rooted
<1>3. Cardinality({1}) = 1
  BY FS_Singleton
<1>4. Lists(<< 1 >>, {1})
  BY DEF Lists
<1>5. Grounded({1})'
  BY DEF Grounded
<1>6. \A i \in Nodes : nodes[i].parent \in {1} => (i \in {1} <=> nodes[i].parent \notin {1})
  BY <1>1, <1>2
<1> QED BY <1>1, <1>3, <1>4, <1>5, <1>6 DEF Walked, Lists

\* The children of a row that is expanded are new rows.
LEMMA WalkGoesOn ==
    ASSUME artifact \in Artifacts, WalkInv, queue # << >>,
           NEW rows, rows = SetToSeq({ i \in Nodes : nodes[i].parent = Head(queue) }),
           queue' = Tail(queue) \o rows,
           reachable' = IF reachable + Len(rows) > Cardinality(Nodes)
                        THEN Cardinality(Nodes) + 1 ELSE reachable + Len(rows),
           artifact' = artifact
    PROVE  WalkInv'
<1> DEFINE h == Head(queue)
           C == { i \in Nodes : nodes[i].parent = h }
<1>1. NONE \notin Nat /\ Nodes \subseteq Nat /\ IsFiniteSet(Nodes) /\ nodes' = nodes
  BY Tables DEF nodes
<1>2. Nodes' = Nodes /\ (Rooted' <=> Rooted)
  BY <1>1 DEF Nodes, Rooted
<1> SUFFICES ASSUME Rooted PROVE \E V, Q \in SUBSET Nodes : Walked(V, Q)'
  BY <1>2 DEF WalkInv
<1>3. PICK V \in SUBSET Nodes, Q \in SUBSET Nodes : Walked(V, Q)
  BY DEF WalkInv
<1>4. h \in Q /\ h \in V /\ Lists(Tail(queue), Q \ {h})
  BY <1>3, HeadAndRest DEF Walked
<1>5. C \cap V = {}
  BY <1>3, <1>4 DEF Walked
<1>6. IsFiniteSet(C) /\ IsFiniteSet(V)
  BY <1>1, FS_Subset
<1>7. Lists(rows, C) /\ Len(rows) = Cardinality(C)
  BY <1>6, SetToSeqLists
<1> HIDE DEF h, C
<1> DEFINE W == V \cup C
           P == (Q \ {h}) \cup C
<1>8. Cardinality(W) = Cardinality(V) + Cardinality(C) /\ Cardinality(W) <= Cardinality(Nodes)
  <2>1. Cardinality(V \cap C) = 0
    <3>1. V \cap C = {}
      BY <1>5
    <3> QED BY <3>1, FS_EmptySet
  <2>2. Cardinality(W) = Cardinality(V) + Cardinality(C) - Cardinality(V \cap C)
    BY <1>6, FS_Union
  <2>3. Cardinality(V) \in Nat /\ Cardinality(C) \in Nat
    BY <1>6, FS_CardinalityType
  <2>4. W \in SUBSET Nodes
    BY <1>3 DEF C
  <2>5. Cardinality(W) <= Cardinality(Nodes)
    BY <1>1, <2>4, FS_Subset
  <2> HIDE DEF W
  <2> QED BY <2>1, <2>2, <2>3, <2>5
<1>9. reachable' = Cardinality(W)
  <2>1. reachable + Len(rows) = Cardinality(W)
    BY <1>3, <1>7, <1>8 DEF Walked
  <2>2. Cardinality(W) \in Nat /\ Cardinality(Nodes) \in Nat
    BY <1>1, <1>6, FS_CardinalityType, FS_Union
  <2> QED BY <1>8, <2>1, <2>2
<1>10. Lists(queue', P)
  <2>1. (Q \ {h}) \cap C = {}
    BY <1>3, <1>5 DEF Walked
  <2> QED BY <1>4, <1>7, <2>1, ListsJoin
<1>11. \A i \in W \ {1} : nodes[i].parent \in W
  BY <1>3, <1>4 DEF Walked, C
<1>12. ASSUME NEW i \in Nodes, nodes[i].parent \in W
       PROVE  i \in W <=> nodes[i].parent \notin P
  <2>1. CASE nodes[i].parent = h
    BY <1>4, <1>5, <2>1 DEF C
  <2>2. CASE nodes[i].parent \in V /\ nodes[i].parent # h
    <3>1. i \notin C /\ nodes[i].parent \notin C
      BY <1>5, <2>2 DEF C
    <3>2. i \in V <=> nodes[i].parent \notin Q
      BY <1>3, <2>2 DEF Walked
    <3> QED BY <2>2, <3>1, <3>2
  <2>3. CASE nodes[i].parent \in C
    <3>1. nodes[i].parent \notin V
      BY <1>5, <2>3
    <3>2. i \notin C
      BY <1>4, <3>1 DEF C
    <3>3. i \notin V
      <4>1. nodes[1].parent \notin C
        BY <1>1 DEF Rooted, C
      <4> QED BY <1>3, <2>3, <3>1, <4>1 DEF Walked
    <3> QED BY <2>3, <3>2, <3>3
  <2> QED BY <1>12, <2>1, <2>2, <2>3
<1>13. Grounded(W)
  <2> SUFFICES ASSUME NEW S \in SUBSET (W \ {1}), S # {}
               PROVE  \E i \in S : nodes[i].parent \notin S
    BY DEF Grounded
  <2>1. CASE S \cap V # {}
    <3>1. PICK i \in S \cap V : nodes[i].parent \notin S \cap V
      <4>1. S \cap V \in SUBSET (V \ {1})
        OBVIOUS
      <4> QED BY <1>3, <2>1, <4>1 DEF Walked, Grounded
    <3>2. nodes[i].parent \in V
      BY <1>3 DEF Walked
    <3> QED BY <3>1, <3>2
  <2>2. CASE S \cap V = {}
    <3>1. S \subseteq C
      BY <2>2
    <3>2. PICK i \in S : i \in C
      BY <3>1
    <3>3. nodes[i].parent = h /\ h \notin C
      BY <1>4, <1>5, <3>2 DEF C
    <3> QED BY <3>1, <3>3
  <2> QED BY <2>1, <2>2
<1>14. W \in SUBSET Nodes /\ P \in SUBSET Nodes /\ P \subseteq W /\ 1 \in W
  BY <1>3 DEF Walked, C
<1>15. PICK rigidW, rigidP : rigidW = W /\ rigidP = P
  OBVIOUS
<1> HIDE DEF W, P
<1>16. Walked(rigidW, rigidP)'
  <2>1. Grounded(rigidW)'
    BY <1>1, <1>13, <1>15 DEF Grounded
  <2>2. Lists(queue', rigidP)
    BY <1>10, <1>15
  <2>3. /\ rigidW \subseteq Nodes' /\ 1 \in rigidW /\ rigidP \subseteq rigidW
        /\ reachable' = Cardinality(rigidW)
        /\ \A i \in rigidW \ {1} : nodes'[i].parent \in rigidW
        /\ \A i \in Nodes' : nodes'[i].parent \in rigidW =>
             (i \in rigidW <=> nodes'[i].parent \notin rigidP)
    BY <1>1, <1>2, <1>9, <1>11, <1>12, <1>14, <1>15
  <2> QED BY <2>1, <2>2, <2>3 DEF Walked, Lists
<1> QED BY <1>14, <1>15, <1>16

\* When it ends it has made a row of every node that can reach inode 1, once.
LEMMA WalkEnds ==
    ASSUME artifact \in Artifacts, WalkInv, queue = << >>, Rooted
    PROVE  /\ reachable = Cardinality(Nodes) => Grounded(Nodes)
           /\ Grounded(Nodes) /\ (\A i \in Nodes \ {1} : nodes[i].parent \in Nodes)
                => reachable = Cardinality(Nodes)
<1>1. PICK V \in SUBSET Nodes, Q \in SUBSET Nodes : Walked(V, Q)
  BY DEF WalkInv
<1>2. Q = {}
  <2>1. Len(queue) = 0
    BY EmptySeq
  <2> QED BY <1>1, <2>1 DEF Walked, Lists
<1>3. IsFiniteSet(Nodes)
  BY Tables
<1>4. ASSUME reachable = Cardinality(Nodes) PROVE Grounded(Nodes)
  <2>1. V = Nodes
    BY <1>1, <1>3, <1>4, FS_Subset DEF Walked
  <2> QED BY <1>1, <2>1 DEF Walked
<1>5. ASSUME Grounded(Nodes), \A i \in Nodes \ {1} : nodes[i].parent \in Nodes
      PROVE  reachable = Cardinality(Nodes)
  <2> DEFINE S == Nodes \ V
  <2>1. \A i \in S : nodes[i].parent \in S
    BY <1>1, <1>2, <1>5 DEF Walked
  <2>2. S \in SUBSET (Nodes \ {1})
    BY <1>1 DEF Walked
  <2>3. S = {}
    BY <1>5, <2>1, <2>2 DEF Grounded
  <2>4. V = Nodes
    BY <1>1, <2>3
  <2> QED BY <1>1, <2>4 DEF Walked
<1> QED BY <1>4, <1>5

-----------------------------------------------------------------------------
(* Paths: the recursive definition has one solution on a tree.             *)

ParentsAreNodes == 1 \in Nodes /\ \A i \in Nodes \ {1} : nodes[i].parent \in Nodes

\* What RelativePath satisfies on the nodes of T.
PathsOn(T, f) ==
    f = [i \in T |-> IF i = 1 THEN << >> ELSE Append(f[nodes[i].parent], nodes[i].name)]

\* The largest set of nodes that has paths is that of all nodes.
LEMMA PathsExist ==
    ASSUME artifact \in Artifacts, ParentsAreNodes, Grounded(Nodes)
    PROVE  \E f : PathsOn(Nodes, f)
<1>1. IsFiniteSet(Nodes) /\ Cardinality(Nodes) \in Nat
  BY Tables, FS_CardinalityType
<1> DEFINE Closed1(T) == 1 \in T /\ \A i \in T \ {1} : nodes[i].parent \in T
           Left == { k \in Nat : \E T \in SUBSET Nodes : \E f :
                       Closed1(T) /\ PathsOn(T, f) /\ k = Cardinality(Nodes) - Cardinality(T) }
<1>2. \A T \in SUBSET Nodes : IsFiniteSet(T) /\ Cardinality(T) \in Nat
                              /\ Cardinality(Nodes) - Cardinality(T) \in Nat
  <2> SUFFICES ASSUME NEW T \in SUBSET Nodes
               PROVE  IsFiniteSet(T) /\ Cardinality(T) \in Nat
                      /\ Cardinality(Nodes) - Cardinality(T) \in Nat
    OBVIOUS
  <2>1. IsFiniteSet(T) /\ Cardinality(T) <= Cardinality(Nodes)
    BY <1>1, FS_Subset
  <2>2. Cardinality(T) \in Nat
    BY <2>1, FS_CardinalityType
  <2> QED BY <1>1, <2>1, <2>2
<1>3. Left # {}
  <2>1. Closed1({1}) /\ {1} \in SUBSET Nodes
    BY DEF ParentsAreNodes
  <2>2. PathsOn({1}, [i \in {1} |-> << >>])
    BY DEF PathsOn
  <2>3. Cardinality(Nodes) - Cardinality({1}) \in Left
    BY <1>2, <2>1, <2>2
  <2> QED BY <2>3
<1>4. PICK k \in Left : \A m \in Left : k <= m
  <2>1. Left \in SUBSET Nat
    OBVIOUS
  <2> HIDE DEF Left
  <2> QED BY <1>3, <2>1, LeastNumber
<1>5. PICK T \in SUBSET Nodes : \E f : /\ Closed1(T) /\ PathsOn(T, f)
                                       /\ k = Cardinality(Nodes) - Cardinality(T)
  BY <1>4
<1>6. PICK f : Closed1(T) /\ PathsOn(T, f) /\ k = Cardinality(Nodes) - Cardinality(T)
  BY <1>5
<1>7. T = Nodes
  <2> SUFFICES ASSUME T # Nodes PROVE FALSE
    OBVIOUS
  <2>1. PICK i \in Nodes \ T : nodes[i].parent \notin Nodes \ T
    <3>1. Nodes \ T \in SUBSET (Nodes \ {1}) /\ Nodes \ T # {}
      BY <1>6
    <3> QED BY <3>1 DEF Grounded
  <2>2. nodes[i].parent \in T /\ i # 1
    BY <1>6, <2>1 DEF ParentsAreNodes
  <2> DEFINE g == [j \in T \cup {i} |-> IF j = i THEN Append(f[nodes[i].parent], nodes[i].name) ELSE f[j]]
  <2>3. Closed1(T \cup {i}) /\ T \cup {i} \in SUBSET Nodes
    BY <1>6, <2>2
  <2>4. PathsOn(T \cup {i}, g)
    <3>1. ASSUME NEW j \in T \cup {i}
          PROVE  g[j] = IF j = 1 THEN << >> ELSE Append(g[nodes[j].parent], nodes[j].name)
      <4>1. CASE j = i
        <5>1. g[nodes[i].parent] = f[nodes[i].parent]
          BY <2>1, <2>2
        <5> QED BY <2>2, <4>1, <5>1
      <4>2. CASE j # i /\ j # 1
        <5>1. nodes[j].parent \in T /\ nodes[j].parent # i
          BY <1>6, <2>1, <3>1, <4>2
        <5>2. g[nodes[j].parent] = f[nodes[j].parent] /\ g[j] = f[j]
          BY <4>2, <5>1, <3>1
        <5>3. f[j] = Append(f[nodes[j].parent], nodes[j].name)
          BY <1>6, <3>1, <4>2 DEF PathsOn
        <5> QED BY <4>2, <5>2, <5>3
      <4>3. CASE j = 1
        BY <1>6, <2>2, <4>3 DEF PathsOn
      <4> QED BY <4>1, <4>2, <4>3
    <3> DEFINE F(j) == IF j = 1 THEN << >> ELSE Append(g[nodes[j].parent], nodes[j].name)
    <3>2. g = [j \in T \cup {i} |-> g[j]]
      OBVIOUS
    <3>3. \A j \in T \cup {i} : g[j] = F(j)
      BY <3>1
    <3> HIDE DEF g, F
    <3>4. g = [j \in T \cup {i} |-> F(j)]
      BY <3>2, <3>3
    <3> QED BY <3>4 DEF PathsOn, F
  <2>5. Cardinality(T \cup {i}) = Cardinality(T) + 1
    BY <1>2, <2>1, FS_AddElement
  <2>6. Cardinality(Nodes) - Cardinality(T \cup {i}) \in Left
    BY <1>2, <2>3, <2>4
  <2>7. k <= Cardinality(Nodes) - Cardinality(T \cup {i})
    BY <1>4, <2>6
  <2> QED BY <1>1, <1>2, <1>6, <2>5, <2>7
<1> QED BY <1>6, <1>7

LEMMA PathsUnique ==
    ASSUME ParentsAreNodes, Grounded(Nodes),
           NEW f, PathsOn(Nodes, f), NEW g, PathsOn(Nodes, g)
    PROVE  f = g
<1> DEFINE S == { i \in Nodes : f[i] # g[i] }
<1>1. S \in SUBSET (Nodes \ {1})
  BY DEF PathsOn
<1>2. S = {}
  <2> SUFFICES ASSUME S # {} PROVE FALSE
    OBVIOUS
  <2>1. PICK i \in S : nodes[i].parent \notin S
    BY <1>1 DEF Grounded
  <2>2. f[nodes[i].parent] = g[nodes[i].parent]
    BY <1>1, <2>1 DEF ParentsAreNodes
  <2>3. /\ f[i] = Append(f[nodes[i].parent], nodes[i].name)
        /\ g[i] = Append(g[nodes[i].parent], nodes[i].name)
    BY <1>1, <2>1 DEF PathsOn
  <2> QED BY <2>2, <2>3
<1>3. f = [i \in Nodes |-> f[i]] /\ g = [i \in Nodes |-> g[i]]
  BY DEF PathsOn
<1> QED BY <1>2, <1>3

LEMMA PathsAreRelative ==
    ASSUME ParentsAreNodes, Grounded(Nodes), NEW f, PathsOn(Nodes, f)
    PROVE  RelativePath = f
<1>1. PathsOn(Nodes, RelativePath)
  BY DEF RelativePath, PathsOn
<1> QED BY <1>1, PathsUnique

-----------------------------------------------------------------------------
(* The checks, one by one.                                                 *)

\* A snapshot is what the sequence of checks asks for.
LEMMA SnapshotsPass ==
    ASSUME artifact \in Artifacts, IsSnapshot, Constructible
    PROVE  /\ artifact.file = "ok" /\ KeysHold /\ CountsHold
           /\ Cardinality(artifact.snapshots) = 1
           /\ Cardinality({ i \in Nodes : nodes[i].parent = NONE }) = 1
           /\ ClassesHold /\ ValuesHold /\ Contiguous(artifact.positions)
           /\ ParentsHold /\ ParentsAreNodes /\ Rooted /\ Grounded(Nodes)
           /\ NamesHold
           /\ nodes[1].kind = "directory"
           /\ Cardinality(artifact.positions) <= artifact.diagnostic_count
<1>1. /\ NONE \notin Nat \cup {"blank", "ref"} /\ Nodes \subseteq Nat \ {0} /\ 1 \in Nodes
      /\ \A i \in Nodes : nodes[i].content \in Content
  BY Tables DEF IsSnapshot
<1>2. Rooted /\ ParentsAreNodes /\ ParentsHold
  BY <1>1 DEF IsSnapshot, IsTree, Rooted, ParentsAreNodes, ParentsHold
<1>3. Grounded(Nodes)
  BY DEF IsSnapshot, IsTree, Grounded
<1>4. { i \in Nodes : nodes[i].parent = NONE } = {1}
  BY <1>1, <1>2 DEF Rooted, ParentsAreNodes
<1>5. PICK id \in artifact.snapshots :
        artifact.snapshots = {id} /\ \A i \in Nodes : nodes[i].snapshot = id
  BY DEF IsSnapshot
<1>6. KeysHold
  BY <1>2, <1>5 DEF KeysHold, Rooted, ParentsAreNodes
<1>7. CountsHold
  BY <1>1, <1>4, <1>5 DEF CountsHold
<1>8. Cardinality(artifact.snapshots) = 1
      /\ Cardinality({ i \in Nodes : nodes[i].parent = NONE }) = 1
  BY <1>4, <1>5, FS_Singleton
<1>9. \A i \in Nodes : nodes[i].data \notin {"type", "value", "undecodable"}
  BY DEF IsSnapshot
<1>10. \A i \in Nodes : ContentInvariant(i)
  BY <1>1 DEF Constructible, NodeAccepts, ContentInvariant, Content
<1>11. ClassesHold /\ ValuesHold /\ artifact.record # "undecodable"
  BY <1>9, <1>10 DEF ClassesHold, ValuesHold, IsSnapshot
<1>12. Contiguous(artifact.positions)
  <2> DEFINE P == artifact.positions
             n == Cardinality(P)
  <2>1. n \in Nat /\ P = 0 .. n - 1
    BY Tables, FS_CardinalityType DEF IsSnapshot
  <2> HIDE DEF P, n
  <2>2. n = 0 => P = {}
    BY <2>1
  <2>3. n > 0 => {0, n - 1} \subseteq P
    BY <2>1
  <2> QED BY <2>1, <2>2, <2>3 DEF Contiguous, P, n
<1>13. NamesHold
  <2> DEFINE f == [i \in Nodes |-> IF i = 1 THEN << >> ELSE nodes[i].path]
  <2>1. PathsOn(Nodes, f)
    BY <1>2 DEF PathsOn, IsSnapshot, ParentsAreNodes
  <2>2. RelativePath = f
    BY <1>2, <1>3, <2>1, PathsAreRelative
  <2>3. \A i \in Nodes \ {1} : nodes[i].path = RelativePath[i]
    BY <2>2
  <2>4. \A i \in Nodes \ {1} : nodes[i].name \notin {0, Unmountable}
    BY DEF IsSnapshot
  <2>5. nodes[1].path = NONE /\ nodes[1].data = "plain" /\ nodes[1].name = 0
    BY DEF IsSnapshot
  <2>6. 0 # Unmountable
    BY DEF Unmountable
  <2> QED BY <1>9, <1>11, <2>3, <2>4, <2>5, <2>6 DEF NamesHold
<1>14. nodes[1].kind = "directory" /\ artifact.file = "ok"
       /\ Cardinality(artifact.positions) <= artifact.diagnostic_count
  BY DEF IsSnapshot
<1> QED BY <1>2, <1>3, <1>6, <1>7, <1>8, <1>9, <1>11, <1>12, <1>13, <1>14

\* And what passes them is a snapshot whose nodes can be made.
LEMMA PassedIsSnapshot ==
    ASSUME ValidationInv, verdict = "accepted"
    PROVE  IsSnapshot /\ Constructible
<1>1. /\ artifact.file = "ok" /\ KeysHold /\ CountsHold /\ ValuesHold /\ ParentsHold
      /\ Rooted /\ Grounded(Nodes) /\ NamesHold /\ nodes[1].kind = "directory"
      /\ ClassesHold
      /\ Cardinality(artifact.positions) <= artifact.diagnostic_count
  BY DEF ValidationInv, Passed
<1>2. /\ NONE \notin Nat \cup {"blank", "ref"} /\ Nodes \subseteq Nat \ {0}
      /\ \A i \in Nodes : nodes[i].content \in Content /\ nodes[i].data \in Data
      /\ artifact.record \in Record /\ artifact.reports \in Reports
  BY Tables DEF ValidationInv
<1>3. 1 \in Nodes /\ \A i \in Nodes \ {1} : nodes[i].parent \in Nodes
  <2>1. PICK root : { i \in Nodes : nodes[i].parent = NONE } = {root}
    BY <1>1 DEF CountsHold
  <2>2. 1 \in Nodes /\ root = 1
    BY <1>1, <2>1 DEF CountsHold, Rooted
  <2> QED BY <1>1, <2>1, <2>2 DEF KeysHold
<1>4. IsTree
  <2>1. \A i \in Nodes : IF i = 1 THEN nodes[i].parent = NONE
                         ELSE nodes[i].parent \in Nodes /\ nodes[nodes[i].parent].kind = "directory"
    BY <1>1, <1>2, <1>3 DEF ParentsHold, Rooted
  <2> QED BY <1>1, <2>1 DEF IsTree, Grounded
<1>5. \E id \in artifact.snapshots :
        artifact.snapshots = {id} /\ \A i \in Nodes : nodes[i].snapshot = id
  <2>1. PICK id : artifact.snapshots = {id}
    BY <1>1 DEF CountsHold
  <2> QED BY <1>1, <2>1 DEF KeysHold
<1>6. \A i \in Nodes \ {1} :
         /\ nodes[i].name \notin {0, Unmountable}
         /\ nodes[i].data \in {"plain", "observed", "unfreezable"}
  BY <1>1, <1>2 DEF NamesHold, ClassesHold, ValuesHold, Data
<1>7. \A i \in Nodes \ {1} :
        nodes[i].path = Append(IF nodes[i].parent = 1 THEN << >>
                               ELSE nodes[nodes[i].parent].path, nodes[i].name)
  <2>1. ParentsAreNodes /\ artifact \in Artifacts
    BY <1>3 DEF ParentsAreNodes, ValidationInv
  <2>2. PICK f : PathsOn(Nodes, f)
    BY <1>1, <2>1, PathsExist
  <2>3. RelativePath = f
    BY <1>1, <2>1, <2>2, PathsAreRelative
  <2>4. PathsOn(Nodes, RelativePath)
    BY <2>2, <2>3
  <2> SUFFICES ASSUME NEW i \in Nodes \ {1}
               PROVE  nodes[i].path = Append(IF nodes[i].parent = 1 THEN << >>
                                             ELSE nodes[nodes[i].parent].path, nodes[i].name)
    OBVIOUS
  <2>5. RelativePath[i] = Append(RelativePath[nodes[i].parent], nodes[i].name)
        /\ RelativePath[1] = << >>
    BY <1>3, <2>4 DEF PathsOn
  <2>6. nodes[i].path = RelativePath[i]
    BY <1>1 DEF NamesHold
  <2>7. nodes[i].parent # 1 => nodes[nodes[i].parent].path = RelativePath[nodes[i].parent]
    BY <1>1, <1>3 DEF NamesHold
  <2> QED BY <2>5, <2>6, <2>7
<1>8. Constructible
  BY <1>1, <1>2 DEF Constructible, NodeAccepts, ContentInvariant, Content, ValuesHold
<1>9. nodes[1].name = 0 /\ nodes[1].path = NONE /\ nodes[1].data = "plain"
  BY <1>1 DEF NamesHold
<1>10. artifact.positions = 0 .. Cardinality(artifact.positions) - 1
  BY <1>1 DEF ValuesHold
<1>11. artifact.record \in {"plain", "unfreezable"} /\ artifact.reports = "plain"
  BY <1>1, <1>2 DEF ClassesHold, ValuesHold, NamesHold, Record, Reports, Data
<1>12. IsSnapshot
  BY <1>1, <1>3, <1>4, <1>5, <1>6, <1>7, <1>9, <1>10, <1>11 DEF IsSnapshot
<1> QED BY <1>8, <1>12

\* What the checks have found out of the artifact goes on to hold.
LEMMA ArtifactIsFixed ==
    ASSUME artifact' = artifact
    PROVE  /\ KeysHold' = KeysHold /\ CountsHold' = CountsHold
           /\ ClassesHold' = ClassesHold /\ ValuesHold' = ValuesHold
           /\ ParentsHold' = ParentsHold /\ Rooted' = Rooted /\ NamesHold' = NamesHold
           /\ Grounded(Nodes)' = Grounded(Nodes)
           /\ nodes' = nodes /\ Nodes' = Nodes
           /\ IsSnapshot' = IsSnapshot /\ Constructible' = Constructible
<1>1. nodes' = nodes /\ Nodes' = Nodes
  BY DEF nodes, Nodes
<1>2. RelativePath' = RelativePath
  BY <1>1 DEF RelativePath
<1>3. \A i : ContentInvariant(i)' = ContentInvariant(i) /\ NodeAccepts(i)' = NodeAccepts(i)
  BY <1>1 DEF ContentInvariant, NodeAccepts
<1>4. IsTree' = IsTree /\ Grounded(Nodes)' = Grounded(Nodes)
  BY <1>1 DEF IsTree, Grounded
<1>5. KeysHold' = KeysHold /\ CountsHold' = CountsHold /\ ParentsHold' = ParentsHold
      /\ Rooted' = Rooted
  BY <1>1 DEF KeysHold, CountsHold, ParentsHold, Rooted
<1>6. ClassesHold' = ClassesHold /\ ValuesHold' = ValuesHold
  BY <1>1, <1>3 DEF ClassesHold, ValuesHold
<1>7. NamesHold' = NamesHold
  BY <1>1, <1>2 DEF NamesHold
<1>8. IsSnapshot' = IsSnapshot
  BY <1>1, <1>4 DEF IsSnapshot
<1>9. Constructible' = Constructible
  BY <1>1, <1>3 DEF Constructible
<1> QED BY <1>1, <1>4, <1>5, <1>6, <1>7, <1>8, <1>9

LEMMA ValidationBegins ==
    ASSUME ValidationInit
    PROVE  ValidationInv
BY DEF ValidationInit, ValidationInv, Step, Passed, FromKeys, FromCounts, FromClasses,
       FromValues, FromParents, FromWalk, FromNames, FromRoot, FromDiagnostics

\* A refusal, for a reason, or a failure to read.
LEMMA EndKeepsInv ==
    ASSUME ValidationInv, step # "done", NEW v, End(v), v \in {"refused", "unreadable"},
           v = "refused" => ~(IsSnapshot /\ Constructible)
    PROVE  ValidationInv'
<1>1. step' = "done" /\ verdict' = v /\ artifact' = artifact
  BY DEF End
<1>2. IsSnapshot' = IsSnapshot /\ Constructible' = Constructible
  BY <1>1, ArtifactIsFixed
<1> QED BY <1>1, <1>2 DEF ValidationInv, Step, Passed, FromKeys, FromCounts, FromClasses,
       FromValues, FromParents, FromWalk, FromNames, FromRoot, FromDiagnostics

\* What is to be known before the check after one that is passed.
KnownNext ==
    /\ step' \in FromKeys => artifact.file = "ok"
    /\ step' \in FromCounts => KeysHold
    /\ step' \in FromClasses => CountsHold
    /\ step' \in FromValues => ClassesHold
    /\ step' \in FromParents => ValuesHold
    /\ step' \in FromWalk => ParentsHold
    /\ step' = "walk" => WalkInv'
    /\ step' \in FromNames => (Rooted => Grounded(Nodes))
    /\ step' \in FromRoot => NamesHold
    /\ step' \in FromDiagnostics => Rooted /\ nodes[1].kind = "directory"

LEMMA PassKeepsInv ==
    ASSUME ValidationInv, step # "done", artifact' = artifact, verdict' = verdict,
           step' \in Step \ {"done"}, KnownNext
    PROVE  ValidationInv'
<1>1. verdict' = "none"
  BY DEF ValidationInv
<1> USE ArtifactIsFixed
<1>2. /\ artifact' \in Artifacts /\ step' \in Step
      /\ verdict' \in {"none", "accepted", "refused", "unreadable"}
      /\ verdict' = "none" <=> step' # "done"
      /\ verdict' # "accepted" /\ verdict' # "refused"
  BY <1>1 DEF ValidationInv, Step
<1>3. /\ Passed(FromKeys)' => artifact'.file = "ok"
      /\ Passed(FromCounts)' => KeysHold'
      /\ Passed(FromClasses)' => CountsHold'
      /\ Passed(FromValues)' => ClassesHold'
      /\ Passed(FromParents)' => ValuesHold'
      /\ Passed(FromWalk)' => ParentsHold'
      /\ Passed(FromNames)' => (Rooted' => Grounded(Nodes)')
      /\ Passed(FromRoot)' => NamesHold'
      /\ Passed(FromDiagnostics)' => Rooted' /\ nodes'[1].kind = "directory"
  BY <1>2 DEF KnownNext, Passed, FromKeys, FromCounts, FromClasses,
       FromValues, FromParents, FromWalk, FromNames, FromRoot, FromDiagnostics
<1> QED BY <1>2, <1>3 DEF ValidationInv, KnownNext

-----------------------------------------------------------------------------
(* The steps of the validation.                                            *)

LEMMA CheckFileKeepsInv ==
    ASSUME ValidationInv, CheckFile
    PROVE  ValidationInv'
<1> DEFINE cond == artifact.file \in {"ok", "schema"}
<1>1. Check("open", cond, "schema")
  BY DEF CheckFile
<1>2. IsSnapshot /\ Constructible => cond
  BY DEF IsSnapshot
<1> HIDE DEF cond
<1>4. CASE cond
  <2>1. step = "open" /\ step' = "schema" /\ artifact' = artifact /\ verdict' = verdict
    BY <1>1, <1>4 DEF Check
  <2> QED BY <1>4, <2>1, PassKeepsInv DEF KnownNext, ValidationInv, Passed, Step, FromKeys,
       FromCounts, FromClasses, FromValues, FromParents, FromWalk, FromNames, FromRoot, FromDiagnostics
<1>5. CASE ~cond
  <2>1. step = "open" /\ End("refused")
    BY <1>1, <1>5 DEF Check
  <2> QED BY <1>2, <1>5, <2>1, EndKeepsInv
<1> QED BY <1>4, <1>5

LEMMA CheckSchemaKeepsInv ==
    ASSUME ValidationInv, CheckSchema
    PROVE  ValidationInv'
<1> DEFINE cond == artifact.file = "ok"
<1>1. Check("schema", cond, "keys")
  BY DEF CheckSchema
<1>2. IsSnapshot /\ Constructible => cond
  BY DEF IsSnapshot
<1>3. cond => artifact.file = "ok"
  OBVIOUS
<1> HIDE DEF cond
<1>4. CASE cond
  <2>1. step = "schema" /\ step' = "keys" /\ artifact' = artifact /\ verdict' = verdict
    BY <1>1, <1>4 DEF Check
  <2> QED BY <1>3, <1>4, <2>1, PassKeepsInv DEF KnownNext, ValidationInv, Passed, Step, FromKeys,
       FromCounts, FromClasses, FromValues, FromParents, FromWalk, FromNames, FromRoot, FromDiagnostics
<1>5. CASE ~cond
  <2>1. step = "schema" /\ End("refused")
    BY <1>1, <1>5 DEF Check
  <2> QED BY <1>2, <1>5, <2>1, EndKeepsInv
<1> QED BY <1>4, <1>5

LEMMA CheckKeysKeepsInv ==
    ASSUME ValidationInv, CheckKeys
    PROVE  ValidationInv'
<1> DEFINE cond == KeysHold
<1>1. Check("keys", cond, "counts")
  BY DEF CheckKeys, KeysHold
<1>2. IsSnapshot /\ Constructible => cond
  BY SnapshotsPass DEF ValidationInv
<1>3. cond => KeysHold
  OBVIOUS
<1> HIDE DEF cond
<1>4. CASE cond
  <2>1. step = "keys" /\ step' = "counts" /\ artifact' = artifact /\ verdict' = verdict
    BY <1>1, <1>4 DEF Check
  <2> QED BY <1>3, <1>4, <2>1, PassKeepsInv DEF KnownNext, ValidationInv, Passed, Step, FromKeys,
       FromCounts, FromClasses, FromValues, FromParents, FromWalk, FromNames, FromRoot, FromDiagnostics
<1>5. CASE ~cond
  <2>1. step = "keys" /\ End("refused")
    BY <1>1, <1>5 DEF Check
  <2> QED BY <1>2, <1>5, <2>1, EndKeepsInv
<1> QED BY <1>4, <1>5

LEMMA CheckCountsKeepsInv ==
    ASSUME ValidationInv, CheckCounts
    PROVE  ValidationInv'
<1> DEFINE cond == /\ Cardinality(artifact.snapshots) = 1
                   /\ 1 \in Nodes
                   /\ Cardinality({ i \in Nodes : nodes[i].parent = NONE }) = 1
<1>1. Check("counts", cond, "classes")
  BY DEF CheckCounts
<1>2. IsSnapshot /\ Constructible => cond
  BY SnapshotsPass DEF ValidationInv, CountsHold
<1>3. cond => CountsHold
  <2> DEFINE top == { i \in Nodes : nodes[i].parent = NONE }
  <2>1. IsFiniteSet(artifact.snapshots) /\ IsFiniteSet(top)
    BY Tables, FS_Subset DEF ValidationInv
  <2>2. cond => (\E id : artifact.snapshots = {id}) /\ (\E root : top = {root})
    BY <2>1, FS_Singleton
  <2> QED BY <2>2 DEF CountsHold
<1> HIDE DEF cond
<1>4. CASE cond
  <2>1. step = "counts" /\ step' = "classes" /\ artifact' = artifact /\ verdict' = verdict
    BY <1>1, <1>4 DEF Check
  <2> QED BY <1>3, <1>4, <2>1, PassKeepsInv DEF KnownNext, ValidationInv, Passed, Step, FromKeys,
       FromCounts, FromClasses, FromValues, FromParents, FromWalk, FromNames, FromRoot, FromDiagnostics
<1>5. CASE ~cond
  <2>1. step = "counts" /\ End("refused")
    BY <1>1, <1>5 DEF Check
  <2> QED BY <1>2, <1>5, <2>1, EndKeepsInv
<1> QED BY <1>4, <1>5

LEMMA CheckClassesKeepsInv ==
    ASSUME ValidationInv, CheckClasses
    PROVE  ValidationInv'
<1> DEFINE cond == ClassesHold
<1>1. Check("classes", cond, "values")
  BY DEF CheckClasses, ClassesHold
<1>2. IsSnapshot /\ Constructible => cond
  BY SnapshotsPass DEF ValidationInv
<1>3. cond => ClassesHold
  OBVIOUS
<1> HIDE DEF cond
<1>4. CASE cond
  <2>1. step = "classes" /\ step' = "values" /\ artifact' = artifact /\ verdict' = verdict
    BY <1>1, <1>4 DEF Check
  <2> QED BY <1>3, <1>4, <2>1, PassKeepsInv DEF KnownNext, ValidationInv, Passed, Step, FromKeys,
       FromCounts, FromClasses, FromValues, FromParents, FromWalk, FromNames, FromRoot, FromDiagnostics
<1>5. CASE ~cond
  <2>1. step = "classes" /\ End("refused")
    BY <1>1, <1>5 DEF Check
  <2> QED BY <1>2, <1>5, <2>1, EndKeepsInv
<1> QED BY <1>4, <1>5

LEMMA CheckValuesKeepsInv ==
    ASSUME ValidationInv, CheckValues
    PROVE  ValidationInv'
<1> DEFINE cond == /\ artifact.record # "value" /\ artifact.reports # "value"
                   /\ \A i \in Nodes : nodes[i].data # "value"
                   /\ Contiguous(artifact.positions)
                   /\ \A i \in Nodes : ContentInvariant(i)
<1>1. Check("values", cond, "parents")
  BY DEF CheckValues
<1>2. IsSnapshot /\ Constructible => cond
  BY SnapshotsPass DEF ValidationInv, ValuesHold
<1>3. cond => ValuesHold
  <2> DEFINE P == artifact.positions
             n == Cardinality(P)
  <2>1. IsFiniteSet(P) /\ n \in Nat
    BY Tables, FS_CardinalityType DEF ValidationInv
  <2>2. Contiguous(P) => P = 0 .. n - 1
    <3>1. CASE P = {}
      <4>1. n = 0
        BY <3>1, FS_EmptySet
      <4>2. 0 .. n - 1 = {}
        BY <4>1
      <4> QED BY <3>1, <4>2
    <3>2. CASE P # {}
      <4>1. n # 0
        BY <2>1, <3>2, FS_EmptySet
      <4>2. IsFiniteSet(0 .. n - 1) /\ Cardinality(0 .. n - 1) = n
        BY <2>1, <4>1, FS_Interval
      <4>3. P \subseteq 0 .. n - 1 => P = 0 .. n - 1
        BY <4>2, FS_Subset
      <4> QED BY <3>2, <4>3 DEF Contiguous
    <3> QED BY <3>1, <3>2
  <2> QED BY <2>2 DEF ValuesHold
<1> HIDE DEF cond
<1>4. CASE cond
  <2>1. step = "values" /\ step' = "parents" /\ artifact' = artifact /\ verdict' = verdict
    BY <1>1, <1>4 DEF Check
  <2> QED BY <1>3, <1>4, <2>1, PassKeepsInv DEF KnownNext, ValidationInv, Passed, Step, FromKeys,
       FromCounts, FromClasses, FromValues, FromParents, FromWalk, FromNames, FromRoot, FromDiagnostics
<1>5. CASE ~cond
  <2>1. step = "values" /\ End("refused")
    BY <1>1, <1>5 DEF Check
  <2> QED BY <1>2, <1>5, <2>1, EndKeepsInv
<1> QED BY <1>4, <1>5

LEMMA CheckParentsKeepsInv ==
    ASSUME ValidationInv, CheckParents
    PROVE  ValidationInv'
<1>1. step = "parents" /\ artifact' = artifact
  BY DEF CheckParents, End
<1>2. CASE ParentsHold
  <2>1. step' = "walk" /\ verdict' = verdict /\ queue' = << 1 >> /\ reachable' = 1
    BY <1>2 DEF CheckParents, ParentsHold
  <2>2. WalkInv'
    <3>1. artifact \in Artifacts /\ 1 \in Nodes
      BY <1>1 DEF ValidationInv, CountsHold, Passed, FromClasses, FromValues, FromParents
    <3> QED BY <1>1, <2>1, <3>1, WalkBegins
  <2> QED BY <1>1, <1>2, <2>1, <2>2, PassKeepsInv DEF KnownNext, ValidationInv, Passed, Step, FromKeys,
       FromCounts, FromClasses, FromValues, FromParents, FromWalk, FromNames, FromRoot, FromDiagnostics
<1>3. CASE ~ParentsHold
  <2>1. End("refused")
    BY <1>3 DEF CheckParents, ParentsHold
  <2>2. ~(IsSnapshot /\ Constructible)
    BY <1>3, SnapshotsPass DEF ValidationInv
  <2> QED BY <1>1, <2>1, <2>2, EndKeepsInv
<1> QED BY <1>2, <1>3

LEMMA ExpandKeepsInv ==
    ASSUME ValidationInv, Expand
    PROVE  ValidationInv'
<1>1. step = "walk" /\ step' = step /\ artifact' = artifact /\ verdict' = verdict
  BY DEF Expand
<1>2. WalkInv'
  BY <1>1, WalkGoesOn DEF ValidationInv, Expand
<1> QED BY <1>1, <1>2, PassKeepsInv DEF KnownNext, ValidationInv, Passed, Step, FromKeys,
       FromCounts, FromClasses, FromValues, FromParents, FromWalk, FromNames, FromRoot, FromDiagnostics

LEMMA CheckWalkKeepsInv ==
    ASSUME ValidationInv, CheckWalk
    PROVE  ValidationInv'
<1> DEFINE cond == reachable = Cardinality(Nodes)
<1>1. Check("walk", cond, "names")
  BY DEF CheckWalk
<1>2. IsSnapshot /\ Constructible => cond
  <2>1. artifact \in Artifacts /\ WalkInv /\ queue = << >>
    BY <1>1 DEF ValidationInv, CheckWalk, Check
  <2> QED BY <2>1, WalkEnds, SnapshotsPass DEF ParentsAreNodes
<1>3. cond => (Rooted => Grounded(Nodes))
  <2>1. artifact \in Artifacts /\ WalkInv /\ queue = << >>
    BY <1>1 DEF ValidationInv, CheckWalk, Check
  <2> QED BY <2>1, WalkEnds
<1> HIDE DEF cond
<1>4. CASE cond
  <2>1. step = "walk" /\ step' = "names" /\ artifact' = artifact /\ verdict' = verdict
    BY <1>1, <1>4 DEF Check
  <2> QED BY <1>3, <1>4, <2>1, PassKeepsInv DEF KnownNext, ValidationInv, Passed, Step, FromKeys,
       FromCounts, FromClasses, FromValues, FromParents, FromWalk, FromNames, FromRoot, FromDiagnostics
<1>5. CASE ~cond
  <2>1. step = "walk" /\ End("refused")
    BY <1>1, <1>5 DEF Check
  <2> QED BY <1>2, <1>5, <2>1, EndKeepsInv
<1> QED BY <1>4, <1>5

LEMMA CheckNamesKeepsInv ==
    ASSUME ValidationInv, CheckNames
    PROVE  ValidationInv'
<1> DEFINE cond == NamesHold
<1>1. Check("names", cond, "root")
  BY DEF CheckNames, NamesHold
<1>2. IsSnapshot /\ Constructible => cond
  BY SnapshotsPass DEF ValidationInv
<1>3. cond => NamesHold
  OBVIOUS
<1> HIDE DEF cond
<1>4. CASE cond
  <2>1. step = "names" /\ step' = "root" /\ artifact' = artifact /\ verdict' = verdict
    BY <1>1, <1>4 DEF Check
  <2> QED BY <1>3, <1>4, <2>1, PassKeepsInv DEF KnownNext, ValidationInv, Passed, Step, FromKeys,
       FromCounts, FromClasses, FromValues, FromParents, FromWalk, FromNames, FromRoot, FromDiagnostics
<1>5. CASE ~cond
  <2>1. step = "names" /\ End("refused")
    BY <1>1, <1>5 DEF Check
  <2> QED BY <1>2, <1>5, <2>1, EndKeepsInv
<1> QED BY <1>4, <1>5

LEMMA CheckRootKeepsInv ==
    ASSUME ValidationInv, CheckRoot
    PROVE  ValidationInv'
<1> DEFINE cond == nodes[1].parent = NONE /\ nodes[1].kind = "directory"
<1>1. Check("root", cond, "diagnostics")
  BY DEF CheckRoot
<1>2. IsSnapshot /\ Constructible => cond
  BY SnapshotsPass DEF ValidationInv, Rooted
<1>3. cond => Rooted /\ nodes[1].kind = "directory"
  BY DEF Rooted
<1> HIDE DEF cond
<1>4. CASE cond
  <2>1. step = "root" /\ step' = "diagnostics" /\ artifact' = artifact /\ verdict' = verdict
    BY <1>1, <1>4 DEF Check
  <2> QED BY <1>3, <1>4, <2>1, PassKeepsInv DEF KnownNext, ValidationInv, Passed, Step, FromKeys,
       FromCounts, FromClasses, FromValues, FromParents, FromWalk, FromNames, FromRoot, FromDiagnostics
<1>5. CASE ~cond
  <2>1. step = "root" /\ End("refused")
    BY <1>1, <1>5 DEF Check
  <2> QED BY <1>2, <1>5, <2>1, EndKeepsInv
<1> QED BY <1>4, <1>5

LEMMA CheckDiagnosticsKeepsInv ==
    ASSUME ValidationInv, CheckDiagnostics
    PROVE  ValidationInv'
<1> DEFINE few == artifact.diagnostic_count < Cardinality(artifact.positions)
<1>1. step = "diagnostics" /\ step' = "done" /\ artifact' = artifact
      /\ verdict' = IF few THEN "refused" ELSE "accepted"
  BY DEF CheckDiagnostics, End
<1>2. Cardinality(artifact.positions) \in Nat /\ artifact.diagnostic_count \in Nat
  BY Tables, FS_CardinalityType DEF ValidationInv
<1>3. CASE few
  <2>1. End("refused")
    BY <1>3 DEF CheckDiagnostics
  <2>2. ~(IsSnapshot /\ Constructible)
    BY <1>2, <1>3, SnapshotsPass DEF ValidationInv
  <2> QED BY <1>1, <2>1, <2>2, EndKeepsInv
<1>4. CASE ~few
  <2>1. Cardinality(artifact.positions) <= artifact.diagnostic_count
    BY <1>2, <1>4
  <2>2. /\ artifact.file = "ok" /\ KeysHold /\ CountsHold /\ ValuesHold /\ ParentsHold
        /\ ClassesHold
        /\ Rooted => Grounded(Nodes)
        /\ NamesHold /\ Rooted /\ nodes[1].kind = "directory"
    BY <1>1 DEF ValidationInv, Passed, FromKeys, FromCounts, FromClasses, FromValues, FromParents,
       FromWalk, FromNames, FromRoot, FromDiagnostics
  <2>3. verdict' = "accepted" /\ artifact \in Artifacts
    BY <1>1, <1>4 DEF ValidationInv
  <2> HIDE DEF few
  <2> QED BY <1>1, <2>1, <2>2, <2>3, ArtifactIsFixed DEF ValidationInv, Step
<1> QED BY <1>3, <1>4

LEMMA FailToReadKeepsInv ==
    ASSUME ValidationInv, FailToRead
    PROVE  ValidationInv'
BY EndKeepsInv DEF FailToRead

LEMMA ValidateKeepsInv ==
    ASSUME ValidationInv, Validate
    PROVE  ValidationInv'
BY CheckFileKeepsInv, CheckSchemaKeepsInv, CheckKeysKeepsInv, CheckCountsKeepsInv,
   CheckClassesKeepsInv, CheckValuesKeepsInv, CheckParentsKeepsInv, ExpandKeepsInv,
   CheckWalkKeepsInv, CheckNamesKeepsInv, CheckRootKeepsInv, CheckDiagnosticsKeepsInv
   DEF Validate

\* The invariant speaks of the variables of the validation alone.
LEMMA ValidationInvStutters ==
    ASSUME ValidationInv, UNCHANGED validation
    PROVE  ValidationInv'
<1>1. /\ artifact' = artifact /\ step' = step /\ queue' = queue
      /\ reachable' = reachable /\ verdict' = verdict
  BY DEF validation
<1>2. WalkInv' = WalkInv
  BY <1>1, ArtifactIsFixed DEF WalkInv, Walked, Lists, Grounded
<1> QED BY <1>1, <1>2, ArtifactIsFixed DEF ValidationInv, Passed

\* While and after an artifact is opened, by any steps of any threads.
THEOREM ValidationIsInvariant == Spec => []ValidationInv
<1>1. Init => ValidationInv
  BY ValidationBegins DEF Init
<1>2. ValidationInv /\ [Next]_vars => ValidationInv'
  <2> SUFFICES ASSUME ValidationInv, [Next]_vars PROVE ValidationInv'
    OBVIOUS
  <2>1. CASE Open
    BY <2>1, ValidateKeepsInv DEF Open
  <2>2. CASE FailToOpen
    BY <2>2, FailToReadKeepsInv DEF FailToOpen
  <2>3. CASE Close
    BY <2>3, ValidationInvStutters DEF Close
  <2>4. ASSUME NEW t \in Threads, Serve(t) PROVE ValidationInv'
    <3>1. UNCHANGED validation
      BY <2>4 DEF Serve, Call, Return, Query, QuerySnapshot, QueryRoot, QueryNode, QueryParent,
         QueryChild, QueryCount, QueryChildren, QueryNodes, QueryDiagnostics
    <3> QED BY <3>1, ValidationInvStutters
  <2>5. CASE UNCHANGED vars
    BY <2>5, ValidationInvStutters DEF vars
  <2> QED BY <2>1, <2>2, <2>3, <2>4, <2>5 DEF Next
<1> QED BY <1>1, <1>2, PTL DEF Spec

\* An accepted artifact is a snapshot, whatever its tables hold and however many
\* nodes it has, and one that is refused is not or has a node that cannot be made.
THEOREM SnapshotsAreAccepted == Spec => []AcceptsSnapshots
<1>1. ValidationInv => AcceptsSnapshots
  BY PassedIsSnapshot DEF AcceptsSnapshots, ValidationInv
<1> QED BY <1>1, ValidationIsInvariant, PTL

\* Every node of a store that was opened can be made of its row, the values of its
\* JSON texts aside.
THEOREM NodesCanBeServed == Spec => []AcceptedCanBeServed
<1>1. ValidationInv => AcceptedCanBeServed
  BY PassedIsSnapshot DEF AcceptedCanBeServed
<1> QED BY <1>1, ValidationIsInvariant, PTL

-----------------------------------------------------------------------------
(* The calls: what is known between the queries of one.                    *)

\* Where a slice that begins with the given item of n ones begins.
First(n, offset) == IF offset >= 0 THEN offset ELSE IF n + offset > 0 THEN n + offset ELSE 0

Progress(t) ==
    /\ calls[t].request \in Requests /\ calls[t].query \in 1 .. 3
    /\ calls[t].query # 1 =>
         /\ request(t).op = "get_root" => request(t).id \in artifact.snapshots
         /\ request(t).op \in {"lookup", "iter_children"} => request(t).inode \in Nodes
    /\ calls[t].offset = IF request(t).op = "iter_children" /\ calls[t].query = 3
                         THEN First(Cardinality(children(t)), request(t).offset)
                         ELSE request(t).offset

CallsTyped ==
    /\ DOMAIN calls = Threads
    /\ \A t \in Threads : DOMAIN calls[t] = {"request", "query", "offset", "reply"}

CallsInv ==
    /\ connection \in {"none", "open", "closed"}
    /\ connection # "none" <=> verdict = "accepted"
    /\ CallsTyped
    /\ \A t \in Threads : calls[t].request # NONE => verdict = "accepted" /\ Progress(t)

StoreInv == ValidationInv /\ CallsInv

\* A check is made before the verdict only.
LEMMA ChecksComeFirst ==
    ASSUME Validate \/ FailToRead
    PROVE  step # "done" /\ artifact' = artifact
BY DEF Validate, CheckFile, CheckSchema, CheckKeys, CheckCounts, CheckClasses, CheckValues,
       CheckParents, Expand, CheckWalk, CheckNames, CheckRoot, CheckDiagnostics, FailToRead,
       Check, End

\* A call ends with a reply; nothing else of it changes, and no other call.
LEMMA ReplyKeepsCalls ==
    ASSUME CallsInv, UNCHANGED <<validation, connection>>, NEW t \in Threads, NEW x, Reply(t, x)
    PROVE  CallsInv' /\ Pending' = [Pending EXCEPT ![t].reply = x]
<1>1. calls' = [calls EXCEPT ![t].reply = x]
      /\ artifact' = artifact /\ verdict' = verdict /\ connection' = connection
  BY DEF Reply, validation
<1>2. CallsTyped' /\ \A u \in Threads :
        /\ calls'[u].request = calls[u].request /\ calls'[u].query = calls[u].query
        /\ calls'[u].offset = calls[u].offset
        /\ calls'[u].reply = IF u = t THEN x ELSE calls[u].reply
  BY <1>1 DEF CallsInv, CallsTyped
<1>3. \A u \in Threads : Progress(u) => Progress(u)'
  BY <1>1, <1>2, ZenonT(30) DEF Progress, request, children, nodes, Nodes
<1>4. CallsInv'
  BY <1>1, <1>2, <1>3 DEF CallsInv
<1>5. Pending' = [Pending EXCEPT ![t].reply = x]
  BY <1>2 DEF Pending
<1> QED BY <1>4, <1>5

\* A call goes on to its next query; that it does is not seen from outside.
LEMMA NextQueryKeepsCalls ==
    ASSUME CallsInv, UNCHANGED <<validation, connection>>, NEW t \in Threads,
           calls[t].request # NONE, NEW q \in {2, 3}, NEW n,
           calls' = [calls EXCEPT ![t].query = q, ![t].offset = n],
           request(t).op = "get_root" => request(t).id \in artifact.snapshots,
           request(t).op \in {"lookup", "iter_children"} => request(t).inode \in Nodes,
           n = IF request(t).op = "iter_children" /\ q = 3
               THEN First(Cardinality(children(t)), request(t).offset) ELSE request(t).offset
    PROVE  CallsInv' /\ Pending' = Pending
<1>1. artifact' = artifact /\ verdict' = verdict /\ connection' = connection
  BY DEF validation
<1>2. CallsTyped' /\ \A u \in Threads :
        /\ calls'[u].request = calls[u].request /\ calls'[u].reply = calls[u].reply
        /\ calls'[u].query = IF u = t THEN q ELSE calls[u].query
        /\ calls'[u].offset = IF u = t THEN n ELSE calls[u].offset
  BY DEF CallsInv, CallsTyped
<1>3. \A u \in Threads : Progress(u) => Progress(u)'
  <2> SUFFICES ASSUME NEW u \in Threads, Progress(u) PROVE Progress(u)'
    OBVIOUS
  <2>1. request(u)' = request(u) /\ children(u)' = children(u) /\ Nodes' = Nodes
    BY <1>1, <1>2 DEF request, children, nodes, Nodes
  <2>2. CASE u = t
    <3>1. calls'[u].offset = IF request(u)'.op = "iter_children" /\ calls'[u].query = 3
                             THEN First(Cardinality(children(u)'), request(u)'.offset)
                             ELSE request(u)'.offset
      BY <1>2, <2>1, <2>2, ZenonT(30)
    <3>2. calls'[u].request \in Requests /\ calls'[u].query \in 1 .. 3
      <4>1. calls[u].request \in Requests
        BY DEF Progress
      <4>2. q \in 1 .. 3
        OBVIOUS
      <4> QED BY <1>2, <2>2, <4>1, <4>2
    <3>3. /\ request(u)'.op = "get_root" => request(u)'.id \in artifact'.snapshots
          /\ request(u)'.op \in {"lookup", "iter_children"} => request(u)'.inode \in Nodes'
      BY <1>1, <2>1, <2>2
    <3> QED BY <3>1, <3>2, <3>3 DEF Progress
  <2>3. CASE u # t
    BY <1>1, <1>2, <2>1, <2>3 DEF Progress
  <2> QED BY <2>2, <2>3
<1>4. CallsInv'
  BY <1>1, <1>2, <1>3 DEF CallsInv
<1>5. Pending' = Pending
  BY <1>2 DEF Pending
<1> QED BY <1>4, <1>5

LEMMA ContinueKeepsCalls ==
    ASSUME CallsInv, UNCHANGED <<validation, connection>>, NEW t \in Threads,
           calls[t].request # NONE, calls[t].query = 1, Continue(t),
           request(t).op = "get_root" => request(t).id \in artifact.snapshots,
           request(t).op \in {"lookup", "iter_children"} => request(t).inode \in Nodes
    PROVE  CallsInv' /\ Pending' = Pending
<1>1. DOMAIN calls = Threads /\ DOMAIN calls[t] = {"request", "query", "offset", "reply"}
  BY DEF CallsInv, CallsTyped
<1>2. calls[t].offset = request(t).offset
  BY DEF CallsInv, Progress
<1>3. calls' = [calls EXCEPT ![t].query = 2]
  BY DEF Continue
<1>4. artifact' = artifact /\ verdict' = verdict /\ connection' = connection
  BY DEF validation
<1>5. CallsTyped' /\ \A u \in Threads :
        /\ calls'[u].request = calls[u].request /\ calls'[u].reply = calls[u].reply
        /\ calls'[u].query = IF u = t THEN 2 ELSE calls[u].query
        /\ calls'[u].offset = calls[u].offset
  BY <1>3 DEF CallsInv, CallsTyped
<1>6. \A u \in Threads : Progress(u) => Progress(u)'
  <2> SUFFICES ASSUME NEW u \in Threads, Progress(u) PROVE Progress(u)'
    OBVIOUS
  <2>1. request(u)' = request(u) /\ children(u)' = children(u) /\ Nodes' = Nodes
    BY <1>4, <1>5 DEF request, children, nodes, Nodes
  <2>2. CASE u = t
    BY <1>2, <1>4, <1>5, <2>1, <2>2 DEF Progress, request
  <2>3. CASE u # t
    BY <1>4, <1>5, <2>1, <2>3 DEF Progress
  <2> QED BY <2>2, <2>3
<1>7. CallsInv'
  BY <1>4, <1>5, <1>6 DEF CallsInv
<1>8. Pending' = Pending
  BY <1>5 DEF Pending
<1> QED BY <1>7, <1>8

-----------------------------------------------------------------------------
(* What the in-memory store would answer of an accepted artifact.          *)

LEMMA SameOrders ==
    ASSUME NEW S, NEW key
    PROVE  Store!Orders(S, key) = Orders(S, key)
BY Zenon DEF Store!Orders, Orders, Store!IsInjective, IsInjective, Store!Cardinality, Cardinality

LEMMA AcceptedContents ==
    ASSUME ValidationInv, verdict = "accepted"
    PROVE  /\ artifact.snapshots = {Snapshot.id}
           /\ 1 \in Nodes /\ Nodes \subseteq Nat \ {0} /\ IsFiniteSet(Nodes) /\ NONE \notin Nat
           /\ \A i \in Nodes : nodes[i].name \in Int
<1>1. IsSnapshot /\ artifact \in Artifacts
  BY PassedIsSnapshot DEF ValidationInv
<1>2. PICK id : artifact.snapshots = {id}
  BY <1>1 DEF IsSnapshot
<1>3. Snapshot.id = id
  BY <1>2 DEF Snapshot
<1> QED BY <1>1, <1>2, <1>3, Tables DEF IsSnapshot

LEMMA AnswersOfRows ==
    ASSUME ValidationInv, verdict = "accepted", NEW r
    PROVE  /\ r.op \in {"get_snapshot", "get_root"} /\ r.id \notin artifact.snapshots =>
                Store!Answers(Snapshot, r) = {KeyError}
           /\ r.op = "get_snapshot" /\ r.id \in artifact.snapshots =>
                Store!Answers(Snapshot, r) = {Value(r.id)}
           /\ r.op = "get_root" /\ r.id \in artifact.snapshots =>
                Store!Answers(Snapshot, r) = {Value(1)}
           /\ r.op = "get_node" => Store!Answers(Snapshot, r) =
                {IF r.inode \in Nodes THEN Value(r.inode) ELSE KeyError}
           /\ r.op = "diagnostics" => Store!Answers(Snapshot, r) =
                {Value(<<Cardinality(artifact.positions), artifact.diagnostic_count>>)}
           /\ r.op \in {"lookup", "iter_children"} /\ r.inode \notin Nodes =>
                Store!Answers(Snapshot, r) = {KeyError}
<1>1. artifact.snapshots = {Snapshot.id}
  BY AcceptedContents
<1>2. Snapshot.nodes = nodes /\ Snapshot.diagnostics =
        <<Cardinality(artifact.positions), artifact.diagnostic_count>>
  BY DEF Snapshot
<1> QED BY <1>1, <1>2 DEF Store!Answers, Store!KeyError, KeyError, Store!Value, Value, Nodes

\* Of several children with one name, any.
LEMMA AnswersOfLookup ==
    ASSUME NEW r, r.op = "lookup", r.inode \in Nodes,
           NEW found, found = { i \in Nodes : nodes[i].parent = r.inode /\ nodes[i].name = r.name }
    PROVE  /\ found = {} => Store!Answers(Snapshot, r) = {Value(NONE)}
           /\ \A i \in found : Value(i) \in Store!Answers(Snapshot, r)
<1>1. Store!Answers(Snapshot, r) = { Value(j) : j \in Store!Lookup(nodes, r.inode, r.name) }
  <2>1. Snapshot.nodes = nodes
    BY DEF Snapshot
  <2> QED BY <2>1 DEF Store!Answers, Store!Value, Value, Nodes
<1>2. { j \in Store!ChildrenOf(nodes, r.inode) : nodes[j].name = r.name } = found
  BY DEF Store!ChildrenOf, Nodes
<1>3. Store!Lookup(nodes, r.inode, r.name) = IF found = {} THEN {NONE} ELSE found
  BY <1>2 DEF Store!Lookup
<1> QED BY <1>1, <1>3

\* In any order of the names, and none if the offset is behind them all.
LEMMA AnswersOfChildren ==
    ASSUME ValidationInv, verdict = "accepted", NEW r, r.op = "iter_children",
           r.inode \in Nodes, r.offset \in Int,
           NEW S, S = { i \in Nodes : nodes[i].parent = r.inode }
    PROVE  /\ \A o \in Orders(S, [i \in S |-> nodes[i].name]) :
                Value(SubSeq(o, First(Cardinality(S), r.offset) + 1, Len(o)))
                  \in Store!Answers(Snapshot, r)
           /\ r.offset >= 0 /\ r.offset >= Cardinality(S) =>
                Value(<< >>) \in Store!Answers(Snapshot, r)
<1> DEFINE key == [i \in S |-> nodes[i].name]
<1>1. Store!Answers(Snapshot, r) =
        { Value(Store!From(o, r.offset)) :
            o \in Store!ByName(nodes, Store!ChildrenOf(nodes, r.inode)) }
  <2>1. Snapshot.nodes = nodes
    BY DEF Snapshot
  <2> QED BY <2>1 DEF Store!Answers, Store!Value, Value, Nodes
<1>2. Store!ChildrenOf(nodes, r.inode) = S
  BY DEF Store!ChildrenOf, Nodes
<1>3. Store!ByName(nodes, S) = Orders(S, key)
  BY SameOrders DEF Store!ByName
<1>4. Cardinality(S) \in Nat /\ Orders(S, key) # {}
      /\ \A o \in Orders(S, key) : Len(o) = Cardinality(S)
  <2>1. IsFiniteSet(S) /\ \A i \in S : key[i] \in Int
    BY AcceptedContents, FS_Subset
  <2> HIDE DEF key
  <2> QED BY <2>1, OrdersExist, FS_CardinalityType
<1> HIDE DEF key
<1>5. \A o \in Orders(S, key) :
        Store!From(o, r.offset) = SubSeq(o, First(Cardinality(S), r.offset) + 1, Len(o))
  BY <1>4 DEF Store!From, First
<1>6. \A o \in Orders(S, key) :
        Value(SubSeq(o, First(Cardinality(S), r.offset) + 1, Len(o))) \in Store!Answers(Snapshot, r)
  BY <1>1, <1>2, <1>3, <1>5
<1>7. ASSUME r.offset >= 0, r.offset >= Cardinality(S)
      PROVE  Value(<< >>) \in Store!Answers(Snapshot, r)
  <2>1. PICK o \in Orders(S, key) : TRUE
    BY <1>4
  <2>2. First(Cardinality(S), r.offset) = r.offset /\ Len(o) = Cardinality(S)
    BY <1>4, <1>7, <2>1 DEF First
  <2>3. r.offset + 1 \in Int /\ Len(o) \in Int /\ Len(o) < r.offset + 1
    BY <1>4, <1>7, <2>2
  <2>4. SubSeq(o, r.offset + 1, Len(o)) = << >>
    BY <2>3, SubSeqEmpty
  <2> QED BY <1>6, <2>1, <2>2, <2>4
<1> QED BY <1>6, <1>7 DEF key

LEMMA AnswersOfNodes ==
    ASSUME NEW r, r.op = "iter_nodes", NEW o \in Orders(Nodes, [i \in Nodes |-> i])
    PROVE  Value(o) \in Store!Answers(Snapshot, r)
<1>1. Snapshot.nodes = nodes
  BY DEF Snapshot
<1>2. Store!Answers(Snapshot, r) =
        { Value(s) : s \in Store!Orders(Nodes, [i \in Nodes |-> i]) }
  BY <1>1 DEF Store!Answers, Store!Value, Value, Nodes
<1> QED BY <1>2, SameOrders

-----------------------------------------------------------------------------
(* The steps of the store, as steps of SnapshotStore.                      *)

\* A query that ends the call with what the in-memory store would answer, with a
\* failure to read, or without a connection.
Asks(t) ==
    /\ StoreInv /\ UNCHANGED <<validation, connection>>
    /\ calls[t].request # NONE /\ calls[t].reply = NONE

Implemented(t) == CallsInv' /\ (Store!Reply(t) \/ Pending' = Pending)

LEMMA SnapshotIsFixed ==
    ASSUME artifact' = artifact
    PROVE  Snapshot' = Snapshot
BY DEF Snapshot, nodes

LEMMA ReplyImplements ==
    ASSUME NEW t \in Threads, Asks(t), NEW x, Reply(t, x),
           x \in IF connection = "open" THEN Store!Answers(Snapshot, request(t)) \cup {Unreadable}
                 ELSE {Closed}
    PROVE  Implemented(t)
<1>1. CallsInv' /\ Pending' = [Pending EXCEPT ![t].reply = x]
  BY ReplyKeepsCalls DEF Asks, StoreInv
<1>2. connection = "open" <=> connection # "closed"
  BY DEF Asks, StoreInv, CallsInv
<1>3. Pending[t].request = request(t) /\ Pending[t].reply = calls[t].reply
  BY DEF Pending, request
<1>4. Snapshot' = Snapshot /\ connection' = connection
  BY SnapshotIsFixed DEF Asks, validation
<1>5. Store!Closed = Closed /\ Store!Unreadable = Unreadable
  BY DEF Store!Closed, Closed, Store!Unreadable, Unreadable
<1>6. Pending[t].request # NONE /\ Pending[t].reply = NONE
  BY <1>3 DEF Asks, request
<1>7. x \in IF connection # "closed"
            THEN Store!Answers(Snapshot, Pending[t].request) \cup {Store!Unreadable}
            ELSE {Store!Closed}
  BY <1>2, <1>3, <1>5
<1>8. UNCHANGED <<Snapshot, connection # "closed">>
  BY <1>4
<1>9. Store!Reply(t)
  BY <1>1, <1>6, <1>7, <1>8 DEF Store!Reply
<1> QED BY <1>1, <1>9 DEF Implemented

LEMMA FailedQueryImplements ==
    ASSUME NEW t \in Threads, Asks(t),
           \/ connection = "open" /\ Reply(t, Unreadable)
           \/ connection # "open" /\ Reply(t, Closed)
    PROVE  Implemented(t)
<1>1. CASE connection = "open" /\ Reply(t, Unreadable)
  BY <1>1, ReplyImplements
<1>2. CASE connection # "open" /\ Reply(t, Closed)
  BY <1>2, ReplyImplements
<1> QED BY <1>1, <1>2

LEMMA AnswerImplements ==
    ASSUME NEW t \in Threads, Asks(t), connection = "open",
           NEW x, x \in Store!Answers(Snapshot, request(t)) \cup {Unreadable}, Reply(t, x)
    PROVE  Implemented(t)
BY ReplyImplements

LEMMA RowImplements ==
    ASSUME NEW t \in Threads, Asks(t), connection = "open",
           NEW i, Value(i) \in Store!Answers(Snapshot, request(t)), Row(t, i)
    PROVE  Implemented(t)
<1>1. CASE nodes[i].data = "unfreezable"
  BY <1>1, AnswerImplements DEF Row
<1>2. CASE nodes[i].data # "unfreezable"
  BY <1>2, AnswerImplements DEF Row
<1> QED BY <1>1, <1>2

LEMMA RowsImplement ==
    ASSUME NEW t \in Threads, Asks(t), connection = "open",
           NEW s, Value(s) \in Store!Answers(Snapshot, request(t)), Rows(t, s)
    PROVE  Implemented(t)
<1>1. CASE \E k \in DOMAIN s : nodes[s[k]].data = "unfreezable"
  BY <1>1, AnswerImplements DEF Rows
<1>2. CASE ~ \E k \in DOMAIN s : nodes[s[k]].data = "unfreezable"
  BY <1>2, AnswerImplements DEF Rows
<1> QED BY <1>1, <1>2

LEMMA ContinueImplements ==
    ASSUME NEW t \in Threads, Asks(t), calls[t].query = 1, Continue(t),
           request(t).op = "get_root" => request(t).id \in artifact.snapshots,
           request(t).op \in {"lookup", "iter_children"} => request(t).inode \in Nodes
    PROVE  Implemented(t)
BY ContinueKeepsCalls DEF Implemented, Asks, StoreInv

LEMMA AskedOfAccepted ==
    ASSUME NEW t \in Threads, Asks(t)
    PROVE  ValidationInv /\ verdict = "accepted" /\ Progress(t)
BY DEF Asks, StoreInv, CallsInv

LEMMA QuerySnapshotImplements ==
    ASSUME StoreInv, NEW t \in Threads, QuerySnapshot(t)
    PROVE  Implemented(t)
<1> DEFINE r == request(t)
<1>1. Asks(t) /\ r.op \in {"get_snapshot", "get_root"} /\ calls[t].query = 1
  BY DEF QuerySnapshot, Query, Asks, request
<1>2. CASE connection = "open" /\ r.id \notin artifact.snapshots /\ Reply(t, KeyError)
  BY <1>1, <1>2, AnswersOfRows, AskedOfAccepted, AnswerImplements
<1>3. CASE connection = "open" /\ r.id \in artifact.snapshots /\ r.op = "get_root" /\ Continue(t)
  BY <1>1, <1>3, ContinueImplements
<1>4. CASE connection = "open" /\ r.id \in artifact.snapshots /\ r.op = "get_snapshot"
           /\ Reply(t, Value(r.id))
  BY <1>1, <1>4, AnswersOfRows, AskedOfAccepted, AnswerImplements
<1>5. CASE \/ connection = "open" /\ Reply(t, Unreadable)
           \/ connection # "open" /\ Reply(t, Closed)
  BY <1>1, <1>5, FailedQueryImplements
<1> QED BY <1>1, <1>2, <1>3, <1>4, <1>5 DEF QuerySnapshot, Query

LEMMA QueryRootImplements ==
    ASSUME StoreInv, NEW t \in Threads, QueryRoot(t)
    PROVE  Implemented(t)
<1> DEFINE r == request(t)
<1>1. Asks(t) /\ r.op = "get_root" /\ calls[t].query = 2
  BY DEF QueryRoot, Query, Asks, request
<1>2. CASE connection = "open" /\ Row(t, 1)
  <2>1. r.id \in artifact.snapshots
    BY <1>1, AskedOfAccepted DEF Progress
  <2> QED BY <1>1, <1>2, <2>1, AnswersOfRows, AskedOfAccepted, RowImplements
<1>3. CASE \/ connection = "open" /\ Reply(t, Unreadable)
           \/ connection # "open" /\ Reply(t, Closed)
  BY <1>1, <1>3, FailedQueryImplements
<1> QED BY <1>2, <1>3 DEF QueryRoot, Query

LEMMA QueryNodeImplements ==
    ASSUME StoreInv, NEW t \in Threads, QueryNode(t)
    PROVE  Implemented(t)
<1> DEFINE r == request(t)
<1>1. Asks(t) /\ r.op = "get_node"
  BY DEF QueryNode, Query, Asks, request
<1>2. CASE connection = "open" /\ r.inode \in Nodes /\ Row(t, r.inode)
  BY <1>1, <1>2, AnswersOfRows, AskedOfAccepted, RowImplements
<1>3. CASE connection = "open" /\ r.inode \notin Nodes /\ Reply(t, KeyError)
  BY <1>1, <1>3, AnswersOfRows, AskedOfAccepted, AnswerImplements
<1>4. CASE \/ connection = "open" /\ Reply(t, Unreadable)
           \/ connection # "open" /\ Reply(t, Closed)
  BY <1>1, <1>4, FailedQueryImplements
<1> QED BY <1>2, <1>3, <1>4 DEF QueryNode, Query

LEMMA QueryParentImplements ==
    ASSUME StoreInv, NEW t \in Threads, QueryParent(t)
    PROVE  Implemented(t)
<1> DEFINE r == request(t)
<1>1. Asks(t) /\ r.op \in {"lookup", "iter_children"} /\ calls[t].query = 1
  BY DEF QueryParent, Query, Asks, request
<1>2. CASE connection = "open" /\ r.inode \notin Nodes /\ Reply(t, KeyError)
  BY <1>1, <1>2, AnswersOfRows, AskedOfAccepted, AnswerImplements
<1>3. CASE connection = "open" /\ r.inode \in Nodes /\ Continue(t)
  BY <1>1, <1>3, ContinueImplements
<1>4. CASE \/ connection = "open" /\ Reply(t, Unreadable)
           \/ connection # "open" /\ Reply(t, Closed)
  BY <1>1, <1>4, FailedQueryImplements
<1> QED BY <1>2, <1>3, <1>4 DEF QueryParent, Query

LEMMA QueryChildImplements ==
    ASSUME StoreInv, NEW t \in Threads, QueryChild(t)
    PROVE  Implemented(t)
<1> DEFINE r == request(t)
           found == { i \in children(t) : nodes[i].name = r.name }
<1>1. Asks(t) /\ r.op = "lookup" /\ calls[t].query = 2
  BY DEF QueryChild, Query, Asks, request
<1>2. r.inode \in Nodes
  BY <1>1, AskedOfAccepted DEF Progress
<1>3. found = { i \in Nodes : nodes[i].parent = r.inode /\ nodes[i].name = r.name }
  BY DEF children
<1>4. /\ found = {} => Store!Answers(Snapshot, r) = {Value(NONE)}
      /\ \A i \in found : Value(i) \in Store!Answers(Snapshot, r)
  <2>1. r.op = "lookup"
    BY <1>1
  <2> HIDE DEF r, found
  <2> QED BY <1>2, <1>3, <2>1, AnswersOfLookup
<1>5. CASE connection = "open" /\ found = {} /\ Reply(t, Value(NONE))
  BY <1>1, <1>4, <1>5, AnswerImplements
<1>6. CASE connection = "open" /\ \E i \in found : Row(t, i)
  BY <1>1, <1>4, <1>6, RowImplements
<1>7. CASE \/ connection = "open" /\ Reply(t, Unreadable)
           \/ connection # "open" /\ Reply(t, Closed)
  BY <1>1, <1>7, FailedQueryImplements
<1> QED BY <1>5, <1>6, <1>7 DEF QueryChild, Query

LEMMA QueryCountImplements ==
    ASSUME StoreInv, NEW t \in Threads, QueryCount(t)
    PROVE  Implemented(t)
<1> DEFINE r == request(t)
           n == Cardinality(children(t))
<1>1. Asks(t) /\ r.op = "iter_children" /\ calls[t].query = 2
  BY DEF QueryCount, Query, Asks, request
<1>2. r.inode \in Nodes /\ calls[t].offset = r.offset /\ r \in Requests /\ r.offset \in Int
  BY <1>1, AskedOfAccepted, StoreAssumptions DEF Progress, request
<1>3. CASE connection = "open" /\ r.offset >= 0 /\ r.offset >= n /\ Reply(t, Value(<< >>))
  <2>1. Value(<< >>) \in Store!Answers(Snapshot, r)
    BY <1>1, <1>2, <1>3, AnswersOfChildren, AskedOfAccepted DEF children
  <2> QED BY <1>1, <1>3, <2>1, AnswerImplements
<1>4. CASE connection = "open"
           /\ calls' = [calls EXCEPT ![t].query = 3,
                                     ![t].offset = IF @ >= 0 THEN @
                                                   ELSE IF n + @ > 0 THEN n + @ ELSE 0]
  <2>1. DOMAIN calls = Threads /\ DOMAIN calls[t] = {"request", "query", "offset", "reply"}
    BY DEF StoreInv, CallsInv, CallsTyped
  <2>2. calls' = [calls EXCEPT ![t].query = 3, ![t].offset = First(n, r.offset)]
    BY <1>2, <1>4, <2>1 DEF First
  <2> DEFINE m == First(n, r.offset)
  <2> HIDE DEF m, r, n
  <2>3. calls' = [calls EXCEPT ![t].query = 3, ![t].offset = m]
    BY <2>2 DEF m
  <2>4. m = IF request(t).op = "iter_children" /\ 3 = 3
            THEN First(Cardinality(children(t)), request(t).offset) ELSE request(t).offset
    BY <1>1 DEF m, r, n
  <2>5. CallsInv' /\ Pending' = Pending
    BY <1>1, <1>2, <2>3, <2>4, NextQueryKeepsCalls DEF Asks, StoreInv, r
  <2> QED BY <2>5 DEF Implemented
<1>5. CASE \/ connection = "open" /\ Reply(t, Unreadable)
           \/ connection # "open" /\ Reply(t, Closed)
  BY <1>1, <1>5, FailedQueryImplements
<1> QED BY <1>3, <1>4, <1>5 DEF QueryCount, Query

LEMMA QueryChildrenImplements ==
    ASSUME StoreInv, NEW t \in Threads, QueryChildren(t)
    PROVE  Implemented(t)
<1> DEFINE r == request(t)
           S == children(t)
           rows(o) == SubSeq(o, calls[t].offset + 1, Len(o))
<1>1. Asks(t) /\ r.op = "iter_children" /\ calls[t].query = 3
  BY DEF QueryChildren, Query, Asks, request
<1>2. r.inode \in Nodes /\ r \in Requests /\ r.offset \in Int
      /\ calls[t].offset = First(Cardinality(children(t)), r.offset)
  BY <1>1, AskedOfAccepted, StoreAssumptions DEF Progress, request
<1>3. \A o \in Orders(S, [i \in S |-> nodes[i].name]) : Value(rows(o)) \in Store!Answers(Snapshot, r)
  BY <1>1, <1>2, AnswersOfChildren, AskedOfAccepted DEF children
<1>4. CASE connection = "open"
           /\ \E o \in Orders(S, [i \in S |-> nodes[i].name]) : Rows(t, rows(o))
  BY <1>1, <1>3, <1>4, RowsImplement
<1>5. CASE \/ connection = "open" /\ Reply(t, Unreadable)
           \/ connection # "open" /\ Reply(t, Closed)
  BY <1>1, <1>5, FailedQueryImplements
<1> QED BY <1>4, <1>5 DEF QueryChildren, Query

LEMMA QueryNodesImplements ==
    ASSUME StoreInv, NEW t \in Threads, QueryNodes(t)
    PROVE  Implemented(t)
<1>1. Asks(t) /\ request(t).op = "iter_nodes"
  BY DEF QueryNodes, Query, Asks, request
<1>2. CASE connection = "open" /\ \E o \in Orders(Nodes, [i \in Nodes |-> i]) : Rows(t, o)
  BY <1>1, <1>2, AnswersOfNodes, RowsImplement
<1>3. CASE \/ connection = "open" /\ Reply(t, Unreadable)
           \/ connection # "open" /\ Reply(t, Closed)
  BY <1>1, <1>3, FailedQueryImplements
<1> QED BY <1>2, <1>3 DEF QueryNodes, Query

LEMMA QueryDiagnosticsImplements ==
    ASSUME StoreInv, NEW t \in Threads, QueryDiagnostics(t)
    PROVE  Implemented(t)
<1>1. Asks(t) /\ request(t).op = "diagnostics"
  BY DEF QueryDiagnostics, Query, Asks, request
<1>2. CASE connection = "open"
           /\ Reply(t, Value(<<Cardinality(artifact.positions), artifact.diagnostic_count>>))
  BY <1>1, <1>2, AnswersOfRows, AskedOfAccepted, AnswerImplements
<1>3. CASE \/ connection = "open" /\ Reply(t, Unreadable)
           \/ connection # "open" /\ Reply(t, Closed)
  BY <1>1, <1>3, FailedQueryImplements
<1> QED BY <1>2, <1>3 DEF QueryDiagnostics, Query

LEMMA CallImplements ==
    ASSUME StoreInv, NEW t \in Threads, Call(t)
    PROVE  CallsInv' /\ Store!Call(t)
<1>1. PICK r \in Requests : calls' = [calls EXCEPT ![t].request = r, ![t].offset = r.offset]
  BY DEF Call
<1>2. /\ verdict = "accepted" /\ calls[t] = Idle
      /\ artifact' = artifact /\ verdict' = verdict /\ connection' = connection
  BY DEF Call, validation
<1>3. /\ calls[t].request = NONE /\ calls[t].reply = NONE
      /\ calls[t].query = 1 /\ calls[t].offset = 0
  BY <1>2 DEF Idle
<1>4. CallsTyped' /\ \A u \in Threads :
        /\ calls'[u].request = IF u = t THEN r ELSE calls[u].request
        /\ calls'[u].offset = IF u = t THEN r.offset ELSE calls[u].offset
        /\ calls'[u].query = calls[u].query /\ calls'[u].reply = calls[u].reply
  BY <1>1 DEF StoreInv, CallsInv, CallsTyped
<1>5. Progress(t)'
  <2>1. calls'[t].request = r /\ calls'[t].query = 1 /\ calls'[t].offset = r.offset
    BY <1>3, <1>4
  <2> QED BY <2>1 DEF Progress, request
<1>6. ASSUME NEW u \in Threads, u # t, Progress(u) PROVE Progress(u)'
  <2>1. request(u)' = request(u) /\ children(u)' = children(u) /\ Nodes' = Nodes
    BY <1>2, <1>4, <1>6 DEF request, children, nodes, Nodes
  <2> QED BY <1>2, <1>4, <1>6, <2>1 DEF Progress
<1>7. CallsInv'
  BY <1>2, <1>4, <1>5, <1>6 DEF StoreInv, CallsInv
<1>8. Pending' = [Pending EXCEPT ![t].request = r]
  BY <1>4 DEF Pending
<1>9. Pending[t] = Store!Idle
  BY <1>3 DEF Pending, Store!Idle
<1>10. Snapshot' = Snapshot
  BY <1>2, SnapshotIsFixed
<1> QED BY <1>2, <1>7, <1>8, <1>9, <1>10 DEF Store!Call

LEMMA ReturnImplements ==
    ASSUME StoreInv, NEW t \in Threads, Return(t)
    PROVE  CallsInv' /\ Store!Return(t)
<1>1. /\ calls' = [calls EXCEPT ![t] = Idle] /\ calls[t].reply # NONE
      /\ artifact' = artifact /\ verdict' = verdict /\ connection' = connection
  BY DEF Return, validation
<1>2. CallsTyped' /\ \A u \in Threads : calls'[u] = IF u = t THEN Idle ELSE calls[u]
  BY <1>1 DEF StoreInv, CallsInv, CallsTyped, Idle
<1>3. Idle.request = NONE /\ Idle.reply = NONE
  BY DEF Idle
<1>4. ASSUME NEW u \in Threads, u # t, Progress(u) PROVE Progress(u)'
  <2>1. request(u)' = request(u) /\ children(u)' = children(u) /\ Nodes' = Nodes
    BY <1>1, <1>2, <1>4 DEF request, children, nodes, Nodes
  <2> QED BY <1>1, <1>2, <1>4, <2>1 DEF Progress
<1>5. CallsInv'
  BY <1>1, <1>2, <1>3, <1>4 DEF StoreInv, CallsInv
<1>6. Pending' = [Pending EXCEPT ![t] = Store!Idle] /\ Pending[t].reply # NONE
  BY <1>1, <1>2, <1>3 DEF Pending, Store!Idle
<1>7. Snapshot' = Snapshot
  BY <1>1, SnapshotIsFixed
<1> QED BY <1>1, <1>5, <1>6, <1>7 DEF Store!Return

LEMMA CallsStutter ==
    ASSUME CallsInv, artifact' = artifact, calls' = calls, verdict' = verdict,
           connection' \in {"none", "open", "closed"},
           connection' # "none" <=> connection # "none"
    PROVE  CallsInv' /\ Pending' = Pending
<1>1. CallsTyped' /\ Pending' = Pending
  BY DEF CallsInv, CallsTyped, Pending
<1>2. \A t \in Threads : Progress(t) => Progress(t)'
  BY DEF Progress, request, children, nodes, Nodes
<1> QED BY <1>1, <1>2 DEF CallsInv

\* Before the verdict there is no store, and no call to it.
LEMMA OpeningStutters ==
    ASSUME StoreInv, Open \/ FailToOpen
    PROVE  CallsInv' /\ UNCHANGED <<Snapshot, Pending, connection # "closed">>
<1>1. step # "done" /\ artifact' = artifact /\ calls' = calls
  BY ChecksComeFirst DEF Open, FailToOpen
<1>2. verdict = "none" /\ connection = "none" /\ \A t \in Threads : calls[t].request = NONE
  BY <1>1 DEF StoreInv, ValidationInv, CallsInv
<1>3. connection' = IF verdict' = "accepted" THEN "open" ELSE "none"
  BY <1>2 DEF Open, FailToOpen, FailToRead, End
<1>4. CallsTyped' /\ Pending' = Pending
  BY <1>1 DEF StoreInv, CallsInv, CallsTyped, Pending
<1> QED BY <1>1, <1>2, <1>3, <1>4, SnapshotIsFixed DEF CallsInv

LEMMA ServeImplements ==
    ASSUME StoreInv, NEW t \in Threads, Serve(t)
    PROVE  /\ CallsInv' /\ UNCHANGED <<validation, connection, Snapshot>>
           /\ Store!Call(t) \/ Store!Reply(t) \/ Store!Return(t) \/ Pending' = Pending
<1>1. UNCHANGED <<validation, connection>>
  BY DEF Serve, Call, Return, Query, QuerySnapshot, QueryRoot, QueryNode, QueryParent,
     QueryChild, QueryCount, QueryChildren, QueryNodes, QueryDiagnostics
<1>2. Snapshot' = Snapshot
  BY <1>1, SnapshotIsFixed DEF validation
<1>3. CASE Call(t)
  BY <1>1, <1>2, <1>3, CallImplements
<1>4. CASE Return(t)
  BY <1>1, <1>2, <1>4, ReturnImplements
<1>5. ASSUME ~Call(t), ~Return(t) PROVE Implemented(t)
  BY <1>5, QuerySnapshotImplements, QueryRootImplements, QueryNodeImplements,
     QueryParentImplements, QueryChildImplements, QueryCountImplements,
     QueryChildrenImplements, QueryNodesImplements, QueryDiagnosticsImplements DEF Serve
<1> QED BY <1>1, <1>2, <1>3, <1>4, <1>5 DEF Implemented

LEMMA StoreInit ==
    ASSUME Init
    PROVE  StoreInv /\ Store!Init
<1>1. ValidationInv /\ verdict = "none" /\ connection = "none"
  BY ValidationBegins DEF Init, ValidationInit
<1>2. CallsTyped /\ \A t \in Threads : calls[t] = Idle
  BY DEF Init, CallsTyped, Idle
<1>3. \A t \in Threads : calls[t].request = NONE /\ calls[t].reply = NONE
  BY <1>2 DEF Idle
<1>4. Pending = [t \in Threads |-> Store!Idle]
  BY <1>3 DEF Pending, Store!Idle
<1> QED BY <1>1, <1>2, <1>3, <1>4 DEF StoreInv, CallsInv, Store!Init

LEMMA StoreStep ==
    ASSUME StoreInv, [Next]_vars
    PROVE  CallsInv' /\ [Store!Next]_(Store!vars)
<1>1. CASE Open \/ FailToOpen
  BY <1>1, OpeningStutters DEF Store!vars
<1>2. CASE Close
  <2>1. artifact' = artifact /\ calls' = calls /\ verdict' = verdict
        /\ connection # "none" /\ connection' = "closed"
    BY <1>2 DEF Close, validation
  <2>2. CallsInv' /\ Pending' = Pending
    BY <2>1, CallsStutter DEF StoreInv
  <2>3. Store!Close
    BY <2>1, <2>2, SnapshotIsFixed DEF Store!Close
  <2> QED BY <2>2, <2>3 DEF Store!Next
<1>3. ASSUME NEW t \in Threads, Serve(t) PROVE CallsInv' /\ [Store!Next]_(Store!vars)
  <2>1. CASE Store!Call(t) \/ Store!Reply(t) \/ Store!Return(t)
    BY <1>3, <2>1, ServeImplements DEF Store!Next
  <2>2. CASE Pending' = Pending
    BY <1>3, <2>2, ServeImplements DEF Store!vars
  <2> QED BY <1>3, <2>1, <2>2, ServeImplements
<1>4. CASE UNCHANGED vars
  <2>1. artifact' = artifact /\ calls' = calls /\ verdict' = verdict /\ connection' = connection
    BY <1>4 DEF vars, validation
  <2>2. CallsInv' /\ Pending' = Pending
    BY <2>1, CallsStutter DEF StoreInv, CallsInv
  <2> QED BY <2>1, <2>2, SnapshotIsFixed DEF Store!vars
<1> QED BY <1>1, <1>2, <1>3, <1>4 DEF Next

\* A call of several queries, made by any number of threads while others close the
\* store, is answered as one lookup in the in-memory store would be, whatever the
\* tables of the artifact hold; where children of a node have one name, which
\* validation lets pass, as a lookup that may take any of them.
THEOREM StoreIsImplemented == Spec => ImplementsStore
<1>1. Init => StoreInv /\ Store!Init
  BY StoreInit
<1>2. StoreInv /\ ValidationInv' /\ [Next]_vars => StoreInv' /\ [Store!Next]_(Store!vars)
  BY StoreStep DEF StoreInv
<1> QED BY <1>1, <1>2, ValidationIsInvariant, PTL DEF Spec, ImplementsStore, Store!Spec
=============================================================================
