-------------------------- MODULE LineDecoderProofs --------------------------
(***************************************************************************)
(* Proofs that the decoder keeps no more of a stream than a line at the    *)
(* limit and one read, and that what it yields depends on the stream       *)
(* alone, for every stream, limit and read size.                           *)
(*                                                                         *)
(* The second rests on an invariant (DecodeInv): what is pending is the    *)
(* slice of the stream from the start of a line to what has been read, no  *)
(* newline in it has been overlooked, every line before it has been        *)
(* yielded, and no byte before it is bad.  That the offset of an error is  *)
(* that of the first bad byte of the whole stream needs the decoders of    *)
(* Python to be local: what is bad in a line is what is bad in the stream  *)
(* there (BadOfLine), as neither a sequence of UTF-8 nor a pair of UTF-16  *)
(* reaches across a newline.                                               *)
(***************************************************************************)
EXTENDS LineDecoder, SequenceTheorems, FiniteSetTheorems, WellFoundedInduction, TLAPS

\* The types that the bound rests on.  Only an encoding that takes its byte order
\* from the stream can be without one.
Types == TypeOK /\ (UTF16 /\ encoding # "utf-16" => byte_order # NONE)

BoundInv == Types /\ PendingBounded

THEOREM BoundInit == Init => BoundInv
BY DecoderAssumptions DEF Init, BoundInv, Types, TypeOK, PendingBounded, UTF16, Encoding

\* The bytes behind an offset are no more than there were.
LEMMA RestIsShorter ==
    ASSUME NEW s \in Seq(Byte), NEW i \in Nat \ {0}
    PROVE  SubSeq(s, i, Len(s)) \in Seq(Byte) /\ Len(SubSeq(s, i, Len(s))) <= Len(s)
<1>1. \A k \in i .. Len(s) : s[k] \in Byte
  OBVIOUS
<1>2. SubSeq(s, i, Len(s)) \in Seq(Byte)
      /\ Len(SubSeq(s, i, Len(s))) = IF i <= Len(s) THEN Len(s) - i + 1 ELSE 0
  BY <1>1, SubSeqProperties
<1> QED BY <1>2

\* A chunk of the stream holds the bytes that were read.
LEMMA ChunkOfStream ==
    ASSUME Types, NEW n \in Nat \ {0}, position + n <= Len(stream)
    PROVE  LET s == pending \o SubSeq(stream, position + 1, position + n)
           IN  s \in Seq(Byte) /\ Len(s) = Len(pending) + n
<1> DEFINE chunk == SubSeq(stream, position + 1, position + n)
<1>1. \A k \in position + 1 .. position + n : stream[k] \in Byte
  BY DEF Types, TypeOK
<1>2. chunk \in Seq(Byte) /\ Len(chunk) = n
  BY <1>1, SubSeqProperties DEF Types, TypeOK
<1> HIDE DEF chunk
<1>3. pending \o chunk \in Seq(Byte) /\ Len(pending \o chunk) = Len(pending) + n
  BY <1>2 DEF Types, TypeOK
<1> QED BY <1>3 DEF chunk

\* Taking the carriage return away leaves all but one unit.
LEMMA WithoutOneUnit ==
    ASSUME NEW raw \in Seq(Byte)
    PROVE  Len(WithoutCR(raw)) >= Len(raw) - Width
<1>1. Width \in {1, 2}
  BY DEF Width
<1>2. Len(SubSeq(raw, 1, Len(raw) - Width)) >= Len(raw) - Width
  <2>1. \A k \in 1 .. Len(raw) - Width : raw[k] \in Byte
    BY <1>1
  <2>2. Len(SubSeq(raw, 1, Len(raw) - Width))
          = IF 1 <= Len(raw) - Width THEN Len(raw) - Width - 1 + 1 ELSE 0
    BY <1>1, <2>1, SubSeqProperties
  <2> QED BY <1>1, <2>2
<1> QED BY <1>1, <1>2 DEF WithoutCR

\* The length of a content is a number.
LEMMA ContentLength == ASSUME NEW raw \in Seq(Byte) PROVE Len(WithoutCR(raw)) \in Nat
<1>1. \A k \in 1 .. Len(raw) - Width : raw[k] \in Byte
  BY DEF Width
<1>2. SubSeq(raw, 1, Len(raw) - Width) \in Seq(Byte)
  BY <1>1, SubSeqProperties DEF Width
<1> QED BY <1>2 DEF WithoutCR

-----------------------------------------------------------------------------

\* The end of the generator leaves what was pending.
LEMMA DoneBound ==
    ASSUME BoundInv, pc' = "done", position' \in Nat,
           UNCHANGED <<encoding, stream, byte_order>>,
           UNCHANGED <<pending, line_start, line_number, search_from>>
    PROVE  BoundInv'
BY DecoderAssumptions DEF BoundInv, Types, TypeOK, PendingBounded, UTF16

\* A read adds its bytes and goes on to the search, unless they do not yet tell
\* the byte order: then there is less than one unit.
LEMMA ReadBound == ASSUME BoundInv, NEW n \in 1 .. READ_SIZE, Read(n) PROVE BoundInv'
<1> DEFINE s == pending \o SubSeq(stream, position + 1, position + n)
<1> USE DecoderAssumptions
<1>1. s \in Seq(Byte) /\ Len(s) = Len(pending) + n
  BY ChunkOfStream DEF BoundInv, Read
<1>2. pc = "read" /\ Len(pending) <= max_line_bytes + 3 /\ Len(pending) \in Nat
  BY DEF BoundInv, PendingBounded, Read, Types, TypeOK
<1>3. UNCHANGED <<encoding, stream>> /\ position' = position + n /\ position' \in Nat
  BY DEF Read, BoundInv, Types, TypeOK
<1> HIDE DEF s
<1>4. CASE ByteOrder(s) = "missing"
  <2>1. /\ pc' = "done" /\ UNCHANGED byte_order
        /\ UNCHANGED <<pending, line_start, line_number, search_from>>
    BY <1>4 DEF Read, Raise, lineVars, s
  <2> QED BY <1>3, <2>1, DoneBound
<1>5. CASE ByteOrder(s) # "missing"
  <2>1. /\ pending' = s /\ byte_order' = ByteOrder(s) /\ search_from' = search_from
        /\ pc' = IF UTF16 /\ ByteOrder(s) = NONE THEN "read" ELSE "split"
        /\ UNCHANGED <<line_start, line_number>>
    BY <1>5 DEF Read, s
  <2>2. ByteOrder(s) = NONE => byte_order = NONE /\ (encoding = "utf-16" => Len(s) < 2)
    BY <1>1 DEF ByteOrder
  <2>3. Types'
    BY <1>1, <1>3, <1>5, <2>1, <2>2 DEF ByteOrder, BoundInv, Types, TypeOK, UTF16
  <2>4. PendingBounded'
    <3>1. CASE pc' = "read"
      <4>1. Len(s) < 2
        BY <2>1, <2>2, <3>1 DEF BoundInv, Types, TypeOK
      <4> QED BY <1>1, <2>1, <3>1, <4>1 DEF PendingBounded
    <3>2. CASE pc' # "read"
      BY <1>1, <1>2, <2>1, <3>2 DEF PendingBounded
    <3> QED BY <3>1, <3>2
  <2> QED BY <2>3, <2>4 DEF BoundInv
<1> QED BY <1>4, <1>5

\* A line that was taken is no longer pending.
LEMMA TakeBound == ASSUME BoundInv, TakeLine PROVE BoundInv'
<1> USE DecoderAssumptions
<1>1. PICK at \in Newlines :
        LET content == WithoutCR(SubSeq(pending, 1, at))
        IN  IF Verdict(content) # NONE
            THEN Raise(Verdict(content))
            ELSE /\ pending' = SubSeq(pending, at + Width + 1, Len(pending))
                 /\ search_from' = 0
                 /\ line_start' = line_start + at + Width /\ line_number' = line_number + 1
                 /\ UNCHANGED <<pc, error>>
  BY DEF TakeLine
<1>2. at + Width + 1 \in Nat \ {0} /\ line_start + at + Width \in Nat
  BY DEF Newlines, NewlinesIn, Width, BoundInv, Types, TypeOK
<1>3. UNCHANGED <<encoding, stream, position, byte_order>> /\ pc = "split"
  BY DEF TakeLine
<1>4. CASE pc' = "done" /\ UNCHANGED <<pending, line_start, line_number, search_from>>
  BY <1>3, <1>4, DoneBound DEF BoundInv, Types, TypeOK
<1>5. CASE /\ pending' = SubSeq(pending, at + Width + 1, Len(pending))
           /\ search_from' = 0 /\ pc' = pc
           /\ line_start' = line_start + at + Width /\ line_number' = line_number + 1
  <2>1. pending' \in Seq(Byte) /\ Len(pending') <= Len(pending)
    BY <1>2, <1>5, RestIsShorter DEF BoundInv, Types, TypeOK
  <2> QED BY <1>2, <1>3, <1>5, <2>1 DEF BoundInv, Types, TypeOK, PendingBounded, UTF16
<1> QED BY <1>1, <1>4, <1>5 DEF Raise, lineVars

\* What is kept is a line within the limit, a carriage return and half a unit.
LEMMA KeepBound == ASSUME BoundInv, KeepRest PROVE BoundInv'
<1> DEFINE whole == SubSeq(pending, 1, WholeUnits)
<1> USE DecoderAssumptions
<1>1. /\ pc = "split" /\ UNCHANGED <<encoding, stream, position, byte_order, pending>>
      /\ UNCHANGED <<line_start, line_number>>
      /\ \/ pc' = "done" /\ search_from' = search_from
         \/ /\ pc' = "read" /\ search_from' = WholeUnits
            /\ ~(Len(WithoutCR(whole)) > max_line_bytes)
  BY DEF KeepRest, Keep, Raise, lineVars
<1>2. Len(pending) \in Nat /\ Width \in {1, 2}
  BY DEF BoundInv, Types, TypeOK, Width
<1>3. WholeUnits \in Nat /\ WholeUnits <= Len(pending) /\ Len(pending) <= WholeUnits + 1
  <2>1. CASE Width = 1
    BY <1>2, <2>1 DEF WholeUnits
  <2>2. CASE Width = 2
    BY <1>2, <2>2 DEF WholeUnits
  <2> QED BY <1>2, <2>1, <2>2
<1>4. whole \in Seq(Byte) /\ Len(whole) = WholeUnits
  <2>1. \A k \in 1 .. WholeUnits : pending[k] \in Byte
    BY <1>3 DEF BoundInv, Types, TypeOK
  <2>2. whole \in Seq(Byte)
        /\ Len(whole) = IF 1 <= WholeUnits THEN WholeUnits - 1 + 1 ELSE 0
    BY <1>3, <2>1, SubSeqProperties
  <2> QED BY <1>3, <2>2
<1>5. Len(WithoutCR(whole)) >= WholeUnits - Width
  BY <1>4, WithoutOneUnit
<1> HIDE DEF whole
<1>6. CASE pc' = "done" /\ search_from' = search_from
  BY <1>1, <1>6, DoneBound DEF BoundInv, Types, TypeOK
<1>7. CASE /\ pc' = "read" /\ search_from' = WholeUnits
           /\ ~(Len(WithoutCR(whole)) > max_line_bytes)
  <2>1. Len(WithoutCR(whole)) \in Nat
    BY <1>2, <1>4, ContentLength
  <2>2. Len(pending) <= max_line_bytes + 3
    BY <1>2, <1>3, <1>5, <1>7, <2>1
  <2> QED BY <1>1, <1>3, <1>7, <2>2 DEF BoundInv, Types, TypeOK, PendingBounded, UTF16
<1> QED BY <1>1, <1>6, <1>7

\* Every step keeps the bound.
THEOREM BoundStep == BoundInv /\ [Next]_vars => BoundInv'
<1> SUFFICES ASSUME BoundInv, [Next]_vars PROVE BoundInv'
  OBVIOUS
<1>1. CASE Open
  BY <1>1, DecoderAssumptions
     DEF Open, Raise, lineVars, BoundInv, Types, TypeOK, PendingBounded, UTF16
<1>2. CASE \E n \in 1 .. READ_SIZE : Read(n)
  BY <1>2, ReadBound
<1>3. CASE TakeLine
  BY <1>3, TakeBound
<1>4. CASE KeepRest
  BY <1>4, KeepBound
<1>5. CASE End
  <2>1. pc' = "done" /\ UNCHANGED <<pending, line_start, line_number, search_from>>
    BY <1>5 DEF End, Raise, lineVars
  <2> QED BY <1>5, <2>1, DoneBound DEF End, BoundInv, Types, TypeOK
<1>6. CASE UNCHANGED vars
  BY <1>6 DEF vars, lineVars, BoundInv, Types, TypeOK, PendingBounded, UTF16
<1> QED BY <1>1, <1>2, <1>3, <1>4, <1>5, <1>6 DEF Next

\* The types of the decoder's state.
THEOREM DecoderTypes == Spec => []TypeOK
<1>1. BoundInv => TypeOK
  BY DEF BoundInv, Types
<1> QED BY BoundInit, BoundStep, <1>1, PTL DEF Spec

\* No stream makes the decoder keep more than a line at the limit and one read.
THEOREM DecoderStaysBounded == Spec => []PendingBounded
<1>1. BoundInv => PendingBounded
  BY DEF BoundInv
<1> QED BY BoundInit, BoundStep, <1>1, PTL DEF Spec

-----------------------------------------------------------------------------
(* What is decoded depends on the stream alone.  First, slices of sequences *)
(* of bytes, least elements and newlines.                                   *)

Slice(s, a, b) == SubSeq(s, a + 1, b)

LEMMA SliceBytes ==
    ASSUME NEW s \in Seq(Byte), NEW a \in Nat, NEW b \in Nat, a <= b, b <= Len(s)
    PROVE  /\ Slice(s, a, b) \in Seq(Byte) /\ Len(Slice(s, a, b)) = b - a
           /\ \A k \in 1 .. b - a : Slice(s, a, b)[k] = s[a + k]
<1>1. \A k \in a + 1 .. b : s[k] \in Byte
  OBVIOUS
<1>2. /\ SubSeq(s, a + 1, b) \in Seq(Byte)
      /\ Len(SubSeq(s, a + 1, b)) = IF a + 1 <= b THEN b - (a + 1) + 1 ELSE 0
      /\ \A k \in 1 .. b - (a + 1) + 1 : SubSeq(s, a + 1, b)[k] = s[a + 1 + k - 1]
  BY <1>1, SubSeqProperties
<1> QED BY <1>2 DEF Slice

LEMMA SliceOfSlice ==
    ASSUME NEW s \in Seq(Byte), NEW a \in Nat, NEW b \in Nat, a <= b, b <= Len(s),
           NEW i \in Nat, NEW j \in Nat, i <= j, j <= b - a
    PROVE  Slice(Slice(s, a, b), i, j) = Slice(s, a + i, a + j)
<1> DEFINE t == Slice(s, a, b)
           u == Slice(t, i, j)
           v == Slice(s, a + i, a + j)
<1>1. t \in Seq(Byte) /\ Len(t) = b - a /\ \A k \in 1 .. b - a : t[k] = s[a + k]
  BY SliceBytes
<1> HIDE DEF t
<1>2. u \in Seq(Byte) /\ Len(u) = j - i /\ \A k \in 1 .. j - i : u[k] = t[i + k]
  <2>1. j <= Len(t)
    BY <1>1
  <2> QED BY <1>1, <2>1, SliceBytes
<1>3. v \in Seq(Byte) /\ Len(v) = j - i /\ \A k \in 1 .. j - i : v[k] = s[a + i + k]
  <2>1. /\ a + i \in Nat /\ a + j \in Nat /\ a + i <= a + j /\ a + j <= Len(s)
        /\ (a + j) - (a + i) = j - i
    BY LenProperties
  <2>2. v \in Seq(Byte) /\ Len(v) = (a + j) - (a + i)
        /\ \A k \in 1 .. (a + j) - (a + i) : v[k] = s[(a + i) + k]
    BY <2>1, SliceBytes
  <2> QED BY <2>1, <2>2
<1> HIDE DEF u, v
<1>4. \A k \in 1 .. Len(u) : u[k] = v[k]
  <2> SUFFICES ASSUME NEW k \in 1 .. j - i PROVE u[k] = v[k]
    BY <1>2
  <2>1. u[k] = t[i + k] /\ v[k] = s[a + i + k] /\ i + k \in 1 .. b - a
    BY <1>2, <1>3
  <2>2. t[i + k] = s[a + (i + k)] /\ a + (i + k) = a + i + k
    BY <1>1, <2>1
  <2> QED BY <2>1, <2>2
<1>5. u = v
  BY <1>2, <1>3, <1>4, SeqEqual
<1> QED BY <1>5 DEF u, v, t

LEMMA SlicesJoin ==
    ASSUME NEW s \in Seq(Byte), NEW a \in Nat, NEW b \in Nat, NEW c \in Nat,
           a <= b, b <= c, c <= Len(s)
    PROVE  Slice(s, a, b) \o Slice(s, b, c) = Slice(s, a, c)
<1> DEFINE t == Slice(s, a, b)
           u == Slice(s, b, c)
           v == Slice(s, a, c)
           w == t \o u
<1>0. Len(s) \in Nat /\ a <= c /\ b <= Len(s) /\ c - a = (b - a) + (c - b)
  BY LenProperties
<1>1. t \in Seq(Byte) /\ Len(t) = b - a /\ \A k \in 1 .. b - a : t[k] = s[a + k]
  BY <1>0, SliceBytes
<1>2. u \in Seq(Byte) /\ Len(u) = c - b /\ \A k \in 1 .. c - b : u[k] = s[b + k]
  BY <1>0, SliceBytes
<1>3. v \in Seq(Byte) /\ Len(v) = c - a /\ \A k \in 1 .. c - a : v[k] = s[a + k]
  BY <1>0, SliceBytes
<1> HIDE DEF t, u, v
<1>4. /\ w \in Seq(Byte) /\ Len(w) = c - a
      /\ \A k \in 1 .. c - a : w[k] = IF k <= b - a THEN t[k] ELSE u[k - (b - a)]
  <2>1. /\ w \in Seq(Byte) /\ Len(w) = Len(t) + Len(u)
        /\ \A k \in 1 .. Len(t) + Len(u) : w[k] = IF k <= Len(t) THEN t[k] ELSE u[k - Len(t)]
    BY <1>1, <1>2, ConcatProperties
  <2>2. Len(t) + Len(u) = c - a
    BY <1>0, <1>1, <1>2
  <2> QED BY <1>1, <2>1, <2>2
<1> HIDE DEF w
<1>5. \A k \in 1 .. Len(w) : w[k] = v[k]
  <2> SUFFICES ASSUME NEW k \in 1 .. c - a PROVE w[k] = v[k]
    BY <1>4
  <2>1. CASE k <= b - a
    BY <1>1, <1>3, <1>4, <2>1
  <2>2. CASE ~(k <= b - a)
    <3>1. w[k] = u[k - (b - a)] /\ k - (b - a) \in 1 .. c - b
      BY <1>0, <1>4, <2>2
    <3>2. u[k - (b - a)] = s[b + (k - (b - a))] /\ b + (k - (b - a)) = a + k
      BY <1>2, <3>1
    <3> QED BY <1>3, <3>1, <3>2
  <2> QED BY <2>1, <2>2
<1>6. w = v
  BY <1>3, <1>4, <1>5, SeqEqual
<1> QED BY <1>6 DEF w, v, u, t

\* A set of numbers has a least one.
LEMMA LeastOf ==
    ASSUME NEW K \in SUBSET Nat, K # {}
    PROVE  Min(K) \in K /\ \A m \in K : Min(K) <= m
<1>1. PICK k \in K : \A m \in K : <<m, k>> \notin OpToRel(<, Nat)
  BY NatLessThanWellFounded, WFMin
<1>2. \A m \in K : ~(m < k)
  BY <1>1 DEF OpToRel
<1>3. k \in Nat /\ \A m \in K : m \in Nat
  OBVIOUS
<1>4. \E x \in K : \A y \in K : x <= y
  BY <1>2, <1>3
<1> QED BY <1>4 DEF Min

LEMMA LeastIs ==
    ASSUME NEW K \in SUBSET Nat, NEW k \in K, \A m \in K : k <= m
    PROVE  Min(K) = k
<1>1. Min(K) \in K /\ \A m \in K : Min(K) <= m
  BY LeastOf
<1>2. Min(K) \in Nat /\ k \in Nat /\ k <= Min(K) /\ Min(K) <= k
  BY <1>1
<1> QED BY <1>2

-----------------------------------------------------------------------------
(* The newlines of the stream and the starts of its lines.                 *)

LEMMA WidthIs == Width \in {1, 2} /\ (UTF16 <=> Width = 2)
BY DEF Width

\* Offsets of whole units are a unit apart.
LEMMA UnitsApart ==
    ASSUME NEW i \in Nat, NEW j \in Nat, i % Width = 0, j % Width = 0
    PROVE  /\ (i + Width) % Width = 0 /\ (i + j) % Width = 0
           /\ i < j => i + Width <= j
           /\ i < j + Width => i <= j
<1>1. CASE Width = 1
  BY <1>1
<1>2. CASE Width = 2
  BY <1>2
<1> QED BY <1>1, <1>2, WidthIs

LEMMA BreakIs ==
    ASSUME stream \in Seq(Byte), NEW j \in Breaks
    PROVE  /\ j \in Nat /\ j % Width = 0 /\ j + Width \in Nat /\ j + Width <= Len(stream)
           /\ Slice(stream, j, j + Width) = Unit(LF, Order)
<1>1. j \in 0 .. Len(stream) - Width /\ j % Width = 0
      /\ SubSeq(stream, j + 1, j + Width) = Unit(LF, Order)
  BY DEF Breaks, NewlinesIn
<1>2. Len(stream) \in Nat
  BY LenProperties
<1> QED BY <1>1, <1>2, WidthIs DEF Slice

LEMMA StartsAreFinite ==
    ASSUME stream \in Seq(Byte)
    PROVE  /\ Starts \subseteq Nat /\ IsFiniteSet(Starts)
           /\ \A T : T \subseteq Starts => IsFiniteSet(T) /\ Cardinality(T) \in Nat
<1>1. Starts \subseteq 0 .. Len(stream)
  <2>1. Len(stream) \in Nat
    BY LenProperties
  <2>2. \A j \in Breaks : j + Width \in Nat
    BY BreakIs
  <2> QED BY <2>1, <2>2 DEF Starts
<1>2. IsFiniteSet(0 .. Len(stream))
  BY LenProperties, FS_Interval
<1>3. IsFiniteSet(Starts)
  BY <1>1, <1>2, FS_Subset
<1> QED BY <1>1, <1>3, FS_Subset, FS_CardinalityType

LEMMA SmallerSet ==
    ASSUME NEW S, IsFiniteSet(S), NEW T, T \subseteq S, T # S
    PROVE  Cardinality(T) \in Nat /\ Cardinality(S) \in Nat /\ Cardinality(T) < Cardinality(S)
<1>1. T \in SUBSET S
  OBVIOUS
<1>2. /\ IsFiniteSet(T) /\ Cardinality(T) <= Cardinality(S)
      /\ Cardinality(S) = Cardinality(T) => S = T
  BY <1>1, FS_Subset
<1>3. Cardinality(T) \in Nat /\ Cardinality(S) \in Nat
  BY <1>2, FS_CardinalityType
<1> QED BY <1>2, <1>3

\* A start is known by the number of starts before it.
LEMMA LineOfStart ==
    ASSUME stream \in Seq(Byte), NEW i \in Starts, NEW k,
           k = Cardinality({ j \in Starts : j < i }) + 1
    PROVE  /\ k \in 1 .. Cardinality(Starts)
           /\ LinesOfStream[k] = LineAt(i)
<1> DEFINE before(x) == { j \in Starts : j < x }
<1>1. Starts \subseteq Nat /\ IsFiniteSet(Starts) /\ Cardinality(Starts) \in Nat
  BY StartsAreFinite
<1>2. \A x \in Starts : before(x) \subseteq Starts /\ IsFiniteSet(before(x)) /\ x \notin before(x)
  BY <1>1, StartsAreFinite
<1>3. ASSUME NEW x \in Starts, NEW y \in Starts, x < y
      PROVE  Cardinality(before(x)) # Cardinality(before(y))
  <2>0. x \in Nat /\ y \in Nat /\ \A z \in Starts : z \in Nat
    BY <1>1
  <2>1. before(x) \subseteq before(y) /\ before(x) # before(y)
    <3>1. \A z \in before(x) : z \in before(y)
      BY <1>3, <2>0
    <3>2. x \in before(y) /\ x \notin before(x)
      BY <1>3, <2>0
    <3> QED BY <3>1, <3>2
  <2>2. IsFiniteSet(before(y))
    BY <1>2
  <2> HIDE DEF before
  <2> QED BY <2>1, <2>2, SmallerSet
<1>4. k = Cardinality(before(i)) + 1
  OBVIOUS
<1>5. Cardinality(before(i)) \in Nat /\ Cardinality(before(i)) < Cardinality(Starts)
  <2> HIDE DEF before
  <2>1. before(i) \subseteq Starts /\ before(i) # Starts
    BY <1>2
  <2> QED BY <1>1, <2>1, SmallerSet
<1>6. StartOf(k) = CHOOSE x \in Starts : Cardinality(before(x)) = k - 1
  BY DEF StartOf
<1> HIDE DEF before
<1>7. \A x \in Starts : Cardinality(before(x)) = k - 1 => x = i
  <2> SUFFICES ASSUME NEW x \in Starts, Cardinality(before(x)) = k - 1 PROVE x = i
    OBVIOUS
  <2>1. Cardinality(before(x)) = Cardinality(before(i))
    BY <1>4, <1>5
  <2>2. ~(x < i)
    BY <1>3, <2>1
  <2>4. ~(i < x)
    BY <1>3, <2>1
  <2>3. x \in Nat /\ i \in Nat
    BY <1>1
  <2> QED BY <2>2, <2>3, <2>4
<1>8. StartOf(k) = i
  <2>1. Cardinality(before(i)) = k - 1
    BY <1>4, <1>5
  <2> QED BY <1>6, <1>7, <2>1
<1>9. k \in 1 .. Cardinality(Starts)
  BY <1>1, <1>4, <1>5
<1> QED BY <1>8, <1>9 DEF LinesOfStream

-----------------------------------------------------------------------------
(* The invariant of the decoding.                                          *)

\* What is pending is what has been read of the stream from a line's start on.
InStream ==
    /\ position \in 0 .. Len(stream) /\ line_start \in 0 .. position
    /\ line_start % Width = 0 /\ (line_start = 0 \/ line_start - Width \in Breaks)
    /\ pending = Slice(stream, line_start, position)
    /\ line_number = Cardinality({ j \in Starts : j < line_start }) + 1

\* The byte order is the stream's, if the stream is to tell it.
OrderKnown ==
    /\ ~UTF16 => byte_order = NONE
    /\ encoding = "utf-16" =>
         IF byte_order = NONE THEN pc \in {"open", "read"} /\ position < 2
         ELSE byte_order = Order /\ Marked

\* No newline that has been read is overlooked.
Searched ==
    /\ \A j \in Breaks : j >= line_start => j >= line_start + search_from
    /\ pc \in {"open", "read"} => \A j \in Breaks : j >= line_start => j + Width > position

Refused(k) == \/ Len(LinesOfStream[k]) > max_line_bytes
              \/ Bad(Unmarked(LinesOfStream[k], k), Order) # {}

\* The lines before this one have been yielded, and nothing in them is bad.
LinesYielded ==
    /\ yielded = [k \in 1 .. line_number - 1 |-> Text(LinesOfStream[k], k, Order)]
    /\ \A k \in 1 .. line_number - 1 : ~Refused(k)
    /\ \A i \in 1 .. line_start : i \notin Bad(stream, Order)

DecodeInv ==
    /\ BoundInv
    /\ encoding = "unsupported" => pc \in {"open", "done"}
    /\ pc = "done" => DecodesStream
    /\ pc # "done" => error = NONE /\ InStream /\ OrderKnown /\ Searched /\ LinesYielded

THEOREM DecodeInit == Init => DecodeInv
<1> SUFFICES ASSUME Init PROVE DecodeInv
  OBVIOUS
<1>1. BoundInv /\ stream \in Seq(Byte)
  BY BoundInit DEF BoundInv, Types, TypeOK
<1>2. /\ position = 0 /\ line_start = 0 /\ line_number = 1 /\ search_from = 0
      /\ pending = << >> /\ yielded = << >> /\ error = NONE /\ pc = "open"
  BY DEF Init
<1>3. Len(stream) \in Nat
  BY <1>1
<1>4. InStream
  <2>1. 0 % Width = 0
    BY WidthIs
  <2>2. Slice(stream, 0, 0) = << >>
    BY SubSeqEmpty DEF Slice
  <2>3. { j \in Starts : j < 0 } = {}
    BY <1>1, StartsAreFinite
  <2> QED BY <1>2, <1>3, <2>1, <2>2, <2>3, FS_EmptySet DEF InStream
<1>5. OrderKnown
  BY <1>2, DecoderAssumptions DEF Init, OrderKnown, UTF16
<1>6. Searched
  BY <1>1, <1>2, BreakIs, WidthIs DEF Searched
<1>7. LinesYielded
  <2>2. [k \in 1 .. line_number - 1 |-> Text(LinesOfStream[k], k, Order)] = << >>
    BY <1>2
  <2> QED BY <1>2, <2>2 DEF LinesYielded
<1> QED BY <1>1, <1>2, <1>4, <1>5, <1>6, <1>7 DEF DecodeInv

-----------------------------------------------------------------------------
(* The line that begins at line_start.                                     *)

\* The byte order that the decoder uses.
LEMMA OrderUsed ==
    ASSUME Types, OrderKnown, byte_order # NONE \/ ~UTF16
    PROVE  byte_order = Order
<1>1. CASE encoding = "utf-16"
  BY <1>1 DEF OrderKnown, UTF16
<1>2. CASE encoding # "utf-16"
  BY <1>2 DEF Order
<1> QED BY <1>1, <1>2

LEMMA PendingIs ==
    ASSUME stream \in Seq(Byte), InStream
    PROVE  /\ position \in Nat /\ line_start \in Nat /\ Len(stream) \in Nat
           /\ line_start <= position /\ position <= Len(stream)
           /\ pending \in Seq(Byte) /\ Len(pending) = position - line_start
<1>1. /\ position \in Nat /\ line_start \in Nat /\ Len(stream) \in Nat
      /\ line_start <= position /\ position <= Len(stream)
  BY LenProperties DEF InStream
<1> QED BY <1>1, SliceBytes DEF InStream

\* The newlines of what is pending are newlines of the stream.
LEMMA PendingNewlines ==
    ASSUME stream \in Seq(Byte), InStream, byte_order = Order, NEW from \in Nat, NEW i \in Nat
    PROVE  i \in NewlinesIn(pending, from, byte_order)
             <=> i >= from /\ line_start + i \in Breaks /\ line_start + i + Width <= position
<1>1. /\ position \in Nat /\ line_start \in Nat /\ Len(stream) \in Nat
      /\ line_start <= position /\ position <= Len(stream) /\ line_start % Width = 0
      /\ Len(pending) = position - line_start /\ pending = Slice(stream, line_start, position)
  BY PendingIs DEF InStream
<1>2. (line_start + i) % Width = 0 <=> i % Width = 0
  <2>1. CASE Width = 1
    BY <1>1, <2>1
  <2>2. CASE Width = 2
    BY <1>1, <2>2
  <2> QED BY <2>1, <2>2, WidthIs
<1>3. ASSUME i + Width <= position - line_start
      PROVE  SubSeq(pending, i + 1, i + Width)
               = SubSeq(stream, line_start + i + 1, line_start + i + Width)
  <2>1. /\ i + Width \in Nat /\ i <= i + Width
        /\ line_start + (i + Width) = line_start + i + Width
    BY <1>1, WidthIs
  <2>2. Slice(pending, i, i + Width) = Slice(stream, line_start + i, line_start + (i + Width))
    BY <1>1, <1>3, <2>1, SliceOfSlice
  <2> QED BY <2>1, <2>2 DEF Slice
<1>4. i \in NewlinesIn(pending, from, byte_order)
        <=> /\ i >= from /\ i + Width <= position - line_start /\ i % Width = 0
            /\ SubSeq(pending, i + 1, i + Width) = Unit(LF, Order)
  BY <1>1, WidthIs DEF NewlinesIn
<1>5. line_start + i \in Breaks
        <=> /\ line_start + i + Width <= Len(stream) /\ (line_start + i) % Width = 0
            /\ SubSeq(stream, line_start + i + 1, line_start + i + Width) = Unit(LF, Order)
  BY <1>1, WidthIs DEF Breaks, NewlinesIn
<1>6. i + Width <= position - line_start <=> line_start + i + Width <= position
  BY <1>1, WidthIs
<1>7. line_start + i + Width <= position => line_start + i + Width <= Len(stream)
  BY <1>1, WidthIs
<1> QED BY <1>2, <1>3, <1>4, <1>5, <1>6, <1>7

\* The line that ends at a newline, and the one that ends with the stream.
LEMMA LineAtBreak ==
    ASSUME stream \in Seq(Byte), byte_order = Order, NEW i \in Nat, NEW b \in Breaks, i <= b,
           \A j \in Breaks : j >= i => b <= j
    PROVE  LineAt(i) = WithoutCR(Slice(stream, i, b))
<1> DEFINE ends == { j \in Breaks : j >= i }
<1>1. ends \in SUBSET Nat /\ b \in ends /\ \A j \in ends : b <= j
  BY BreakIs
<1> HIDE DEF ends
<1>2. Min(ends) = b /\ ends # {}
  BY <1>1, LeastIs
<1> QED BY <1>2 DEF LineAt, WithoutCR, Slice, ends

LEMMA LineAtEnd ==
    ASSUME NEW i \in Nat, \A j \in Breaks : ~(j >= i)
    PROVE  LineAt(i) = Slice(stream, i, Len(stream))
<1> DEFINE ends == { j \in Breaks : j >= i }
<1>1. ends = {}
  OBVIOUS
<1> QED BY <1>1 DEF LineAt, Slice

\* Half a unit apart: what has been read ends at most that far behind whole units.
LEMMA WholeUnitsAre ==
    ASSUME Len(pending) \in Nat
    PROVE  /\ WholeUnits \in Nat /\ WholeUnits <= Len(pending) /\ Len(pending) < WholeUnits + Width
           /\ WholeUnits % Width = 0
<1>1. CASE Width = 1
  BY <1>1 DEF WholeUnits
<1>2. CASE Width = 2
  BY <1>2 DEF WholeUnits
<1> QED BY <1>1, <1>2, WidthIs

\* The line that begins at line_start is the one that line_number counts.
LEMMA ThisLine ==
    ASSUME stream \in Seq(Byte), InStream, line_start < Len(stream)
    PROVE  /\ line_start \in Starts /\ line_number \in 1 .. Cardinality(Starts)
           /\ LinesOfStream[line_number] = LineAt(line_start)
<1>1. line_start \in Starts
  <2>1. CASE line_start = 0
    BY <2>1 DEF Starts
  <2>2. CASE line_start - Width \in Breaks
    <3>1. line_start - Width + Width = line_start
      BY PendingIs, WidthIs
    <3> QED BY <2>2, <3>1 DEF Starts
  <2> QED BY <2>1, <2>2 DEF InStream
<1> QED BY <1>1, LineOfStart DEF InStream

-----------------------------------------------------------------------------
(* What cannot be decoded in a line cannot be decoded in the stream.       *)

\* The two ways in which a byte is bad in UTF-8.
Cut(s, i) == \E k \in 1 .. LengthOf(s[i]) - 1 : i + k <= Len(s) => ~Continuation(s[i + k])
Stray(s, i) == Continuation(s[i]) /\ ~\E j \in 1 .. i - 1 : j + LengthOf(s[j]) > i

LEMMA CutOrStray ==
    ASSUME NEW s \in Seq(Byte)
    PROVE  \A i \in 1 .. Len(s) : i \in BadUTF8(s) <=> Cut(s, i) \/ Stray(s, i)
<1> SUFFICES ASSUME NEW i \in 1 .. Len(s) PROVE i \in BadUTF8(s) <=> Cut(s, i) \/ Stray(s, i)
  OBVIOUS
<1>1. DOMAIN s = 1 .. Len(s) /\ Len(s) \in Nat
  BY LenProperties
<1>2. \A k \in 1 .. LengthOf(s[i]) - 1 : i + k \in DOMAIN s <=> i + k <= Len(s)
  BY <1>1
<1> QED BY <1>1, <1>2 DEF BadUTF8, Cut, Stray

LEMMA NewlineBytes == \A x \in {LF, CR} : ~Continuation(x) /\ LengthOf(x) = 1 /\ ~(x > 127)
BY DEF Continuation, LengthOf, LF, CR

LEMMA LocalUTF8 ==
    ASSUME NEW s \in Seq(Byte), NEW a \in Nat, NEW e \in Nat, a <= e, e <= Len(s),
           NEW t \in Seq(Byte), Len(t) = e - a, \A k \in 1 .. e - a : t[k] = s[a + k],
           \A j \in 1 .. a : j \notin BadUTF8(s), a = 0 \/ s[a] = LF,
           e = Len(s) \/ s[e + 1] \in {LF, CR},
           NEW i \in 1 .. e - a
    PROVE  i \in BadUTF8(t) <=> a + i \in BadUTF8(s)
<1>1. Len(s) \in Nat /\ i \in 1 .. Len(t) /\ a + i \in 1 .. Len(s) /\ t[i] = s[a + i]
  BY LenProperties
<1>2. \A x : LengthOf(x) \in {1, 2, 3}
  BY DEF LengthOf
<1>3. Cut(t, i) => Cut(s, a + i)
  <2> SUFFICES ASSUME NEW k \in 1 .. LengthOf(t[i]) - 1, i + k <= Len(t) => ~Continuation(t[i + k])
               PROVE  Cut(s, a + i)
    BY DEF Cut
  <2>1. k \in 1 .. LengthOf(s[a + i]) - 1 /\ k \in 1 .. 2
    <3>1. LengthOf(t[i]) \in {1, 2, 3} /\ t[i] = s[a + i]
      BY <1>1, <1>2
    <3> QED BY <3>1
  <2>2. CASE i + k <= e - a
    <3>1. t[i + k] = s[a + (i + k)] /\ a + (i + k) = a + i + k
      BY <2>1, <2>2
    <3>2. ~Continuation(s[a + i + k])
      BY <2>2, <3>1
    <3> QED BY <2>1, <3>2 DEF Cut
  <2>3. CASE ~(i + k <= e - a)
    <3> DEFINE m == e - a + 1 - i
    <3>1. m \in 1 .. k /\ a + i + m = e + 1
      BY <2>1, <2>3
    <3>2. m \in 1 .. LengthOf(s[a + i]) - 1
      BY <1>2, <2>1, <3>1
    <3>3. a + i + m <= Len(s) => ~Continuation(s[a + i + m])
      <4>1. CASE e = Len(s)
        BY <1>1, <3>1, <4>1
      <4>2. CASE s[e + 1] \in {LF, CR}
        <5>1. ~Continuation(s[e + 1])
          BY <4>2, NewlineBytes
        <5> HIDE DEF m
        <5> QED BY <3>1, <5>1
      <4> QED BY <4>1, <4>2
    <3> HIDE DEF m
    <3> QED BY <3>2, <3>3 DEF Cut
  <2> QED BY <2>2, <2>3
<1>4. Cut(s, a + i) => Cut(t, i)
  <2> SUFFICES ASSUME NEW k \in 1 .. LengthOf(s[a + i]) - 1,
                      a + i + k <= Len(s) => ~Continuation(s[a + i + k])
               PROVE  Cut(t, i)
    BY DEF Cut
  <2>1. k \in 1 .. LengthOf(t[i]) - 1 /\ k \in 1 .. 2
    <3>1. LengthOf(s[a + i]) \in {1, 2, 3} /\ t[i] = s[a + i]
      BY <1>1, <1>2
    <3> QED BY <3>1
  <2>2. i + k <= Len(t) => ~Continuation(t[i + k])
    <3> SUFFICES ASSUME i + k <= e - a PROVE ~Continuation(t[i + k])
      OBVIOUS
    <3>1. t[i + k] = s[a + (i + k)] /\ a + (i + k) = a + i + k
      BY <2>1
    <3>2. a + i + k <= Len(s)
      BY <1>1, <2>1
    <3> QED BY <3>1, <3>2
  <2> QED BY <2>1, <2>2 DEF Cut
<1>5. Stray(t, i) => Stray(s, a + i)
  <2> SUFFICES ASSUME Stray(t, i), NEW j \in 1 .. a + i - 1, j + LengthOf(s[j]) > a + i PROVE FALSE
    BY <1>1 DEF Stray
  <2>1. LengthOf(s[j]) \in {1, 2, 3} /\ Continuation(s[a + i])
    BY <1>1, <1>2 DEF Stray
  <2>2. CASE j > a
    <3>1. j - a \in 1 .. i - 1 /\ a + (j - a) = j /\ j - a \in 1 .. e - a
      BY <2>2, SMTT(15)
    <3>2. t[j - a] = s[j]
      BY <3>1
    <3>3. (j - a) + LengthOf(t[j - a]) > i
      BY <2>1, <3>2
    <3> QED BY <3>1, <3>3 DEF Stray
  <2>3. CASE j <= a
    <3>1. s[a] = LF
      BY <2>3
    <3>2. j # a
      <4>1. LengthOf(LF) = 1
        BY NewlineBytes
      <4> QED BY <3>1, <4>1
    <3>3. a - j \in 1 .. LengthOf(s[j]) - 1 /\ j + (a - j) = a
      BY <2>1, <2>3, <3>2
    <3>4. ~Continuation(s[j + (a - j)])
      <4>1. ~Continuation(s[a])
        BY <3>1, NewlineBytes
      <4> QED BY <3>3, <4>1
    <3>5. Cut(s, j)
      BY <3>3, <3>4 DEF Cut
    <3>6. j \in 1 .. Len(s) /\ j \in 1 .. a
      BY <1>1, <2>3
    <3> QED BY <3>5, <3>6, CutOrStray
  <2> QED BY <2>2, <2>3
<1>6. Stray(s, a + i) => Stray(t, i)
  <2> SUFFICES ASSUME Stray(s, a + i), NEW j \in 1 .. i - 1, j + LengthOf(t[j]) > i PROVE FALSE
    BY <1>1 DEF Stray
  <2>1. t[j] = s[a + j] /\ LengthOf(t[j]) \in {1, 2, 3} /\ a + j \in 1 .. a + i - 1
    <3>1. j \in 1 .. e - a /\ a + j \in 1 .. a + i - 1
      OBVIOUS
    <3>2. t[j] = s[a + j]
      BY <3>1
    <3> QED BY <1>2, <3>1, <3>2
  <2>2. (a + j) + LengthOf(s[a + j]) > a + i
    BY <2>1, SMTT(15)
  <2> QED BY <2>1, <2>2 DEF Stray
<1> QED BY <1>1, <1>3, <1>4, <1>5, <1>6, CutOrStray

\* The units of UTF-16 that need another one.
Leads  == 55296 .. 56319
Trails == 56320 .. 57343
Whole(s, i)    == i \in 1 .. Len(s) - 1 /\ i % 2 = 1
Lead(s, i, o)  == Whole(s, i) /\ UnitAt(s, i, o) \in Leads
Trail(s, i, o) == Whole(s, i) /\ UnitAt(s, i, o) \in Trails

LEMMA HalfOrAlone ==
    ASSUME NEW s \in Seq(Byte), NEW o
    PROVE  \A i \in 1 .. Len(s) :
             i \in BadUTF16(s, o)
               <=> /\ i % 2 = 1
                   /\ \/ i = Len(s)
                      \/ Lead(s, i, o) /\ ~Trail(s, i + 2, o)
                      \/ Trail(s, i, o) /\ ~Lead(s, i - 2, o)
<1> SUFFICES ASSUME NEW i \in 1 .. Len(s)
             PROVE  i \in BadUTF16(s, o)
                      <=> /\ i % 2 = 1
                          /\ \/ i = Len(s)
                             \/ Lead(s, i, o) /\ ~Trail(s, i + 2, o)
                             \/ Trail(s, i, o) /\ ~Lead(s, i - 2, o)
  OBVIOUS
<1> DEFINE whole == { k \in 1 .. Len(s) - 1 : k % 2 = 1 }
           lead(k) == k \in whole /\ UnitAt(s, k, o) \in 55296 .. 56319
           trail(k) == k \in whole /\ UnitAt(s, k, o) \in 56320 .. 57343
<1>1. \A k : lead(k) <=> Lead(s, k, o)
  BY DEF Lead, Whole, Leads
<1>2. \A k : trail(k) <=> Trail(s, k, o)
  BY DEF Trail, Whole, Trails
<1>3. Len(s) \in Nat /\ (i \in whole <=> i # Len(s) /\ i % 2 = 1)
  BY LenProperties
<1>4. i \in BadUTF16(s, o)
        <=> \/ i \in whole /\ ((lead(i) /\ ~trail(i + 2)) \/ (trail(i) /\ ~lead(i - 2)))
            \/ i = Len(s) /\ i % 2 = 1
  BY DEF BadUTF16
<1>5. lead(i) \/ trail(i) => i \in whole
  OBVIOUS
<1> HIDE DEF lead, trail, whole
<1>6. /\ lead(i) <=> Lead(s, i, o)
      /\ trail(i) <=> Trail(s, i, o)
      /\ lead(i - 2) <=> Lead(s, i - 2, o)
      /\ trail(i + 2) <=> Trail(s, i + 2, o)
  BY <1>1, <1>2
<1> QED BY <1>3, <1>4, <1>5, <1>6

LEMMA NewlineUnit ==
    ASSUME NEW s, NEW i, NEW o, UnitAt(s, i, o) \in {LF, CR}
    PROVE  ~Lead(s, i, o) /\ ~Trail(s, i, o)
<1>1. \A x \in {LF, CR} : x \notin Leads /\ x \notin Trails
  BY DEF LF, CR, Leads, Trails
<1> QED BY <1>1 DEF Lead, Trail

LEMMA EvenAndOdd ==
    ASSUME NEW x \in Int, NEW y \in Int, NEW z \in Int, x % 2 = 0, y % 2 = 0, z % 2 = 1
    PROVE  z # x - y /\ z # x - y - 2
OBVIOUS

LEMMA LocalUTF16 ==
    ASSUME NEW s \in Seq(Byte), NEW a \in Nat, NEW e \in Nat, a <= e, e <= Len(s),
           NEW t \in Seq(Byte), Len(t) = e - a, \A k \in 1 .. e - a : t[k] = s[a + k],
           NEW o, a % 2 = 0, a = 0 \/ UnitAt(s, a - 1, o) \in {LF, CR},
           e = Len(s) \/ (e % 2 = 0 /\ UnitAt(s, e + 1, o) \in {LF, CR}),
           NEW i \in 1 .. e - a
    PROVE  i \in BadUTF16(t, o) <=> a + i \in BadUTF16(s, o)
<1>1. Len(s) \in Nat /\ i \in 1 .. Len(t) /\ a + i \in 1 .. Len(s)
  BY LenProperties
<1>2. ASSUME NEW k \in 1 .. e - a - 1
      PROVE  /\ UnitAt(t, k, o) = UnitAt(s, a + k, o)
             /\ k \in 1 .. Len(t) - 1 /\ a + k \in 1 .. Len(s) - 1
  <2>1. k \in 1 .. e - a /\ k + 1 \in 1 .. e - a /\ a + (k + 1) = a + k + 1
    OBVIOUS
  <2>2. t[k] = s[a + k] /\ t[k + 1] = s[a + k + 1]
    BY <2>1
  <2>3. k \in 1 .. Len(t) - 1 /\ a + k \in 1 .. Len(s) - 1
    BY <1>1
  <2> QED BY <2>2, <2>3 DEF UnitAt
<1>3. \A k \in Int : (a + k) % 2 = 1 <=> k % 2 = 1
  OBVIOUS
<1>4. ASSUME NEW k \in 1 .. e - a - 1
      PROVE  /\ Lead(t, k, o) <=> Lead(s, a + k, o)
             /\ Trail(t, k, o) <=> Trail(s, a + k, o)
  <2>1. Whole(t, k) <=> Whole(s, a + k)
    <3>1. (a + k) % 2 = 1 <=> k % 2 = 1
      BY <1>3
    <3>2. k \in 1 .. Len(t) - 1 /\ a + k \in 1 .. Len(s) - 1
      BY <1>2
    <3> QED BY <3>1, <3>2, Zenon DEF Whole
  <2> QED BY <1>2, <2>1 DEF Lead, Trail
<1>5. ASSUME i % 2 = 1 PROVE Trail(t, i + 2, o) <=> Trail(s, (a + i) + 2, o)
  <2>1. CASE i + 2 \in 1 .. e - a - 1
    <3>1. a + (i + 2) = (a + i) + 2
      OBVIOUS
    <3> QED BY <1>4, <2>1, <3>1
  <2>2. CASE i + 2 \notin 1 .. e - a - 1
    <3>1. ~Trail(t, i + 2, o)
      BY <2>2 DEF Trail, Whole
    <3>2. CASE e = Len(s)
      <4>1. (a + i) + 2 \notin 1 .. Len(s) - 1
        BY <2>2, <3>2
      <4> QED BY <3>1, <4>1 DEF Trail, Whole
    <3>3. CASE e % 2 = 0 /\ UnitAt(s, e + 1, o) \in {LF, CR}
      <4>1. i # e - a /\ i # e - a - 2
        BY <1>5, <3>3, EvenAndOdd
      <4>3. (a + i) + 2 = e + 1
        BY <2>2, <4>1
      <4>2. ~Trail(s, e + 1, o)
        BY <3>3, NewlineUnit
      <4> QED BY <3>1, <4>2, <4>3
    <3> QED BY <3>2, <3>3
  <2> QED BY <2>1, <2>2
<1>6. ASSUME i % 2 = 1 PROVE Lead(t, i - 2, o) <=> Lead(s, (a + i) - 2, o)
  <2>1. CASE i - 2 \in 1 .. e - a - 1
    <3>1. a + (i - 2) = (a + i) - 2
      OBVIOUS
    <3> QED BY <1>4, <2>1, <3>1
  <2>2. CASE i - 2 \notin 1 .. e - a - 1
    <3>1. ~Lead(t, i - 2, o) /\ i = 1
      <4>1. ~Lead(t, i - 2, o)
        BY <2>2 DEF Lead, Whole
      <4>2. i = 1
        BY <1>6, <2>2
      <4> QED BY <4>1, <4>2
    <3>2. (a + i) - 2 = a - 1
      BY <3>1
    <3>3. CASE a = 0
      BY <3>1, <3>3 DEF Lead, Whole
    <3>4. CASE UnitAt(s, a - 1, o) \in {LF, CR}
      BY <3>1, <3>2, <3>4, NewlineUnit
    <3> QED BY <3>3, <3>4
  <2> QED BY <2>1, <2>2
<1>7. (a + i) % 2 = 1 <=> i % 2 = 1
  BY <1>3
<1>8. CASE i = e - a /\ i % 2 = 1
  <2>1. e = Len(s)
    BY <1>8, EvenAndOdd
  <2>2. a + i = Len(s) /\ i = Len(t)
    BY <1>8, <2>1
  <2> QED BY <1>1, <1>7, <1>8, <2>2, HalfOrAlone
<1>9. CASE i \in 1 .. e - a - 1 /\ i % 2 = 1
  <2>1. i # Len(t) /\ a + i # Len(s)
    BY <1>1, <1>9
  <2>2. /\ Lead(t, i, o) <=> Lead(s, a + i, o)
        /\ Trail(t, i, o) <=> Trail(s, a + i, o)
    BY <1>4, <1>9
  <2> QED BY <1>1, <1>5, <1>6, <1>7, <1>9, <2>1, <2>2, HalfOrAlone
<1>10. CASE ~(i % 2 = 1)
  BY <1>1, <1>7, <1>10, HalfOrAlone
<1>11. i = e - a \/ i \in 1 .. e - a - 1
  OBVIOUS
<1> QED BY <1>8, <1>9, <1>10, <1>11

\* A newline in the stream: its byte, or its unit.
LEMMA NewlineIs ==
    ASSUME Types, encoding # "unsupported", NEW j \in Nat, j + Width <= Len(stream),
           NEW c \in {LF, CR}, Slice(stream, j, j + Width) = Unit(c, Order)
    PROVE  /\ ~UTF16 => stream[j + 1] = c
           /\ UTF16 => UnitAt(stream, j + 1, Order) = c
<1>1. stream \in Seq(Byte) /\ Len(stream) \in Nat /\ j + Width \in Nat /\ Width \in {1, 2}
  BY WidthIs DEF Types, TypeOK
<1>2. (j + Width) - j = Width
  BY <1>1
<1>3. \A k \in 1 .. Width : Unit(c, Order)[k] = stream[j + k]
  <2>1. j <= j + Width
    BY <1>1
  <2>2. \A k \in 1 .. (j + Width) - j : Slice(stream, j, j + Width)[k] = stream[j + k]
    BY <1>1, <2>1, SliceBytes
  <2> QED BY <1>2, <2>2
<1>4. CASE ~UTF16
  <2>1. Unit(c, Order)[1] = c
    BY <1>4 DEF Unit
  <2> QED BY <1>3, <1>4, <2>1 DEF Width
<1>5. CASE UTF16
  <2>1. Order \in {"little", "big"}
    BY <1>5 DEF Order, Types, TypeOK
  <2>2. Unit(c, Order)[1] = stream[j + 1] /\ Unit(c, Order)[2] = stream[j + 2]
    BY <1>3, <1>5 DEF Width
  <2>3. CASE Order = "little"
    <3>1. stream[j + 1] = c /\ stream[j + 2] = 0
      BY <1>5, <2>2, <2>3 DEF Unit
    <3>2. j + 1 + 1 = j + 2 /\ c + 256 * 0 = c
      BY DEF LF, CR
    <3> QED BY <1>5, <2>3, <3>1, <3>2 DEF UnitAt
  <2>4. CASE Order = "big"
    <3>1. stream[j + 1] = 0 /\ stream[j + 2] = c
      BY <1>5, <2>2, <2>4 DEF Unit
    <3>2. j + 1 + 1 = j + 2 /\ 256 * 0 + c = c
      BY DEF LF, CR
    <3> QED BY <1>5, <2>4, <3>1, <3>2 DEF UnitAt
  <2> QED BY <2>1, <2>3, <2>4
<1> QED BY <1>4, <1>5

LEMMA BadIsPlaced == ASSUME NEW s \in Seq(Byte), NEW o PROVE Bad(s, o) \subseteq 1 .. Len(s)
<1>1. DOMAIN s = 1 .. Len(s) /\ Len(s) \in Nat
  BY LenProperties
<1>2. BadUTF8(s) \subseteq 1 .. Len(s)
  BY <1>1 DEF BadUTF8
<1>3. BadUTF16(s, o) \subseteq 1 .. Len(s)
  BY <1>1 DEF BadUTF16
<1>4. { i \in DOMAIN s : s[i] > 127 } \subseteq 1 .. Len(s)
  BY <1>1
<1>5. CASE encoding = "ascii"
  BY <1>4, <1>5 DEF Bad
<1>6. CASE encoding = "utf-8"
  BY <1>2, <1>6 DEF Bad
<1>7. CASE encoding # "ascii" /\ encoding # "utf-8"
  BY <1>3, <1>7 DEF Bad
<1> QED BY <1>5, <1>6, <1>7

\* From the start of a line to a newline or the end, the bad places are the stream's.
LEMMA BadOfLine ==
    ASSUME Types, encoding # "unsupported", NEW a \in Nat, NEW e \in Nat, a <= e, e <= Len(stream),
           a % Width = 0, a = 0 \/ a - Width \in Breaks,
           \/ e = Len(stream)
           \/ /\ e % Width = 0 /\ e + Width <= Len(stream)
              /\ \E c \in {LF, CR} : Slice(stream, e, e + Width) = Unit(c, Order),
           \A j \in 1 .. a : j \notin Bad(stream, Order),
           NEW i \in 1 .. e - a
    PROVE  i \in Bad(Slice(stream, a, e), Order) <=> a + i \in Bad(stream, Order)
<1> DEFINE t == Slice(stream, a, e)
<1>1. stream \in Seq(Byte) /\ Len(stream) \in Nat
  BY DEF Types, TypeOK
<1>2. t \in Seq(Byte) /\ Len(t) = e - a /\ \A k \in 1 .. e - a : t[k] = stream[a + k]
  BY <1>1, SliceBytes
<1> HIDE DEF t
<1>3. \/ e = Len(stream)
      \/ /\ e % Width = 0
         /\ ~UTF16 => stream[e + 1] \in {LF, CR}
         /\ UTF16 => UnitAt(stream, e + 1, Order) \in {LF, CR}
  BY NewlineIs
<1>4. \/ a = 0
      \/ /\ ~UTF16 => stream[a] = LF
         /\ UTF16 => UnitAt(stream, a - 1, Order) \in {LF, CR}
  <2> SUFFICES ASSUME a - Width \in Breaks
               PROVE  /\ ~UTF16 => stream[a] = LF
                      /\ UTF16 => UnitAt(stream, a - 1, Order) \in {LF, CR}
    OBVIOUS
  <2> DEFINE j == a - Width
  <2>1. j \in Nat /\ j + Width <= Len(stream) /\ Slice(stream, j, j + Width) = Unit(LF, Order)
    BY <1>1, BreakIs
  <2>2. (~UTF16 => j + 1 = a) /\ (UTF16 => j + 1 = a - 1)
    BY DEF Width
  <2> HIDE DEF j
  <2> QED BY <2>1, <2>2, NewlineIs
<1>5. CASE encoding = "ascii"
  <2>1. a + i \in 1 .. Len(stream) /\ i \in 1 .. Len(t) /\ t[i] = stream[a + i]
    BY <1>1, <1>2
  <2>2. DOMAIN t = 1 .. Len(t) /\ DOMAIN stream = 1 .. Len(stream)
    BY <1>1, <1>2, LenProperties
  <2>3. /\ Bad(t, Order) = { x \in DOMAIN t : t[x] > 127 }
        /\ Bad(stream, Order) = { x \in DOMAIN stream : stream[x] > 127 }
    BY <1>5 DEF Bad
  <2>4. i \in Bad(t, Order) <=> a + i \in Bad(stream, Order)
    BY <2>1, <2>2, <2>3, Zenon
  <2> QED BY <2>4 DEF t
<1>6. CASE encoding = "utf-8"
  <2>1. ~UTF16
    BY <1>6 DEF UTF16
  <2>2. Bad(t, Order) = BadUTF8(t) /\ Bad(stream, Order) = BadUTF8(stream)
    BY <1>6 DEF Bad
  <2>3. \A j \in 1 .. a : j \notin BadUTF8(stream)
    BY <2>2
  <2>4. i \in BadUTF8(t) <=> a + i \in BadUTF8(stream)
    BY <1>1, <1>2, <1>3, <1>4, <2>1, <2>3, LocalUTF8
  <2> QED BY <2>2, <2>4 DEF t
<1>7. CASE UTF16
  <2>1. Width = 2 /\ a % 2 = 0
    BY <1>7 DEF Width
  <2>2. Bad(t, Order) = BadUTF16(t, Order) /\ Bad(stream, Order) = BadUTF16(stream, Order)
    BY <1>7 DEF Bad, UTF16
  <2>3. i \in BadUTF16(t, Order) <=> a + i \in BadUTF16(stream, Order)
    BY <1>1, <1>2, <1>3, <1>4, <1>7, <2>1, LocalUTF16
  <2> QED BY <2>2, <2>3 DEF t
<1> QED BY <1>5, <1>6, <1>7 DEF Types, TypeOK, Encoding, UTF16

\* Nothing is bad in a newline.
LEMMA NewlineIsGood ==
    ASSUME Types, encoding # "unsupported", NEW j \in Nat, j % Width = 0, j + Width <= Len(stream),
           NEW c \in {LF, CR}, Slice(stream, j, j + Width) = Unit(c, Order),
           NEW i \in j + 1 .. j + Width
    PROVE  i \notin Bad(stream, Order)
<1>1. stream \in Seq(Byte) /\ Len(stream) \in Nat /\ i \in 1 .. Len(stream)
  BY WidthIs DEF Types, TypeOK
<1>2. (~UTF16 => stream[j + 1] = c) /\ (UTF16 => UnitAt(stream, j + 1, Order) = c)
  BY NewlineIs
<1>3. CASE encoding = "ascii"
  <2>1. i = j + 1
    BY <1>3 DEF Width, UTF16
  <2>2. ~(stream[i] > 127)
    BY <1>2, <1>3, <2>1, NewlineBytes DEF UTF16
  <2> QED BY <1>3, <2>2 DEF Bad
<1>4. CASE encoding = "utf-8"
  <2>1. i = j + 1
    BY <1>4 DEF Width, UTF16
  <2>2. LengthOf(stream[i]) = 1 /\ ~Continuation(stream[i])
    BY <1>2, <1>4, <2>1, NewlineBytes DEF UTF16
  <2>3. ~Cut(stream, i) /\ ~Stray(stream, i)
    BY <2>2 DEF Cut, Stray
  <2>4. i \notin BadUTF8(stream)
    BY <1>1, <2>3, CutOrStray
  <2> QED BY <1>4, <2>4 DEF Bad
<1>5. CASE UTF16
  <2>1. Width = 2 /\ j % 2 = 0 /\ j + 2 <= Len(stream) /\ i \in {j + 1, j + 2}
    BY <1>1, <1>5 DEF Width
  <2>2. CASE i = j + 1
    <3>1. i # Len(stream)
      BY <1>1, <2>1, <2>2
    <3>2. ~Lead(stream, i, Order) /\ ~Trail(stream, i, Order)
      BY <1>2, <1>5, <2>2, NewlineUnit
    <3> QED BY <1>1, <3>1, <3>2, HalfOrAlone, <1>5 DEF Bad, UTF16
  <2>3. CASE i = j + 2
    <3>1. i % 2 # 1
      BY <2>1, <2>3
    <3> QED BY <1>1, <3>1, HalfOrAlone, <1>5 DEF Bad, UTF16
  <2> QED BY <2>1, <2>2, <2>3
<1> QED BY <1>3, <1>4, <1>5 DEF Types, TypeOK, Encoding, UTF16

\* The mark in front of a first line is not bad, and hides nothing.
LEMMA MarkIsGood ==
    ASSUME NEW t \in Seq(Byte), NEW n, Bad(Unmarked(t, n), Order) = {}
    PROVE  Bad(t, Order) = {}
<1> SUFFICES ASSUME encoding = "utf-8", IsPrefix(BOM, t) PROVE Bad(t, Order) = {}
  BY DEF Unmarked
<1> DEFINE u == SubSeq(t, Len(BOM) + 1, Len(t))
<1>1. Len(t) \in Nat /\ Len(BOM) = 3 /\ 3 <= Len(t)
  BY LenProperties DEF BOM, IsPrefix
<1>2. t[1] = 239 /\ t[2] = 187 /\ t[3] = 191
  <2>1. SubSeq(BOM, 1, 3) = SubSeq(t, 1, 3)
    BY <1>1 DEF IsPrefix
  <2>2. /\ SubSeq(t, 1, 3)[1] = t[1] /\ SubSeq(t, 1, 3)[2] = t[2] /\ SubSeq(t, 1, 3)[3] = t[3]
    <3>1. 0 \in Nat /\ 3 \in Nat /\ 0 <= 3 /\ 3 <= Len(t)
      BY <1>1
    <3>2. \A k \in 1 .. 3 - 0 : Slice(t, 0, 3)[k] = t[0 + k]
      BY <3>1, SliceBytes
    <3> QED BY <3>2 DEF Slice
  <2>3. SubSeq(BOM, 1, 3)[1] = 239 /\ SubSeq(BOM, 1, 3)[2] = 187 /\ SubSeq(BOM, 1, 3)[3] = 191
    <3>1. BOM \in Seq(Byte) /\ Len(BOM) = 3
      BY DEF BOM, Byte
    <3>4. 0 \in Nat /\ 3 \in Nat /\ 0 <= 3 /\ 3 <= Len(BOM)
      BY <3>1
    <3>2. \A k \in 1 .. 3 - 0 : Slice(BOM, 0, 3)[k] = BOM[0 + k]
      BY <3>1, <3>4, SliceBytes
    <3>3. BOM[1] = 239 /\ BOM[2] = 187 /\ BOM[3] = 191
      BY DEF BOM
    <3> QED BY <3>2, <3>3 DEF Slice
  <2> QED BY <2>1, <2>2, <2>3
<1>3. u \in Seq(Byte) /\ Len(u) = Len(t) - 3 /\ \A k \in 1 .. Len(t) - 3 : u[k] = t[3 + k]
  <2>1. u = Slice(t, 3, Len(t))
    BY <1>1 DEF Slice
  <2> HIDE DEF u
  <2>2. 3 \in Nat /\ Len(t) \in Nat /\ 3 <= Len(t) /\ Len(t) <= Len(t)
    BY <1>1
  <2> QED BY <2>1, <2>2, SliceBytes
<1>4. Unmarked(t, n) = u \/ Unmarked(t, n) = t
  BY DEF Unmarked
<1> HIDE DEF u
<1>5. CASE Unmarked(t, n) = u
  <2>1. BadUTF8(u) = {}
    BY <1>5 DEF Bad
  <2>2. \A x : LengthOf(x) \in {1, 2, 3}
    BY DEF LengthOf
  <2>3. LengthOf(t[1]) = 3 /\ LengthOf(t[2]) = 1 /\ LengthOf(t[3]) = 1
    BY <1>2 DEF LengthOf
  <2>4. ASSUME NEW i \in 1 .. Len(t) PROVE ~Cut(t, i)
    <3> SUFFICES ASSUME NEW k \in 1 .. LengthOf(t[i]) - 1,
                        i + k <= Len(t) => ~Continuation(t[i + k])
                 PROVE  FALSE
      BY DEF Cut
    <3>1. CASE i = 1
      <4>1. k \in {1, 2} /\ i + k <= Len(t)
        BY <1>1, <2>3, <3>1
      <4>2. Continuation(t[2]) /\ Continuation(t[3])
        BY <1>2 DEF Continuation
      <4> QED BY <3>1, <4>1, <4>2
    <3>2. CASE i \in {2, 3}
      BY <2>3, <3>2
    <3>3. CASE i > 3
      <4>1. k \in 1 .. 2 /\ i - 3 \in 1 .. Len(u) /\ u[i - 3] = t[i]
        <5>1. LengthOf(t[i]) \in {1, 2, 3}
          BY <2>2
        <5>2. i - 3 \in 1 .. Len(t) - 3 /\ 3 + (i - 3) = i
          BY <1>1, <3>3
        <5> QED BY <1>3, <5>1, <5>2
      <4>2. (i - 3) + k <= Len(u) => ~Continuation(u[(i - 3) + k])
        <5> SUFFICES ASSUME (i - 3) + k <= Len(u) PROVE ~Continuation(u[(i - 3) + k])
          OBVIOUS
        <5>1. (i - 3) + k \in 1 .. Len(t) - 3 /\ 3 + ((i - 3) + k) = i + k /\ i + k <= Len(t)
          BY <1>1, <1>3, <4>1
        <5>2. u[(i - 3) + k] = t[3 + ((i - 3) + k)]
          BY <1>3, <5>1
        <5> QED BY <5>1, <5>2
      <4>3. Cut(u, i - 3)
        BY <4>1, <4>2 DEF Cut
      <4> QED BY <1>3, <2>1, <4>1, <4>3, CutOrStray
    <3> QED BY <3>1, <3>2, <3>3
  <2>5. ASSUME NEW i \in 1 .. Len(t) PROVE ~Stray(t, i)
    <3>1. CASE i = 1
      <4>1. ~Continuation(t[1])
        BY <1>2 DEF Continuation
      <4> QED BY <3>1, <4>1 DEF Stray
    <3>2. CASE i \in {2, 3}
      <4>1. 1 \in 1 .. i - 1 /\ 1 + LengthOf(t[1]) > i
        BY <2>3, <3>2
      <4> QED BY <4>1 DEF Stray
    <3>3. CASE i > 3
      <4>1. i - 3 \in 1 .. Len(u) /\ u[i - 3] = t[i]
        <5>1. i - 3 \in 1 .. Len(t) - 3 /\ 3 + (i - 3) = i
          BY <1>1, <3>3
        <5> QED BY <1>3, <5>1
      <4>2. ~Stray(u, i - 3)
        BY <1>3, <2>1, <4>1, CutOrStray
      <4>3. ASSUME NEW j \in 1 .. (i - 3) - 1, j + LengthOf(u[j]) > i - 3
            PROVE  3 + j \in 1 .. i - 1 /\ (3 + j) + LengthOf(t[3 + j]) > i
        <5>1. j \in 1 .. Len(t) - 3
          BY <1>1
        <5>2. u[j] = t[3 + j] /\ LengthOf(u[j]) \in {1, 2, 3}
          BY <1>3, <2>2, <5>1
        <5> QED BY <4>3, <5>2
      <4>4. Continuation(t[i]) => \E j \in 1 .. (i - 3) - 1 : j + LengthOf(u[j]) > i - 3
        BY <4>1, <4>2 DEF Stray
      <4> QED BY <4>3, <4>4 DEF Stray
    <3> QED BY <3>1, <3>2, <3>3
  <2>6. BadUTF8(t) = {}
    <3>1. \A i \in 1 .. Len(t) : i \notin BadUTF8(t)
      BY <2>4, <2>5, CutOrStray
    <3>2. BadUTF8(t) \subseteq 1 .. Len(t)
      BY LenProperties DEF BadUTF8
    <3> QED BY <3>1, <3>2
  <2> QED BY <2>6 DEF Bad
<1> QED BY <1>4, <1>5

-----------------------------------------------------------------------------
(* The steps of the decoder.                                               *)

\* What DecodesStream says of what was yielded, y, and the error, err.
Decoded(y, err) ==
    LET whole   == LinesOfStream
        long(k) == Len(whole[k]) > max_line_bytes
        bad     == { k \in DOMAIN whole : Refused(k) }
        last    == IF err = NONE THEN Len(whole) ELSE err.line - 1
    IN  IF ~Marked THEN y = << >> /\ err = Failure("mark", 0, 1) ELSE
        /\ y = [k \in 1 .. last |-> Text(whole[k], k, Order)]
        /\ IF err = NONE THEN bad = {} ELSE
           /\ bad # {} /\ err.line = Min(bad)
           /\ err.kind = IF long(err.line) THEN "limit" ELSE "decode"
           /\ err.kind = "decode" /\ err.line > 1 => err.offset = Min(Bad(stream, Order)) - 1

LEMMA DecodesIs ==
    DecodesStream <=> (pc = "done" /\ encoding # "unsupported" => Decoded(yielded, error))
BY Zenon DEF DecodesStream, Decoded, Refused

\* Everything that is said of the stream stays as it is.
LEMMA SameStream ==
    ASSUME encoding' = encoding, stream' = stream, Order' = Order
    PROVE  /\ Width' = Width /\ UTF16' = UTF16 /\ Breaks' = Breaks /\ Starts' = Starts
           /\ LinesOfStream' = LinesOfStream /\ Marked' = Marked
           /\ \A s, o : Bad(s, o)' = Bad(s, o)
           /\ \A k : Refused(k)' = Refused(k)
           /\ \A s, k, o : Text(s, k, o)' = Text(s, k, o)
           /\ \A y, err : Decoded(y, err)' = Decoded(y, err)
<1>1. UTF16' = UTF16
  BY DEF UTF16
<1>2. Width' = Width
  BY <1>1 DEF Width
<1>3. Unit(LF, Order)' = Unit(LF, Order) /\ Unit(CR, Order)' = Unit(CR, Order)
  BY <1>1 DEF Unit
<1>4. Breaks' = Breaks
  BY <1>2, <1>3, Zenon DEF Breaks, NewlinesIn
<1>5. Starts' = Starts
  BY <1>2, <1>4, Zenon DEF Starts
<1>6. \A i : LineAt(i)' = LineAt(i)
  BY <1>2, <1>3, <1>4, Zenon DEF LineAt
<1>7. \A k : StartOf(k)' = StartOf(k)
  BY <1>5, Zenon DEF StartOf
<1>8. LinesOfStream' = LinesOfStream
  <2>1. \A k : LineAt(StartOf(k))' = LineAt(StartOf(k))
    <3> TAKE k
    <3>1. PICK i : i = StartOf(k)
      OBVIOUS
    <3> QED BY <1>6, <1>7, <3>1
  <2> QED BY <1>5, <2>1, Zenon DEF LinesOfStream
<1>9. Marked' = Marked
  BY DEF Marked
<1>10. \A s, o : Bad(s, o)' = Bad(s, o)
  BY DEF Bad
<1>11. \A s, k : Unmarked(s, k)' = Unmarked(s, k)
  BY DEF Unmarked
<1>12. \A k : Refused(k)' = Refused(k)
  BY <1>8, <1>10, <1>11 DEF Refused
<1>13. \A s, k, o : Text(s, k, o)' = Text(s, k, o)
  BY <1>1, <1>11, Zenon DEF Text
<1>14. \A y, err : Decoded(y, err)' = Decoded(y, err)
  BY <1>8, <1>9, <1>10, <1>12, <1>13, Zenon DEF Decoded
<1> QED BY <1>1, <1>2, <1>4, <1>5, <1>8, <1>9, <1>10, <1>12, <1>13, <1>14

LEMMA UnitBytes ==
    ASSUME NEW c \in {LF, CR}, NEW o
    PROVE  Unit(c, o) \in Seq(Byte) /\ Len(Unit(c, o)) = Width
<1>1. c \in Byte /\ 0 \in Byte
  BY DEF LF, CR, Byte
<1> QED BY <1>1 DEF Unit, Width

LEMMA SuffixIs ==
    ASSUME NEW s \in Seq(Byte), NEW t \in Seq(Byte), IsSuffix(s, t)
    PROVE  Len(s) <= Len(t) /\ Slice(t, Len(t) - Len(s), Len(t)) = s
<1> DEFINE m == Len(s)
           n == Len(t)
           rs == Reverse(s)
           rt == Reverse(t)
           u == Slice(t, n - m, n)
<1>1. m \in Nat /\ n \in Nat
  BY LenProperties
<1>2. rs \in Seq(Byte) /\ Len(rs) = m /\ \A k \in 1 .. m : rs[k] = s[m - k + 1]
  <2>1. rs \in [1 .. m -> Byte]
    BY <1>1, LenProperties DEF Reverse
  <2>2. rs \in Seq(Byte) /\ Len(rs) = m
    BY <1>1, <2>1, SeqDef, LenProperties
  <2> QED BY <2>2 DEF Reverse
<1>3. rt \in Seq(Byte) /\ Len(rt) = n /\ \A k \in 1 .. n : rt[k] = t[n - k + 1]
  <2>1. rt \in [1 .. n -> Byte]
    BY <1>1, LenProperties DEF Reverse
  <2>2. rt \in Seq(Byte) /\ Len(rt) = n
    BY <1>1, <2>1, SeqDef, LenProperties
  <2> QED BY <2>2 DEF Reverse
<1>4. Len(rs) <= Len(rt) /\ SubSeq(rs, 1, Len(rs)) = SubSeq(rt, 1, Len(rs))
  BY DEF IsSuffix, IsPrefix
<1> HIDE DEF rs, rt, m, n
<1>5. m <= n
  BY <1>2, <1>3, <1>4
<1>6. \A k \in 1 .. m : rs[k] = rt[k]
  <2>1. 0 \in Nat /\ 0 <= m /\ m <= Len(rs) /\ m <= Len(rt) /\ m - 0 = m
    BY <1>1, <1>2, <1>3, <1>5
  <2>2. \A k \in 1 .. m - 0 : Slice(rs, 0, m)[k] = rs[0 + k]
    BY <1>1, <1>2, <2>1, SliceBytes
  <2>4. \A k \in 1 .. m - 0 : Slice(rt, 0, m)[k] = rt[0 + k]
    BY <1>1, <1>3, <2>1, SliceBytes, ZenonT(30)
  <2>3. Slice(rs, 0, m) = Slice(rt, 0, m)
    BY <1>2, <1>4 DEF Slice
  <2> QED BY <1>1, <2>1, <2>2, <2>3, <2>4
<1>7. u \in Seq(Byte) /\ Len(u) = m /\ \A j \in 1 .. m : u[j] = t[n - m + j]
  <2>1. n - m \in Nat /\ n - m <= n /\ n <= Len(t) /\ n - (n - m) = m
    BY <1>1, <1>5 DEF n
  <2>2. u \in Seq(Byte) /\ Len(u) = n - (n - m)
        /\ \A j \in 1 .. n - (n - m) : u[j] = t[(n - m) + j]
    BY <1>1, <2>1, SliceBytes
  <2> QED BY <2>1, <2>2
<1> HIDE DEF u
<1>8. \A j \in 1 .. Len(u) : u[j] = s[j]
  <2> SUFFICES ASSUME NEW j \in 1 .. m PROVE u[j] = s[j]
    BY <1>7
  <2>1. m - j + 1 \in 1 .. m /\ m - j + 1 \in 1 .. n /\ n - (m - j + 1) + 1 = n - m + j
        /\ m - (m - j + 1) + 1 = j
    BY <1>1, <1>5
  <2>2. rs[m - j + 1] = s[j] /\ rt[m - j + 1] = t[n - m + j]
    BY <1>2, <1>3, <2>1
  <2>3. rs[m - j + 1] = rt[m - j + 1]
    BY <1>6, <2>1
  <2> QED BY <1>7, <2>2, <2>3
<1>9. u = s
  BY <1>7, <1>8, SeqEqual DEF m
<1> QED BY <1>5, <1>9 DEF u, m, n

\* Without the carriage return a line ends before it.
LEMMA ContentEnds ==
    ASSUME Types, byte_order = Order, NEW a \in Nat, NEW b \in Nat, a <= b, b <= Len(stream)
    PROVE  \E e \in Nat : /\ a <= e /\ e <= b /\ WithoutCR(Slice(stream, a, b)) = Slice(stream, a, e)
                         /\ \/ e = b
                            \/ e = b - Width /\ Slice(stream, e, e + Width) = Unit(CR, Order)
<1> DEFINE raw == Slice(stream, a, b)
<1>1. stream \in Seq(Byte) /\ raw \in Seq(Byte) /\ Len(raw) = b - a
  BY SliceBytes DEF Types, TypeOK
<1>2. CASE ~IsSuffix(Unit(CR, byte_order), raw)
  <2>1. WithoutCR(raw) = raw
    BY <1>2 DEF WithoutCR
  <2> QED BY <2>1
<1>3. CASE IsSuffix(Unit(CR, byte_order), raw)
  <2> DEFINE unit == Unit(CR, byte_order)
             e == b - Width
  <2>1. unit \in Seq(Byte) /\ Len(unit) = Width /\ Width \in {1, 2}
    BY UnitBytes, WidthIs
  <2>2. WithoutCR(raw) = Slice(raw, 0, Len(raw) - Width)
    <3>1. 0 + 1 = 1
      OBVIOUS
    <3> HIDE DEF raw
    <3>2. WithoutCR(raw) = SubSeq(raw, 1, Len(raw) - Width)
      BY <1>3 DEF WithoutCR
    <3> QED BY <3>1, <3>2 DEF Slice
  <2>3. Len(unit) <= Len(raw) /\ Slice(raw, Len(raw) - Len(unit), Len(raw)) = unit
    <3> HIDE DEF raw, unit
    <3> QED BY <1>1, <1>3, <2>1, SuffixIs DEF unit
  <2> HIDE DEF unit
  <2>4. e \in Nat /\ a <= e /\ e <= b /\ Len(raw) - Width = e - a /\ e - a \in Nat /\ e + Width = b
    BY <1>1, <2>1, <2>3
  <2>5. /\ Slice(raw, 0, e - a) = Slice(stream, a + 0, a + (e - a))
        /\ Slice(raw, e - a, b - a) = Slice(stream, a + (e - a), a + (b - a))
    <3>1. /\ 0 \in Nat /\ b - a \in Nat /\ 0 <= e - a /\ e - a <= b - a /\ b - a <= b - a
      BY <2>4
    <3> HIDE DEF e
    <3> QED BY <1>1, <2>4, <3>1, SliceOfSlice
  <2>6. a + 0 = a /\ a + (e - a) = e /\ a + (b - a) = b
    BY <2>4
  <2>7. WithoutCR(raw) = Slice(stream, a, e)
    BY <2>2, <2>4, <2>5, <2>6
  <2>8. Slice(stream, e, e + Width) = Unit(CR, Order)
    BY <1>1, <2>1, <2>3, <2>4, <2>5, <2>6 DEF unit
  <2> HIDE DEF e, raw
  <2> QED BY <2>4, <2>7, <2>8 DEF e, raw
<1> QED BY <1>2, <1>3

\* Where a line may end for BadOfLine.
EndsLine(e) ==
    \/ e = Len(stream)
    \/ /\ e % Width = 0 /\ e + Width <= Len(stream)
       /\ \E c \in {LF, CR} : Slice(stream, e, e + Width) = Unit(c, Order)

\* The first bad place of the stream is that of the first line that has one.
LEMMA FirstBad ==
    ASSUME Types, encoding # "unsupported", InStream, LinesYielded, NEW e \in Nat,
           line_start <= e, e <= Len(stream), EndsLine(e),
           Bad(Slice(stream, line_start, e), Order) # {}
    PROVE  Min(Bad(stream, Order)) = line_start + Min(Bad(Slice(stream, line_start, e), Order))
<1> DEFINE s == Slice(stream, line_start, e)
           B == Bad(s, Order)
           m == Min(B)
           A == Bad(stream, Order)
<1>1. stream \in Seq(Byte) /\ Len(stream) \in Nat /\ line_start \in Nat
  BY PendingIs DEF Types, TypeOK
<1>2. s \in Seq(Byte) /\ Len(s) = e - line_start
  BY <1>1, SliceBytes
<1>3. B \subseteq 1 .. e - line_start /\ A \subseteq 1 .. Len(stream)
  <2> HIDE DEF s
  <2> QED BY <1>1, <1>2, BadIsPlaced
<1>4. \A i \in 1 .. e - line_start : i \in B <=> line_start + i \in A
  BY <1>1, BadOfLine DEF InStream, LinesYielded, EndsLine
<1>5. \A i \in 1 .. line_start : i \notin A
  BY DEF LinesYielded
<1> HIDE DEF B, A
<1>6. m \in B /\ \A i \in B : m <= i
  <2>1. B \in SUBSET Nat /\ B # {}
    BY <1>1, <1>3 DEF B
  <2> QED BY <2>1, LeastOf
<1> HIDE DEF m
<1>7. line_start + m \in A /\ m \in 1 .. e - line_start
  BY <1>3, <1>4, <1>6
<1>8. ASSUME NEW i \in A PROVE line_start + m <= i
  <2>1. i \in 1 .. Len(stream) /\ i > line_start
    BY <1>1, <1>3, <1>5, <1>8
  <2>2. CASE i - line_start \in 1 .. e - line_start
    <3>1. line_start + (i - line_start) = i
      BY <1>1, <2>1
    <3>2. m <= i - line_start
      BY <1>4, <1>6, <1>8, <2>2, <3>1
    <3> QED BY <1>1, <1>7, <2>1, <3>2
  <2>3. CASE i - line_start \notin 1 .. e - line_start
    BY <1>1, <1>7, <2>1, <2>3
  <2> QED BY <2>2, <2>3
<1>9. Min(A) = line_start + m
  <2>1. A \in SUBSET Nat
    BY <1>1, <1>3
  <2> QED BY <1>7, <1>8, <2>1, LeastIs
<1> QED BY <1>9 DEF A, m, B

\* A line that is refused is the first one, if all before it were yielded.
LEMMA RefusedHere ==
    ASSUME Types, InStream, LinesYielded, Marked, line_start < Len(stream), Refused(line_number),
           NEW err, err # NONE, err.line = line_number,
           err.kind = IF Len(LinesOfStream[line_number]) > max_line_bytes THEN "limit" ELSE "decode",
           err.kind = "decode" /\ line_number > 1 => err.offset = Min(Bad(stream, Order)) - 1
    PROVE  Decoded(yielded, err)
<1> DEFINE bad == { k \in DOMAIN LinesOfStream : Refused(k) }
<1>1. stream \in Seq(Byte) /\ line_number \in 1 .. Cardinality(Starts)
  BY ThisLine DEF Types, TypeOK
<1>2. Cardinality(Starts) \in Nat /\ DOMAIN LinesOfStream = 1 .. Cardinality(Starts)
  BY <1>1, StartsAreFinite DEF LinesOfStream
<1>3. bad \in SUBSET Nat /\ line_number \in bad
  BY <1>1, <1>2
<1>4. \A k \in bad : line_number <= k
  <2> SUFFICES ASSUME NEW k \in bad, k < line_number PROVE FALSE
    BY <1>1, <1>3
  <2>1. k \in 1 .. line_number - 1 /\ Refused(k)
    BY <1>1, <1>2
  <2> QED BY <2>1 DEF LinesYielded
<1>5. Min(bad) = line_number /\ bad # {}
  <2> HIDE DEF bad
  <2> QED BY <1>3, <1>4, LeastIs
<1> HIDE DEF bad
<1>6. yielded = [k \in 1 .. line_number - 1 |-> Text(LinesOfStream[k], k, Order)]
  BY DEF LinesYielded
<1> QED BY <1>5, <1>6 DEF Decoded, bad

\* The first newline of what is pending is the first of the stream from there on.
LEMMA FirstNewline ==
    ASSUME Types, InStream, Searched, byte_order = Order, NEW at \in Newlines,
           \A other \in Newlines : at <= other
    PROVE  /\ at \in Nat /\ line_start + at \in Breaks /\ line_start + at + Width <= position
           /\ \A j \in Breaks : j >= line_start => line_start + at <= j
           /\ SubSeq(pending, 1, at) = Slice(stream, line_start, line_start + at)
<1>1. /\ stream \in Seq(Byte) /\ search_from \in Nat /\ line_start \in Nat /\ position \in Nat
      /\ line_start <= position /\ position <= Len(stream) /\ Len(stream) \in Nat
      /\ pending = Slice(stream, line_start, position)
  BY PendingIs DEF Types, TypeOK, InStream
<1>2. at \in Nat
  <2>1. at \in search_from .. Len(pending) - Width
    BY DEF Newlines, NewlinesIn
  <2> QED BY <1>1, <2>1
<1>3. line_start + at \in Breaks /\ line_start + at + Width <= position
  BY <1>1, <1>2, PendingNewlines DEF Newlines
<1>4. ASSUME NEW j \in Breaks, j >= line_start, j < line_start + at PROVE FALSE
  <2>1. /\ j \in Nat /\ j % Width = 0
        /\ line_start + at \in Nat /\ (line_start + at) % Width = 0
    BY <1>1, <1>3, BreakIs
  <2>2. j + Width <= line_start + at
    BY <1>4, <2>1, UnitsApart
  <2>3. j - line_start \in Nat /\ j - line_start >= search_from /\ line_start + (j - line_start) = j
    BY <1>1, <1>4, <2>1 DEF Searched
  <2>4. j + Width <= position
    BY <1>1, <1>2, <1>3, <2>1, <2>2, WidthIs
  <2>5. j - line_start \in Newlines
    BY <1>1, <1>4, <2>3, <2>4, PendingNewlines DEF Newlines
  <2>6. at <= j - line_start
    BY <2>5
  <2> QED BY <1>1, <1>2, <1>4, <2>1, <2>6
<1>5. \A j \in Breaks : j >= line_start => line_start + at <= j
  <2> SUFFICES ASSUME NEW j \in Breaks, j >= line_start PROVE line_start + at <= j
    OBVIOUS
  <2>1. j \in Nat
    BY <1>1, BreakIs
  <2> QED BY <1>1, <1>2, <1>4, <2>1
<1>6. SubSeq(pending, 1, at) = Slice(stream, line_start, line_start + at)
  <2>1. /\ 0 \in Nat /\ 0 <= at /\ at <= position - line_start
        /\ line_start + 0 = line_start /\ 0 + 1 = 1
    BY <1>1, <1>2, <1>3, WidthIs
  <2>2. Slice(pending, 0, at) = Slice(stream, line_start + 0, line_start + at)
    BY <1>1, <1>2, <2>1, SliceOfSlice
  <2>3. Slice(pending, 0, at) = SubSeq(pending, 1, at)
    BY <2>1 DEF Slice
  <2> QED BY <2>1, <2>2, <2>3
<1> QED BY <1>2, <1>3, <1>5, <1>6

\* One more of a sequence that is given by a function.
LEMMA OneMore ==
    ASSUME NEW n \in Nat, NEW f, f = [k \in 1 .. n + 1 |-> f[k]]
    PROVE  Append([k \in 1 .. n |-> f[k]], f[n + 1]) = f
<1> DEFINE R == { f[k] : k \in 1 .. n + 1 }
           s == [k \in 1 .. n |-> f[k]]
           t == Append(s, f[n + 1])
<1>1. f \in [1 .. n + 1 -> R] /\ f[n + 1] \in R
  OBVIOUS
<1>2. f \in Seq(R) /\ Len(f) = n + 1
  <2>1. f \in Seq(R)
    <3> HIDE DEF R
    <3>1. n + 1 \in Nat
      OBVIOUS
    <3> QED BY <1>1, <3>1, SeqDef
  <2>2. Len(f) \in Nat /\ DOMAIN f = 1 .. Len(f)
    BY <2>1, LenProperties
  <2>3. 1 .. Len(f) = 1 .. n + 1
    BY <1>1, <2>2
  <2> QED BY <2>1, <2>2, <2>3
<1>3. s \in Seq(R) /\ Len(s) = n
  <2>1. s \in [1 .. n -> R]
    OBVIOUS
  <2>2. s \in Seq(R)
    BY <2>1, SeqDef, ZenonT(30)
  <2>3. Len(s) \in Nat /\ DOMAIN s = 1 .. Len(s)
    BY <2>2, LenProperties
  <2>4. 1 .. Len(s) = 1 .. n
    BY <2>3
  <2> QED BY <2>2, <2>3, <2>4
<1>4. \A k \in 1 .. n : s[k] = f[k]
  OBVIOUS
<1> HIDE DEF R, s
<1>5. /\ t \in Seq(R) /\ Len(t) = n + 1 /\ t[n + 1] = f[n + 1]
      /\ \A k \in 1 .. n : t[k] = s[k]
  BY <1>1, <1>3, AppendProperties
<1> HIDE DEF t
<1>6. \A k \in 1 .. Len(t) : t[k] = f[k]
  <2> SUFFICES ASSUME NEW k \in 1 .. n + 1 PROVE t[k] = f[k]
    BY <1>5
  <2>1. k = n + 1 \/ k \in 1 .. n
    OBVIOUS
  <2> QED BY <1>4, <1>5, <2>1
<1>7. t = f
  BY <1>2, <1>5, <1>6, SeqEqual
<1> QED BY <1>7 DEF t, s

\* What the verdict on a content is.
LEMMA VerdictIs ==
    ASSUME NEW content \in Seq(Byte), Types
    PROVE  LET bad == Bad(Unmarked(content, line_number), byte_order)
           IN  /\ Len(content) > max_line_bytes => Verdict(content) = TooLong
               /\ ~(Len(content) > max_line_bytes) /\ bad # {} =>
                    Verdict(content) = Failure("decode", line_start + Min(bad) - 1, line_number)
               /\ ~(Len(content) > max_line_bytes) /\ bad = {} => Verdict(content) = NONE
<1>1. Len(content) \in Nat /\ max_line_bytes \in Nat
  BY LenProperties, DecoderAssumptions
<1>2. Len(content) <= max_line_bytes <=> ~(Len(content) > max_line_bytes)
  BY <1>1
<1> QED BY <1>2 DEF Verdict

\* A line that is refused, taken at its newline or at the end.
LEMMA RefusalDecodes ==
    ASSUME BoundInv, encoding # "unsupported", InStream, LinesYielded, Marked,
           line_start < Len(stream), NEW e \in Nat, line_start <= e, e <= Len(stream), EndsLine(e),
           NEW content, content = Slice(stream, line_start, e),
           LinesOfStream[line_number] = content,
           Bad(Unmarked(content, line_number), byte_order)
             = Bad(Unmarked(content, line_number), Order),
           Verdict(content) # NONE
    PROVE  Decoded(yielded, Verdict(content))
<1> DEFINE bad == Bad(Unmarked(content, line_number), Order)
           err == Verdict(content)
<1>1. Types /\ stream \in Seq(Byte) /\ content \in Seq(Byte) /\ line_start \in Nat /\ line_number \in Nat
  BY SliceBytes DEF BoundInv, Types, TypeOK
<1>2. CASE Len(content) > max_line_bytes
  <2>1. err = Failure("limit", line_start + max_line_bytes, line_number)
    BY <1>1, <1>2, VerdictIs DEF TooLong
  <2>2. Refused(line_number)
    BY <1>2 DEF Refused
  <2> HIDE DEF err
  <2>3. err # NONE
    BY DEF err
  <2>4. err.line = line_number /\ err.kind = "limit"
    BY <2>1 DEF Failure
  <2>5. Decoded(yielded, err)
    BY <1>1, <1>2, <2>2, <2>3, <2>4, RefusedHere
  <2> QED BY <2>5 DEF err
<1>3. CASE ~(Len(content) > max_line_bytes)
  <2>1. bad # {} /\ err = Failure("decode", line_start + Min(bad) - 1, line_number)
    BY <1>1, <1>3, VerdictIs
  <2>2. Refused(line_number)
    BY <2>1 DEF Refused
  <2>3. ASSUME line_number > 1 PROVE line_start + Min(bad) - 1 = Min(Bad(stream, Order)) - 1
    <3>1. Unmarked(content, line_number) = content
      BY <2>3 DEF Unmarked
    <3>2. Bad(content, Order) # {} /\ bad = Bad(content, Order)
      BY <2>1, <3>1
    <3>3. Min(Bad(stream, Order)) = line_start + Min(Bad(content, Order))
      BY <1>1, <3>2, FirstBad
    <3>4. Min(bad) = Min(Bad(content, Order))
      BY <3>2
    <3>5. Min(bad) \in Nat
      <4>1. bad \in SUBSET Nat
        BY <1>1, <3>2, BadIsPlaced
      <4> QED BY <2>1, <4>1, LeastOf
    <3> HIDE DEF bad, err
    <3> DEFINE m == Min(bad)
    <3>6. Min(Bad(stream, Order)) = line_start + m
      BY <3>3, <3>4
    <3>7. m \in Nat
      BY <3>5
    <3> HIDE DEF m
    <3>8. line_start + (m - 1) = (line_start + m) - 1
      BY <1>1, <3>7
    <3> QED BY <3>6, <3>8 DEF m
  <2> HIDE DEF err, bad
  <2>4. err # NONE
    BY DEF err
  <2>5. /\ err.line = line_number /\ err.kind = "decode"
        /\ err.offset = line_start + Min(bad) - 1
    BY <2>1 DEF Failure
  <2>6. err.kind = "decode" /\ line_number > 1 => err.offset = Min(Bad(stream, Order)) - 1
    BY <2>3, <2>5
  <2>7. Decoded(yielded, err)
    BY <1>1, <1>3, <2>2, <2>4, <2>5, <2>6, RefusedHere
  <2> QED BY <2>7 DEF err
<1> QED BY <1>2, <1>3

\* A line ends before its newline, with or without a carriage return.
LEMMA EndOfLine ==
    ASSUME Types, NEW b \in Breaks, NEW e \in Nat,
           e = b \/ (e = b - Width /\ Slice(stream, e, e + Width) = Unit(CR, Order))
    PROVE  e % Width = 0 /\ e + Width <= Len(stream) /\ EndsLine(e)
<1>1. /\ stream \in Seq(Byte) /\ Len(stream) \in Nat /\ b \in Nat /\ b % Width = 0
      /\ b + Width <= Len(stream) /\ Slice(stream, b, b + Width) = Unit(LF, Order)
      /\ Width \in {1, 2}
  BY BreakIs, WidthIs DEF Types, TypeOK
<1>2. e % Width = 0 /\ e + Width <= Len(stream)
  <2>1. CASE e = b
    BY <1>1, <2>1
  <2>2. CASE e = b - Width /\ Width = 1
    BY <1>1, <2>2
  <2>3. CASE e = b - Width /\ Width = 2
    BY <1>1, <2>3
  <2> QED BY <1>1, <2>1, <2>2, <2>3
<1> QED BY <1>1, <1>2 DEF EndsLine

\* The line that begins at line_start is the last one to begin before a place, if no
\* newline ends between the two.
LEMMA StartsUpTo ==
    ASSUME stream \in Seq(Byte), InStream, line_start < Len(stream), NEW to \in Nat, line_start < to,
           \A h \in Breaks : h >= line_start => ~(h + Width < to)
    PROVE  Cardinality({ j \in Starts : j < to }) = line_number
<1> DEFINE T == { j \in Starts : j < line_start }
           U == { j \in Starts : j < to }
<1>1. line_start \in Nat /\ line_start % Width = 0 /\ Width \in {1, 2} /\ line_start \in Starts
  BY PendingIs, ThisLine, WidthIs DEF InStream
<1>2. ASSUME NEW j \in Starts, j < to, ~(j < line_start) PROVE j = line_start
  <2>1. j \in Nat
    BY StartsAreFinite
  <2>2. CASE j = 0
    BY <1>1, <1>2, <2>2
  <2>3. CASE \E h \in Breaks : j = h + Width
    <3>1. PICK h \in Breaks : j = h + Width
      BY <2>3
    <3>2. h \in Nat /\ h % Width = 0
      BY BreakIs
    <3>3. ~(h >= line_start)
      BY <1>2, <3>1
    <3>4. h + Width <= line_start
      BY <1>1, <3>2, <3>3, UnitsApart
    <3> QED BY <1>1, <1>2, <2>1, <3>1, <3>4
  <2> QED BY <2>2, <2>3 DEF Starts
<1>3. U = T \cup {line_start} /\ line_start \notin T
  <2>1. \A j \in Starts : j \in Nat
    BY StartsAreFinite
  <2>2. \A j \in Starts : j < line_start => j < to
    BY <1>1, <2>1
  <2>3. ~(line_start < line_start)
    BY <1>1
  <2>4. \A j \in Starts : j < to <=> j < line_start \/ j = line_start
    BY <1>2, <2>2
  <2> QED BY <1>1, <2>3, <2>4, Zenon
<1>4. IsFiniteSet(T) /\ Cardinality(T) \in Nat
  BY StartsAreFinite
<1>5. Cardinality(T) + 1 = line_number
  BY DEF InStream
<1> HIDE DEF T, U
<1>6. Cardinality(U) = Cardinality(T) + 1
  BY <1>3, <1>4, FS_AddElement
<1> QED BY <1>5, <1>6 DEF U

\* After a line without anything bad the next one begins behind its newline.
LEMMA NextLine ==
    ASSUME Types, encoding # "unsupported", InStream, LinesYielded, NEW b \in Breaks,
           line_start <= b, \A j \in Breaks : j >= line_start => b <= j,
           NEW e \in Nat, line_start <= e, e <= b,
           LinesOfStream[line_number] = Slice(stream, line_start, e),
           e = b \/ (e = b - Width /\ Slice(stream, e, e + Width) = Unit(CR, Order)),
           ~Refused(line_number)
    PROVE  /\ \A i \in 1 .. b + Width : i \notin Bad(stream, Order)
           /\ Cardinality({ j \in Starts : j < b + Width }) = line_number
<1> DEFINE content == Slice(stream, line_start, e)
<1>1. /\ stream \in Seq(Byte) /\ Len(stream) \in Nat /\ line_start \in Nat /\ b \in Nat
      /\ b % Width = 0 /\ b + Width <= Len(stream) /\ Slice(stream, b, b + Width) = Unit(LF, Order)
      /\ line_start % Width = 0 /\ Width \in {1, 2}
  BY PendingIs, BreakIs, WidthIs DEF Types, TypeOK, InStream
<1>2. content \in Seq(Byte) /\ Len(content) = e - line_start
  <2>1. e <= Len(stream)
    BY <1>1
  <2> QED BY <1>1, <2>1, SliceBytes
<1>3. e % Width = 0 /\ e + Width <= Len(stream)
  BY EndOfLine
<1>4. EndsLine(e)
  BY EndOfLine
<1>5. Bad(content, Order) = {}
  <2>1. Bad(Unmarked(content, line_number), Order) = {}
    BY DEF Refused
  <2> HIDE DEF content
  <2> QED BY <1>2, <2>1, MarkIsGood
<1>6. \A i \in 1 .. e - line_start : line_start + i \notin Bad(stream, Order)
  <2>1. /\ e <= Len(stream) /\ line_start % Width = 0
        /\ line_start = 0 \/ line_start - Width \in Breaks
    BY <1>1 DEF InStream
  <2>2. \A j \in 1 .. line_start : j \notin Bad(stream, Order)
    BY DEF LinesYielded
  <2>3. \/ e = Len(stream)
        \/ /\ e % Width = 0 /\ e + Width <= Len(stream)
           /\ \E c \in {LF, CR} : Slice(stream, e, e + Width) = Unit(c, Order)
    BY <1>4 DEF EndsLine
  <2>4. \A i \in 1 .. e - line_start : i \in Bad(content, Order) <=> line_start + i \in Bad(stream, Order)
    BY <1>1, <2>1, <2>2, <2>3, BadOfLine
  <2> HIDE DEF content
  <2> QED BY <1>5, <2>4
<1>7. \A i \in b + 1 .. b + Width : i \notin Bad(stream, Order)
  BY <1>1, NewlineIsGood
<1>8. e = b \/ (\A i \in e + 1 .. e + Width : i \notin Bad(stream, Order))
  BY <1>3, NewlineIsGood
<1>9. ASSUME NEW i \in 1 .. b + Width PROVE i \notin Bad(stream, Order)
  <2>1. CASE i <= line_start
    BY <2>1 DEF LinesYielded
  <2>2. CASE line_start < i /\ i <= e
    <3>1. i - line_start \in 1 .. e - line_start /\ line_start + (i - line_start) = i
      BY <1>1, <2>2
    <3> QED BY <1>6, <3>1
  <2>3. CASE e < i /\ i <= b
    <3>1. e # b /\ i \in e + 1 .. e + Width
      BY <1>1, <2>3
    <3> QED BY <1>8, <3>1
  <2>4. CASE b < i
    <3>1. i \in b + 1 .. b + Width
      BY <1>1, <2>4
    <3> QED BY <1>7, <3>1
  <2> QED BY <1>1, <2>1, <2>2, <2>3, <2>4
<1>10. Cardinality({ j \in Starts : j < b + Width }) = line_number
  <2>1. ASSUME NEW h \in Breaks, h >= line_start PROVE ~(h + Width < b + Width)
    <3>1. h \in Nat /\ b <= h
      BY <1>1, <2>1, BreakIs
    <3> QED BY <1>1, <3>1
  <2>2. b + Width \in Nat /\ line_start < b + Width
    BY <1>1
  <2> QED BY <1>1, <2>1, <2>2, StartsUpTo
<1> QED BY <1>9, <1>10

\* What the lines are does not change while the line is the same.
LEMMA SameLines ==
    ASSUME UNCHANGED <<encoding, stream, line_start, line_number, yielded>>, Order' = Order,
           LinesYielded
    PROVE  LinesYielded'
<1>1. LinesOfStream' = LinesOfStream /\ (\A k : Refused(k)' = Refused(k))
      /\ \A s, k, o : Text(s, k, o)' = Text(s, k, o)
  BY SameStream
<1>2. Bad(stream, Order)' = Bad(stream, Order)
  BY DEF Bad
<1> QED BY <1>1, <1>2, Zenon DEF LinesYielded

\* The generator ends as the stream says.
LEMMA DoneDecodes ==
    ASSUME UNCHANGED <<encoding, stream>>, Order' = Order, pc' = "done", BoundInv',
           encoding = "unsupported" \/ Decoded(yielded', error')
    PROVE  DecodeInv'
<1>1. PICK y, err : y = yielded' /\ err = error'
  OBVIOUS
<1>2. encoding = "unsupported" \/ Decoded(y, err)
  BY <1>1
<1>3. encoding = "unsupported" \/ Decoded(y, err)'
  BY <1>2, SameStream
<1>4. Decoded(y, err)' => Decoded(yielded, error)'
  BY <1>1, Zenon DEF Decoded
<1>5. DecodesStream'
  BY <1>3, <1>4, Zenon DEF DecodesStream, Decoded, Refused
<1> QED BY <1>5 DEF DecodeInv

\* The first bytes of a stream begin with a mark if the stream does.
LEMMA PrefixOf ==
    ASSUME NEW s \in Seq(Byte), NEW n \in Nat, n <= Len(s), NEW m \in Seq(Byte), Len(m) <= n
    PROVE  IsPrefix(m, Slice(s, 0, n)) <=> IsPrefix(m, s)
<1>1. 0 \in Nat /\ 0 <= n /\ Len(m) \in Nat /\ 0 <= Len(m) /\ Len(m) <= n - 0 /\ Len(s) \in Nat
      /\ 0 + Len(m) = Len(m) /\ 0 + 0 = 0 /\ n - 0 = n /\ 0 + 1 = 1 /\ Len(m) <= Len(s)
  BY LenProperties
<1>2. Len(Slice(s, 0, n)) = n
  BY <1>1, SliceBytes
<1>3. Slice(Slice(s, 0, n), 0, Len(m)) = Slice(s, 0 + 0, 0 + Len(m))
  BY <1>1, SliceOfSlice
<1>4. SubSeq(Slice(s, 0, n), 1, Len(m)) = SubSeq(s, 1, Len(m))
  <2>1. Slice(Slice(s, 0, n), 0, Len(m)) = SubSeq(Slice(s, 0, n), 0 + 1, Len(m))
    BY Zenon DEF Slice
  <2>2. Slice(s, 0, Len(m)) = SubSeq(s, 0 + 1, Len(m))
    BY DEF Slice
  <2> QED BY <1>1, <1>3, <2>1, <2>2
<1> QED BY <1>1, <1>2, <1>4 DEF IsPrefix

\* Nothing happens to the stream before it is read.
LEMMA OpenDecodes == ASSUME DecodeInv, BoundInv', Open PROVE DecodeInv'
<1>1. /\ UNCHANGED <<encoding, stream, position, byte_order>> /\ pc = "open"
      /\ UNCHANGED <<pending, line_start, line_number, search_from, yielded>>
      /\ IF encoding = "unsupported" THEN pc' = "done" ELSE pc' = "read" /\ error' = error
  BY DEF Open, Raise, lineVars
<1>2. Order' = Order
  BY <1>1 DEF Order
<1>3. CASE encoding = "unsupported"
  BY <1>1, <1>2, <1>3, DoneDecodes
<1>4. CASE encoding # "unsupported"
  <2>1. error = NONE /\ InStream /\ OrderKnown /\ Searched /\ LinesYielded
    BY <1>1 DEF DecodeInv
  <2>2. /\ Width' = Width /\ UTF16' = UTF16 /\ Breaks' = Breaks /\ Starts' = Starts
        /\ Marked' = Marked
    BY <1>1, <1>2, SameStream
  <2>3. LinesYielded'
    BY <1>1, <1>2, <2>1, SameLines
  <2>4. InStream'
    BY <1>1, <2>1, <2>2, Zenon DEF InStream, Slice
  <2>5. OrderKnown'
    BY <1>1, <1>2, <1>4, <2>1, <2>2 DEF OrderKnown
  <2>6. Searched'
    BY <1>1, <1>4, <2>1, <2>2 DEF Searched
  <2> QED BY <1>1, <1>4, <2>1, <2>3, <2>4, <2>5, <2>6 DEF DecodeInv
<1> QED BY <1>3, <1>4

\* A stream of utf-16 that is not yet known to be in any byte order is at its start.
LEMMA NotYetKnown ==
    ASSUME DecodeInv, pc = "read", byte_order = NONE, UTF16
    PROVE  /\ encoding = "utf-16" /\ line_start = 0 /\ line_number = 1 /\ yielded = << >>
           /\ position < 2 /\ position \in Nat /\ Len(stream) \in Nat
<1>1. /\ Types /\ InStream /\ OrderKnown /\ LinesYielded /\ stream \in Seq(Byte)
      /\ encoding = "utf-16"
  BY DEF DecodeInv, BoundInv, Types, TypeOK
<1>2. position \in Nat /\ line_start \in Nat /\ line_start <= position /\ Len(stream) \in Nat
  BY <1>1, PendingIs
<1>3. position < 2 /\ Width = 2
  BY <1>1 DEF OrderKnown, Width
<1>4. line_start = 0
  BY <1>1, <1>2, <1>3 DEF InStream
<1> DEFINE before == { j \in Starts : j < line_start }
<1>5. before = {}
  BY <1>1, <1>4, StartsAreFinite
<1>6. line_number = 1
  <2>1. line_number = Cardinality(before) + 1
    BY <1>1 DEF InStream
  <2> HIDE DEF before
  <2> QED BY <1>5, <2>1, FS_EmptySet
<1>7. yielded = << >>
  BY <1>1, <1>6 DEF LinesYielded
<1> QED BY <1>1, <1>2, <1>3, <1>4, <1>6, <1>7

\* A read appends what follows in the stream, which tells the byte order as soon as
\* there are two bytes of it.
LEMMA ReadDecodes ==
    ASSUME DecodeInv, BoundInv', NEW n \in 1 .. READ_SIZE, Read(n)
    PROVE  DecodeInv'
<1> DEFINE s == pending \o SubSeq(stream, position + 1, position + n)
           order == ByteOrder(s)
<1>1. /\ pc = "read" /\ position + n <= Len(stream) /\ position' = position + n
      /\ UNCHANGED <<encoding, stream>> /\ encoding # "unsupported"
      /\ n \in Nat \ {0}
  BY DecoderAssumptions DEF Read, DecodeInv
<1>2. /\ Types /\ error = NONE /\ InStream /\ OrderKnown /\ Searched /\ LinesYielded
      /\ stream \in Seq(Byte)
  BY <1>1 DEF DecodeInv, BoundInv, Types, TypeOK
<1>3. /\ position \in Nat /\ line_start \in Nat /\ Len(stream) \in Nat /\ position + n \in Nat
      /\ line_start <= position /\ position <= position + n /\ line_start <= position + n
      /\ pending = Slice(stream, line_start, position)
  BY <1>1, <1>2, PendingIs DEF InStream
<1>4. s = Slice(stream, line_start, position + n)
  <2>1. Slice(stream, line_start, position) \o Slice(stream, position, position + n)
          = Slice(stream, line_start, position + n)
    BY <1>1, <1>2, <1>3, SlicesJoin
  <2> QED BY <1>3, <2>1 DEF Slice
<1>5. /\ order = "missing" => /\ pc' = "done" /\ error' = Failure("mark", 0, line_number)
                              /\ byte_order' = byte_order /\ yielded' = yielded
      /\ order # "missing" =>
           /\ pending' = s /\ byte_order' = order
           /\ pc' = IF UTF16 /\ order = NONE THEN "read" ELSE "split"
           /\ UNCHANGED <<line_start, line_number, search_from, yielded, error>>
  BY DEF Read, Raise, lineVars
<1> HIDE DEF s, order
<1>6. Len(s) = position + n - line_start /\ s \in Seq(Byte)
  BY <1>1, <1>2, <1>3, <1>4, SliceBytes
<1>7. encoding # "utf-16" \/ byte_order # NONE \/ Len(s) < 2 => order = byte_order
  BY DEF order, ByteOrder
<1>8. Order' = Order
  <2>1. CASE encoding = "utf-16"
    BY <1>1, <2>1 DEF Order
  <2>2. CASE encoding # "utf-16"
    <3>1. byte_order' = byte_order
      BY <1>5, <1>7, <2>2
    <3> QED BY <1>1, <2>2, <3>1 DEF Order
  <2> QED BY <2>1, <2>2
<1>9. /\ Width' = Width /\ UTF16' = UTF16 /\ Breaks' = Breaks /\ Starts' = Starts
      /\ Marked' = Marked
  BY <1>1, <1>8, SameStream
<1>10. ASSUME encoding = "utf-16", byte_order = NONE, ~(Len(s) < 2)
       PROVE  /\ order = IF IsPrefix(<<255, 254>>, stream) THEN "little"
                         ELSE IF IsPrefix(<<254, 255>>, stream) THEN "big" ELSE "missing"
              /\ Len(stream) >= 2 /\ Len(stream) \in Nat
              /\ line_number = 1 /\ yielded = << >>
  <2>1. line_start = 0 /\ line_number = 1 /\ yielded = << >>
    BY <1>1, <1>10, NotYetKnown DEF UTF16
  <2>2. s = Slice(stream, 0, position + n) /\ position + n >= 2
    BY <1>3, <1>4, <1>6, <1>10, <2>1
  <2>3. \A m \in {<<255, 254>>, <<254, 255>>} : m \in Seq(Byte) /\ Len(m) = 2
    <3>1. 254 \in Byte /\ 255 \in Byte
      BY DEF Byte
    <3>2. <<255, 254>> \in Seq(Byte) /\ <<254, 255>> \in Seq(Byte)
      BY <3>1
    <3>3. Len(<<255, 254>>) = 2 /\ Len(<<254, 255>>) = 2
      OBVIOUS
    <3>4. ASSUME NEW m, m = <<255, 254>> \/ m = <<254, 255>> PROVE m \in Seq(Byte) /\ Len(m) = 2
      <4>1. CASE m = <<255, 254>>
        BY <3>2, <3>3, <4>1
      <4>2. CASE m = <<254, 255>>
        BY <3>2, <3>3, <4>2
      <4> QED BY <3>4, <4>1, <4>2
    <3> QED BY <3>4
  <2>4. \A m \in {<<255, 254>>, <<254, 255>>} : IsPrefix(m, s) <=> IsPrefix(m, stream)
    <3> SUFFICES ASSUME NEW m \in {<<255, 254>>, <<254, 255>>}
                 PROVE  IsPrefix(m, s) <=> IsPrefix(m, stream)
      OBVIOUS
    <3>1. m \in Seq(Byte) /\ Len(m) <= position + n
      BY <1>3, <2>2, <2>3
    <3> QED BY <1>1, <1>2, <1>3, <2>2, <3>1, PrefixOf
  <2>5. order = IF IsPrefix(<<255, 254>>, s) THEN "little"
                ELSE IF IsPrefix(<<254, 255>>, s) THEN "big" ELSE "missing"
    BY <1>10 DEF order, ByteOrder
  <2> QED BY <1>1, <1>3, <2>1, <2>2, <2>4, <2>5
<1>11. CASE order = "missing"
  <2>1. encoding = "utf-16" /\ byte_order = NONE /\ ~(Len(s) < 2)
    BY <1>2, <1>7, <1>11, DecoderAssumptions DEF Types, TypeOK
  <2>2. /\ ~Marked /\ line_number = 1 /\ yielded = << >>
    BY <1>10, <1>11, <2>1 DEF Marked
  <2>3. Decoded(yielded', error')
    BY <1>5, <1>11, <2>2 DEF Decoded
  <2> QED BY <1>1, <1>5, <1>8, <1>11, <2>3, DoneDecodes
<1>12. CASE order # "missing"
  <2>1. /\ pending' = s /\ byte_order' = order
        /\ pc' = IF UTF16 /\ order = NONE THEN "read" ELSE "split"
        /\ UNCHANGED <<line_start, line_number, search_from, yielded, error>>
    BY <1>5, <1>12
  <2>2. LinesYielded'
    BY <1>1, <1>2, <1>8, <2>1, SameLines
  <2>3. InStream'
    <3>1. position' \in 0 .. Len(stream') /\ line_start' \in 0 .. position'
      BY <1>1, <1>3, <2>1
    <3>2. pending' = Slice(stream', line_start', position')
      BY <1>1, <1>4, <2>1
    <3>3. /\ line_start' % Width' = 0 /\ (line_start' = 0 \/ line_start' - Width' \in Breaks')
          /\ line_number' = Cardinality({ j \in Starts' : j < line_start' }) + 1
      BY <1>2, <1>9, <2>1 DEF InStream
    <3> QED BY <3>1, <3>2, <3>3, Zenon DEF InStream, Slice
  <2>4. OrderKnown'
    <3>1. ~UTF16 => order = NONE
      BY <1>2, <1>7 DEF UTF16, OrderKnown
    <3>2. CASE encoding # "utf-16"
      BY <1>1, <1>9, <2>1, <3>1, <3>2 DEF OrderKnown
    <3>3. CASE encoding = "utf-16" /\ byte_order # NONE
      BY <1>1, <1>2, <1>7, <1>8, <1>9, <2>1, <3>3 DEF OrderKnown, UTF16
    <3>4. CASE encoding = "utf-16" /\ byte_order = NONE /\ Len(s) < 2
      <4>1. order = NONE /\ line_start = 0 /\ position' < 2
        <5>1. order = NONE /\ line_start = 0
          BY <1>1, <1>7, <3>4, NotYetKnown DEF UTF16
        <5> QED BY <1>1, <1>3, <1>6, <3>4, <5>1
      <4>2. UTF16 /\ pc' = "read"
        BY <2>1, <3>4, <4>1 DEF UTF16
      <4> QED BY <1>1, <1>9, <2>1, <4>1, <4>2 DEF OrderKnown
    <3>5. CASE encoding = "utf-16" /\ byte_order = NONE /\ ~(Len(s) < 2)
      <4>1. /\ order = IF IsPrefix(<<255, 254>>, stream) THEN "little" ELSE "big"
            /\ IsPrefix(<<255, 254>>, stream) \/ IsPrefix(<<254, 255>>, stream)
        BY <1>10, <1>12, <3>5
      <4>2. order = Order /\ order # NONE
        BY <3>5, <4>1, DecoderAssumptions DEF Order
      <4>3. Marked
        BY <4>1 DEF Marked
      <4> QED BY <1>1, <1>8, <1>9, <2>1, <3>5, <4>2, <4>3 DEF OrderKnown, UTF16
    <3> QED BY <3>2, <3>3, <3>4, <3>5
  <2>5. Searched'
    <3>1. \A j \in Breaks : j >= line_start => j >= line_start + search_from
      BY <1>2 DEF Searched
    <3>2. ASSUME pc' \in {"open", "read"}, NEW j \in Breaks, j >= line_start
          PROVE  j + Width > position'
      <4>1. UTF16 /\ order = NONE
        BY <2>1, <3>2
      <4>2. encoding = "utf-16" /\ byte_order = NONE
        <5>1. encoding = "utf-16"
          BY <1>2, <1>7, <4>1 DEF Types
        <5> QED BY <1>2, <1>7, <1>10, <4>1, <5>1, DecoderAssumptions DEF Types, TypeOK
      <4>3. Len(s) < 2 /\ line_start = 0
        <5>1. line_start = 0
          BY <1>1, <4>1, <4>2, NotYetKnown
        <5>2. Len(s) < 2
          BY <1>10, <4>1, <4>2, <1>12, DecoderAssumptions
        <5> QED BY <5>1, <5>2
      <4>4. j \in Nat /\ Width = 2
        BY <1>2, <4>1, BreakIs DEF Width
      <4> QED BY <1>1, <1>3, <1>6, <4>3, <4>4
    <3> QED BY <1>9, <2>1, <3>1, <3>2 DEF Searched
  <2>6. pc' # "done" /\ encoding' # "unsupported" /\ error' = NONE
    BY <1>1, <1>2, <2>1
  <2> QED BY <2>2, <2>3, <2>4, <2>5, <2>6 DEF DecodeInv
<1> QED BY <1>11, <1>12

\* A failure is not taken for none.
LEMMA FailureIs ==
    ASSUME NEW line \in Int
    PROVE  \A m \in Int : /\ Failure("limit", m, line) # NONE
                         /\ Failure("decode", m, line) # NONE
<1>1. NONE \notin Failures
  BY DecoderAssumptions
<1>2. \A m \in Int : Failure("limit", m, line) \in Failures
  BY DEF Failure, Failures
<1>3. \A m \in Int : Failure("decode", m, line) \in Failures
  BY DEF Failure, Failures
<1> QED BY <1>1, <1>2, <1>3, Zenon

\* The verdict is an error, and there is one for every line that is refused.
LEMMA VerdictOnLine ==
    ASSUME Types, NEW content \in Seq(Byte), Verdict(content) = NONE,
           Bad(Unmarked(content, line_number), byte_order)
             = Bad(Unmarked(content, line_number), Order),
           LinesOfStream[line_number] = content
    PROVE  ~Refused(line_number)
<1> DEFINE text == Unmarked(content, line_number)
           bad == Bad(text, byte_order)
<1>1. text \in Seq(Byte)
  <2>1. Len(BOM) + 1 \in Nat \ {0}
    BY DEF BOM
  <2>2. SubSeq(content, Len(BOM) + 1, Len(content)) \in Seq(Byte)
    BY <2>1, RestIsShorter
  <2> QED BY <2>2 DEF Unmarked
<1>2. line_start \in Int /\ line_number \in Int /\ max_line_bytes \in Int
  BY DecoderAssumptions DEF Types, TypeOK
<1>3. \A m \in Int : /\ Failure("limit", m, line_number) # NONE
                    /\ Failure("decode", m, line_number) # NONE
  BY <1>2, FailureIs
<1>4. ~(Len(content) > max_line_bytes)
  <2>1. line_start + max_line_bytes \in Int
    BY <1>2
  <2>2. TooLong # NONE
    BY <1>3, <2>1 DEF TooLong
  <2> QED BY <2>2, VerdictIs
<1>5. bad = {}
  <2> SUFFICES ASSUME bad # {} PROVE FALSE
    OBVIOUS
  <2>1. bad \in SUBSET Nat
    <3> HIDE DEF text
    <3>1. bad \subseteq 1 .. Len(text) /\ Len(text) \in Nat
      BY <1>1, BadIsPlaced, LenProperties
    <3> QED BY <3>1
  <2>2. Min(bad) \in Nat
    <3> HIDE DEF bad
    <3> QED BY <2>1, LeastOf
  <2>3. line_start + Min(bad) - 1 \in Int
    <3> HIDE DEF bad
    <3> DEFINE m == Min(bad)
    <3>1. m \in Nat
      BY <2>2
    <3> HIDE DEF m
    <3>2. line_start + (m - 1) \in Int
      BY <1>2, <3>1
    <3> QED BY <3>2 DEF m
  <2>4. Verdict(content) = Failure("decode", line_start + Min(bad) - 1, line_number)
    BY <1>4, VerdictIs
  <2> HIDE DEF bad
  <2> QED BY <1>3, <2>3, <2>4
<1> QED BY <1>4, <1>5 DEF Refused

\* Once there is something to search, the byte order is known.
LEMMA SplitOrder ==
    ASSUME DecodeInv, pc = "split"
    PROVE  /\ byte_order = Order /\ Marked /\ encoding # "unsupported" /\ Types
           /\ error = NONE /\ InStream /\ OrderKnown /\ Searched /\ LinesYielded
           /\ stream \in Seq(Byte) /\ line_number \in Nat \ {0}
<1>1. /\ encoding # "unsupported" /\ Types /\ stream \in Seq(Byte) /\ line_number \in Nat \ {0}
      /\ error = NONE /\ InStream /\ OrderKnown /\ Searched /\ LinesYielded
  BY DEF DecodeInv, BoundInv, Types, TypeOK
<1>2. byte_order # NONE \/ ~UTF16
  BY <1>1 DEF Types, OrderKnown
<1>3. byte_order = Order
  BY <1>1, <1>2, OrderUsed
<1>4. Marked
  BY <1>1, <1>2 DEF OrderKnown, Marked, UTF16
<1> QED BY <1>1, <1>3, <1>4

\* The lines that have been yielded, and this one.
LEMMA OneMoreLine ==
    ASSUME LinesYielded, line_number \in Nat \ {0}
    PROVE  Append(yielded, Text(LinesOfStream[line_number], line_number, Order))
             = [k \in 1 .. line_number |-> Text(LinesOfStream[k], k, Order)]
<1> DEFINE f == [k \in 1 .. line_number |-> Text(LinesOfStream[k], k, Order)]
           n == line_number - 1
<1>1. n \in Nat /\ n + 1 = line_number
  OBVIOUS
<1>2. f = [k \in 1 .. n + 1 |-> f[k]] /\ f[n + 1] = Text(LinesOfStream[line_number], line_number, Order)
  BY <1>1
<1>3. yielded = [k \in 1 .. n |-> f[k]]
  <2>1. \A k \in 1 .. n : f[k] = Text(LinesOfStream[k], k, Order)
    BY <1>1
  <2>2. yielded = [k \in 1 .. n |-> Text(LinesOfStream[k], k, Order)]
    BY DEF LinesYielded
  <2> HIDE DEF f, n
  <2> QED BY <2>1, <2>2
<1> HIDE DEF f, n
<1>4. Append([k \in 1 .. n |-> f[k]], f[n + 1]) = f
  BY <1>1, <1>2, OneMore
<1>5. Append(yielded, Text(LinesOfStream[line_number], line_number, Order)) = f
  BY <1>2, <1>3, <1>4
<1> QED BY <1>5 DEF f

\* One more line has been yielded.
LEMMA MoreLines ==
    ASSUME UNCHANGED <<encoding, stream>>, Order' = Order, line_number \in Nat \ {0},
           line_number' = line_number + 1, LinesYielded, ~Refused(line_number),
           yielded' = Append(yielded, Text(LinesOfStream[line_number], line_number, Order)),
           \A i \in 1 .. line_start' : i \notin Bad(stream, Order)
    PROVE  LinesYielded'
<1>1. LinesOfStream' = LinesOfStream /\ (\A k : Refused(k)' = Refused(k))
      /\ \A s, k, o : Text(s, k, o)' = Text(s, k, o)
  BY SameStream
<1>2. Bad(stream, Order)' = Bad(stream, Order)
  BY DEF Bad
<1>3. line_number' - 1 = line_number
  OBVIOUS
<1>4. yielded' = [k \in 1 .. line_number |-> Text(LinesOfStream[k], k, Order)]
  BY OneMoreLine
<1>5. \A k \in 1 .. line_number : ~Refused(k)
  <2> SUFFICES ASSUME NEW k \in 1 .. line_number PROVE ~Refused(k)
    OBVIOUS
  <2>1. k = line_number \/ k \in 1 .. line_number - 1
    OBVIOUS
  <2> QED BY <2>1 DEF LinesYielded
<1> QED BY <1>1, <1>2, <1>3, <1>4, <1>5, Zenon DEF LinesYielded

\* The line that ends at the first newline is yielded, or refused for good.
LEMMA TakeDecodes == ASSUME DecodeInv, BoundInv', TakeLine PROVE DecodeInv'
<1>1. /\ pc = "split" /\ UNCHANGED <<encoding, stream, position, byte_order>>
  BY DEF TakeLine
<1>2. /\ byte_order = Order /\ Marked /\ encoding # "unsupported" /\ Types
      /\ error = NONE /\ InStream /\ OrderKnown /\ Searched /\ LinesYielded
      /\ stream \in Seq(Byte) /\ line_number \in Nat \ {0}
  BY <1>1, SplitOrder
<1>3. PICK at \in Newlines :
        /\ \A other \in Newlines : at <= other
        /\ LET content == WithoutCR(SubSeq(pending, 1, at))
           IN  IF Verdict(content) # NONE
               THEN Raise(Verdict(content))
               ELSE /\ Yield(content)
                    /\ pending'     = SubSeq(pending, at + Width + 1, Len(pending))
                    /\ line_start'  = line_start + at + Width
                    /\ line_number' = line_number + 1
                    /\ search_from' = 0
                    /\ UNCHANGED <<pc, error>>
  BY DEF TakeLine
<1> DEFINE b == line_start + at
           content == WithoutCR(SubSeq(pending, 1, at))
<1>4. /\ at \in Nat /\ b \in Breaks /\ b + Width <= position
      /\ \A j \in Breaks : j >= line_start => b <= j
      /\ SubSeq(pending, 1, at) = Slice(stream, line_start, b)
  BY <1>2, <1>3, FirstNewline
<1>5. /\ line_start \in Nat /\ position \in Nat /\ Len(stream) \in Nat /\ position <= Len(stream)
      /\ pending = Slice(stream, line_start, position) /\ Width \in {1, 2}
      /\ line_start <= position
  BY <1>2, PendingIs, WidthIs DEF InStream
<1>6. /\ b \in Nat /\ line_start <= b /\ b <= Len(stream) /\ line_start < Len(stream)
      /\ b + Width \in 0 .. position /\ line_start + at + Width = b + Width
  BY <1>4, <1>5
<1>7. content = WithoutCR(Slice(stream, line_start, b))
  BY <1>4
<1> HIDE DEF content, b
<1>8. PICK e \in Nat : /\ line_start <= e /\ e <= b
                       /\ WithoutCR(Slice(stream, line_start, b)) = Slice(stream, line_start, e)
                       /\ \/ e = b
                          \/ e = b - Width /\ Slice(stream, e, e + Width) = Unit(CR, Order)
  BY <1>2, <1>5, <1>6, ContentEnds
<1>9. /\ content = Slice(stream, line_start, e) /\ e <= Len(stream) /\ EndsLine(e)
      /\ content \in Seq(Byte)
  <2>1. e <= Len(stream)
    BY <1>5, <1>6, <1>8
  <2>2. Slice(stream, line_start, e) \in Seq(Byte)
    BY <1>2, <1>5, <1>8, <2>1, SliceBytes
  <2> QED BY <1>2, <1>4, <1>7, <1>8, <2>1, <2>2, EndOfLine
<1>10. LinesOfStream[line_number] = content
  <2>1. LineAt(line_start) = WithoutCR(Slice(stream, line_start, b))
    BY <1>2, <1>4, <1>5, <1>6, LineAtBreak
  <2> QED BY <1>2, <1>6, <1>7, <2>1, ThisLine
<1>11. Order' = Order
  BY <1>1 DEF Order
<1>12. CASE Verdict(content) # NONE
  <2>1. pc' = "done" /\ error' = Verdict(content) /\ yielded' = yielded
    BY <1>3, <1>12 DEF Raise, lineVars, content
  <2>2. BoundInv
    BY DEF DecodeInv
  <2>3. Decoded(yielded, Verdict(content))
    BY <1>2, <1>6, <1>8, <1>9, <1>10, <1>12, <2>2, RefusalDecodes
  <2>4. Decoded(yielded', error')
    BY <2>1, <2>3
  <2> QED BY <1>1, <1>11, <2>1, <2>4, DoneDecodes
<1>13. CASE Verdict(content) = NONE
  <2>1. /\ yielded' = Append(yielded, Text(content, line_number, byte_order))
        /\ pending' = SubSeq(pending, at + Width + 1, Len(pending))
        /\ line_start' = line_start + at + Width /\ line_number' = line_number + 1
        /\ search_from' = 0 /\ pc' = pc /\ error' = error
    BY <1>3, <1>13 DEF Yield, content
  <2>2. ~Refused(line_number)
    BY <1>2, <1>9, <1>10, <1>13, VerdictOnLine
  <2>3. /\ \A i \in 1 .. b + Width : i \notin Bad(stream, Order)
        /\ Cardinality({ j \in Starts : j < b + Width }) = line_number
    BY <1>2, <1>4, <1>6, <1>8, <1>9, <1>10, <2>2, NextLine
  <2>4. line_start' = b + Width
    BY <1>6, <2>1
  <2>5. LinesYielded'
    <3>1. yielded' = Append(yielded, Text(LinesOfStream[line_number], line_number, Order))
      BY <1>2, <1>10, <2>1
    <3>2. \A i \in 1 .. line_start' : i \notin Bad(stream, Order)
      BY <2>3, <2>4
    <3> QED BY <1>1, <1>2, <1>11, <2>1, <2>2, <3>1, <3>2, MoreLines
  <2>6. /\ Width' = Width /\ UTF16' = UTF16 /\ Breaks' = Breaks /\ Starts' = Starts
        /\ Marked' = Marked
    BY <1>1, <1>11, SameStream
  <2>7. pending' = Slice(stream, line_start', position)
    <3> DEFINE from == at + Width
               to == position - line_start
    <3>1. /\ from \in Nat /\ to \in Nat /\ from <= to /\ to <= position - line_start
          /\ line_start + from = line_start' /\ line_start + to = position
      BY <1>4, <1>5, <1>6, <2>1, <2>4 DEF b
    <3>2. Len(pending) = to
      BY <1>2, PendingIs
    <3>3. pending' = Slice(pending, from, to)
      BY <2>1, <3>2 DEF Slice
    <3> HIDE DEF from, to
    <3>4. Slice(pending, from, to) = Slice(stream, line_start + from, line_start + to)
      BY <1>2, <1>5, <3>1, SliceOfSlice
    <3> QED BY <3>1, <3>3, <3>4
  <2>8. InStream'
    <3>1. position' \in 0 .. Len(stream') /\ line_start' \in 0 .. position'
      BY <1>1, <1>5, <1>6, <2>4
    <3>2. pending' = Slice(stream', line_start', position')
      BY <1>1, <2>7
    <3>3. line_start' % Width' = 0
      <4>1. b % Width = 0 /\ 0 \in Nat /\ 0 % Width = 0
        BY <1>2, <1>4, <1>5, BreakIs
      <4>2. (b + Width) % Width = 0
        BY <1>6, <4>1, UnitsApart
      <4> QED BY <2>4, <2>6, <4>2
    <3>4. line_start' - Width' \in Breaks'
      <4>1. line_start' - Width = b
        BY <1>5, <1>6, <2>4
      <4> QED BY <1>4, <2>6, <4>1
    <3>5. line_number' = Cardinality({ j \in Starts' : j < line_start' }) + 1
      BY <2>1, <2>3, <2>4, <2>6
    <3> QED BY <3>1, <3>2, <3>3, <3>4, <3>5, Zenon DEF InStream, Slice
  <2>9. OrderKnown'
    BY <1>1, <1>2, <1>11, <2>1, <2>6 DEF OrderKnown
  <2>10. Searched'
    <3>1. \A j \in Breaks : j >= line_start' => j >= line_start' + 0
      BY <1>2, <1>5, <1>6, <2>4, BreakIs
    <3> QED BY <1>1, <2>1, <2>6, <3>1 DEF Searched
  <2> QED BY <1>1, <1>2, <2>1, <2>5, <2>8, <2>9, <2>10 DEF DecodeInv
<1> QED BY <1>12, <1>13

\* A line ends at the next newline or with the stream.
LEMMA LineFrom ==
    ASSUME stream \in Seq(Byte), byte_order = Order, NEW i \in Nat
    PROVE  \/ (\A j \in Breaks : ~(j >= i)) /\ LineAt(i) = Slice(stream, i, Len(stream))
           \/ \E b \in Breaks : /\ i <= b /\ \A j \in Breaks : j >= i => b <= j
                                /\ LineAt(i) = WithoutCR(Slice(stream, i, b))
<1>1. CASE \A j \in Breaks : ~(j >= i)
  BY <1>1, LineAtEnd
<1>2. CASE \E j \in Breaks : j >= i
  <2> DEFINE ends == { j \in Breaks : j >= i }
             b == Min(ends)
  <2>1. ends \in SUBSET Nat /\ ends # {}
    BY <1>2, BreakIs
  <2>2. b \in ends /\ \A j \in ends : b <= j
    <3> HIDE DEF ends
    <3> QED BY <2>1, LeastOf
  <2>3. b \in Breaks /\ b \in Nat /\ i <= b /\ \A j \in Breaks : j >= i => b <= j
    <3> HIDE DEF b
    <3>1. b \in Nat
      BY <2>1, <2>2
    <3> QED BY <2>2, <3>1
  <2> HIDE DEF b
  <2>4. LineAt(i) = WithoutCR(Slice(stream, i, b))
    BY <2>3, LineAtBreak
  <2> QED BY <2>3, <2>4
<1> QED BY <1>1, <1>2

\* The whole units that are kept are no more than the line has.
LEMMA KeptIsInLine ==
    ASSUME Types, InStream, byte_order = Order, NEW w \in Nat, w % Width = 0,
           line_start + w <= Len(stream), \A j \in Breaks : j >= line_start => j >= line_start + w
    PROVE  LET content == WithoutCR(Slice(stream, line_start, line_start + w))
           IN  /\ Len(content) \in Nat /\ Len(content) <= w
               /\ Len(LineAt(line_start)) \in Nat /\ Len(content) <= Len(LineAt(line_start))
<1> DEFINE d == line_start + w
           content == WithoutCR(Slice(stream, line_start, d))
           line == LineAt(line_start)
<1>1. /\ stream \in Seq(Byte) /\ Len(stream) \in Nat /\ line_start \in Nat /\ line_start % Width = 0
      /\ d \in Nat /\ line_start <= d /\ d <= Len(stream) /\ Width \in {1, 2}
      /\ line_start <= Len(stream)
  BY PendingIs, WidthIs DEF Types, TypeOK, InStream
<1>2. d % Width = 0
  BY <1>1, UnitsApart
<1>3. \A j \in Breaks : j >= line_start => j >= d
  OBVIOUS
<1>4. d - line_start = w
  BY <1>1
<1> HIDE DEF d
<1>5. PICK e \in Nat : line_start <= e /\ e <= d /\ content = Slice(stream, line_start, e)
  BY <1>1, ContentEnds
<1>6. Len(content) = e - line_start
  <2>1. e <= Len(stream)
    BY <1>1, <1>5
  <2> QED BY <1>1, <1>5, <2>1, SliceBytes
<1> HIDE DEF content
<1>7. Len(content) \in Nat /\ Len(content) <= w
  BY <1>1, <1>4, <1>5, <1>6
<1>8. CASE line = Slice(stream, line_start, Len(stream))
  <2>1. Len(line) = Len(stream) - line_start
    <3>1. Len(stream) <= Len(stream)
      BY <1>1
    <3>2. Len(Slice(stream, line_start, Len(stream))) = Len(stream) - line_start
      BY <1>1, <3>1, SliceBytes
    <3> QED BY <1>8, <3>2
  <2> QED BY <1>1, <1>5, <1>6, <1>7, <2>1 DEF d, content
<1>9. ASSUME NEW b \in Breaks, line_start <= b, line = WithoutCR(Slice(stream, line_start, b))
      PROVE  Len(line) \in Nat /\ Len(content) <= Len(line)
  <2>1. b \in Nat /\ b % Width = 0 /\ b <= Len(stream)
    BY <1>1, BreakIs
  <2>2. d <= b
    BY <1>1, <1>3, <1>9, <2>1
  <2>3. PICK f \in Nat : /\ line_start <= f /\ f <= b /\ line = Slice(stream, line_start, f)
                         /\ f = b \/ f = b - Width
    BY <1>1, <1>9, <2>1, ContentEnds
  <2>4. Len(line) = f - line_start
    <3>1. f <= Len(stream)
      BY <1>1, <2>1, <2>3
    <3>2. Len(Slice(stream, line_start, f)) = f - line_start
      BY <1>1, <2>3, <3>1, SliceBytes
    <3> QED BY <2>3, <3>2
  <2> HIDE DEF line
  <2>5. CASE d = b
    <3>1. line = content
      BY <1>9, <2>5 DEF content
    <3> QED BY <1>6, <1>7, <3>1
  <2>6. CASE d < b
    <3>1. d + Width <= b
      BY <1>1, <1>2, <2>1, <2>6, UnitsApart
    <3>2. d <= f
      BY <1>1, <2>1, <2>3, <3>1
    <3> QED BY <1>1, <1>5, <1>6, <2>3, <2>4, <3>2
  <2> QED BY <1>1, <2>1, <2>2, <2>5, <2>6
<1>10. Len(line) \in Nat /\ Len(content) <= Len(line)
  <2>1. CASE line = Slice(stream, line_start, Len(stream))
    BY <1>8, <2>1 DEF d, content
  <2>2. CASE \E b \in Breaks : line_start <= b /\ line = WithoutCR(Slice(stream, line_start, b))
    BY <1>9, <2>2
  <2> QED BY <1>1, <2>1, <2>2, LineFrom
<1> QED BY <1>7, <1>10 DEF d, content

\* What has no newline yet is kept for the next read, or is too long already.
LEMMA KeepDecodes == ASSUME DecodeInv, BoundInv', KeepRest PROVE DecodeInv'
<1> DEFINE w == WholeUnits
           content == WithoutCR(SubSeq(pending, 1, w))
<1>1. /\ pc = "split" /\ UNCHANGED <<encoding, stream, position, byte_order>> /\ Newlines = {}
      /\ UNCHANGED <<pending, line_start, line_number, yielded>>
      /\ \/ Len(content) > max_line_bytes /\ pc' = "done" /\ error' = TooLong
         \/ pc' = "read" /\ search_from' = w /\ error' = error
  BY DEF KeepRest, Keep, Raise, lineVars
<1>2. /\ byte_order = Order /\ Marked /\ encoding # "unsupported" /\ Types
      /\ error = NONE /\ InStream /\ OrderKnown /\ Searched /\ LinesYielded
      /\ stream \in Seq(Byte) /\ line_number \in Nat \ {0}
  BY <1>1, SplitOrder
<1>3. /\ line_start \in Nat /\ position \in Nat /\ Len(stream) \in Nat /\ position <= Len(stream)
      /\ pending = Slice(stream, line_start, position) /\ Width \in {1, 2}
      /\ line_start <= position /\ Len(pending) = position - line_start
      /\ search_from \in Nat
  BY <1>2, PendingIs, WidthIs DEF InStream, Types, TypeOK
<1>4. w \in Nat /\ w <= Len(pending) /\ Len(pending) < w + Width /\ w % Width = 0
  BY <1>3, WholeUnitsAre
<1> HIDE DEF w
<1>5. Order' = Order
  BY <1>1 DEF Order
<1>6. ASSUME NEW j \in Breaks, j >= line_start PROVE j + Width > position
  <2>1. j \in Nat
    BY <1>2, BreakIs
  <2>2. j - line_start \in Nat /\ line_start + (j - line_start) = j /\ j - line_start >= search_from
    BY <1>2, <1>3, <1>6, <2>1 DEF Searched
  <2>3. j - line_start \notin NewlinesIn(pending, search_from, byte_order)
    BY <1>1 DEF Newlines
  <2>4. ~(j + Width <= position)
    BY <1>2, <1>3, <2>2, <2>3, PendingNewlines
  <2> QED BY <1>3, <2>1, <2>4
<1>7. ASSUME NEW j \in Breaks, j >= line_start PROVE j >= line_start + w
  <2>1. j \in Nat /\ j % Width = 0 /\ j + Width > position
    BY <1>2, <1>6, <1>7, BreakIs
  <2>2. line_start + w \in Nat /\ (line_start + w) % Width = 0
    <3>1. line_start % Width = 0
      BY <1>2 DEF InStream
    <3> QED BY <1>3, <1>4, <3>1, UnitsApart
  <2>3. line_start + w < j + Width
    BY <1>3, <1>4, <2>1
  <2>4. line_start + w <= j
    BY <2>1, <2>2, <2>3, UnitsApart
  <2> QED BY <1>3, <1>4, <2>1, <2>4
<1>8. CASE Len(content) > max_line_bytes /\ pc' = "done" /\ error' = TooLong
  <2>1. SubSeq(pending, 1, w) = Slice(stream, line_start, line_start + w)
    <3>1. /\ 0 \in Nat /\ 0 <= w /\ w <= position - line_start
          /\ line_start + 0 = line_start /\ 0 + 1 = 1
      BY <1>3, <1>4
    <3>2. Slice(pending, 0, w) = Slice(stream, line_start + 0, line_start + w)
      BY <1>2, <1>3, <1>4, <3>1, SliceOfSlice
    <3>3. Slice(pending, 0, w) = SubSeq(pending, 1, w)
      BY <3>1 DEF Slice
    <3> QED BY <3>1, <3>2, <3>3
  <2>2. content = WithoutCR(Slice(stream, line_start, line_start + w))
    BY <2>1
  <2> HIDE DEF content
  <2>3. line_start + w <= Len(stream)
    BY <1>3, <1>4
  <2>4. /\ Len(content) \in Nat /\ Len(content) <= w
        /\ Len(LineAt(line_start)) \in Nat /\ Len(content) <= Len(LineAt(line_start))
    BY <1>2, <1>4, <1>7, <2>2, <2>3, KeptIsInLine
  <2>5. max_line_bytes \in Nat
    BY DecoderAssumptions
  <2>6. line_start < Len(stream)
    BY <1>3, <1>4, <1>8, <2>3, <2>4, <2>5
  <2>7. Len(LinesOfStream[line_number]) > max_line_bytes
    <3>1. LinesOfStream[line_number] = LineAt(line_start)
      BY <1>2, <2>6, ThisLine
    <3>2. Len(LineAt(line_start)) > max_line_bytes
      BY <1>8, <2>4, <2>5
    <3> QED BY <3>1, <3>2
  <2>8. /\ TooLong # NONE /\ TooLong.line = line_number /\ TooLong.kind = "limit"
    <3>1. line_start + max_line_bytes \in Int
      BY <1>3, <2>5
    <3>2. TooLong # NONE
      BY <1>2, <3>1, FailureIs DEF TooLong
    <3> QED BY <3>2 DEF TooLong, Failure
  <2>9. Refused(line_number)
    BY <2>7 DEF Refused
  <2>10. PICK err : err = TooLong
    OBVIOUS
  <2>11. Decoded(yielded, err)
    BY <1>2, <2>6, <2>7, <2>8, <2>9, <2>10, RefusedHere
  <2>12. Decoded(yielded', error')
    BY <1>1, <1>8, <2>10, <2>11
  <2> QED BY <1>1, <1>5, <1>8, <2>12, DoneDecodes
<1>9. CASE pc' = "read" /\ search_from' = w /\ error' = error
  <2>1. LinesYielded'
    BY <1>1, <1>2, <1>5, SameLines
  <2>2. /\ Width' = Width /\ UTF16' = UTF16 /\ Breaks' = Breaks /\ Starts' = Starts
        /\ Marked' = Marked
    BY <1>1, <1>5, SameStream
  <2>3. InStream'
    BY <1>1, <1>2, <2>2, Zenon DEF InStream, Slice
  <2>4. OrderKnown'
    BY <1>1, <1>2, <1>5, <1>9, <2>2 DEF OrderKnown
  <2>5. Searched'
    BY <1>1, <1>6, <1>7, <1>9, <2>2 DEF Searched
  <2> QED BY <1>1, <1>2, <1>9, <2>1, <2>3, <2>4, <2>5 DEF DecodeInv
<1> QED BY <1>1, <1>8, <1>9

\* With less than two bytes the byte order makes no difference to UTF-16.
LEMMA HalfUnit ==
    ASSUME NEW s \in Seq(Byte), Len(s) = 1, NEW o
    PROVE  BadUTF16(s, o) = {1}
<1>1. \A i : ~Whole(s, i)
  BY DEF Whole
<1>2. \A i \in 1 .. Len(s) : i \in BadUTF16(s, o) <=> i % 2 = 1 /\ i = Len(s)
  BY <1>1, HalfOrAlone DEF Lead, Trail
<1>3. 1 \in BadUTF16(s, o)
  BY <1>2
<1>4. BadUTF16(s, o) \subseteq 1 .. Len(s)
  BY LenProperties DEF BadUTF16
<1> QED BY <1>3, <1>4

\* What has been yielded when every line has been.
LEMMA AllDecoded ==
    ASSUME Marked, stream \in Seq(Byte), NEW y,
           y = [k \in 1 .. Cardinality(Starts) |-> Text(LinesOfStream[k], k, Order)],
           \A k \in 1 .. Cardinality(Starts) : ~Refused(k)
    PROVE  Decoded(y, NONE)
<1>1. Cardinality(Starts) \in Nat
  BY StartsAreFinite
<1>2. DOMAIN LinesOfStream = 1 .. Cardinality(Starts) /\ Len(LinesOfStream) = Cardinality(Starts)
  BY <1>1 DEF LinesOfStream
<1>3. { k \in DOMAIN LinesOfStream : Refused(k) } = {}
  BY <1>2
<1> QED BY <1>2, <1>3, Zenon DEF Decoded

\* The rest of the stream is a line, if there is any.
LEMMA EndDecodes == ASSUME DecodeInv, BoundInv', End PROVE DecodeInv'
<1>1. /\ pc = "read" /\ position = Len(stream) /\ pc' = "done"
      /\ UNCHANGED <<encoding, stream, position, byte_order>>
      /\ IF pending # << >> /\ Verdict(pending) # NONE
         THEN error' = Verdict(pending) /\ yielded' = yielded
         ELSE /\ error' = error
              /\ IF pending = << >> THEN yielded' = yielded ELSE Yield(pending)
  BY DEF End, Raise, lineVars
<1>2. /\ encoding # "unsupported" /\ Types /\ BoundInv /\ error = NONE
      /\ InStream /\ OrderKnown /\ Searched /\ LinesYielded
      /\ stream \in Seq(Byte) /\ line_number \in Nat \ {0}
  BY <1>1 DEF DecodeInv, BoundInv, Types, TypeOK
<1>3. /\ line_start \in Nat /\ Len(stream) \in Nat /\ line_start <= Len(stream)
      /\ pending = Slice(stream, line_start, Len(stream)) /\ pending \in Seq(Byte)
      /\ Len(pending) = Len(stream) - line_start /\ Len(stream) <= Len(stream)
  BY <1>1, <1>2, PendingIs DEF InStream
<1>4. Order' = Order
  BY <1>1 DEF Order
<1>5. ASSUME NEW j \in Breaks PROVE ~(j >= line_start)
  BY <1>1, <1>2, <1>3, BreakIs DEF Searched
<1>6. byte_order = Order \/ (encoding = "utf-16" /\ byte_order = NONE /\ Len(stream) < 2
                              /\ line_start = 0)
  <2>1. CASE byte_order # NONE \/ ~UTF16
    BY <1>2, <2>1, OrderUsed
  <2>2. CASE byte_order = NONE /\ UTF16
    BY <1>1, <2>2, NotYetKnown
  <2> QED BY <2>1, <2>2
<1>7. Marked
  <2>1. CASE encoding # "utf-16"
    BY <2>1 DEF Marked
  <2>2. CASE encoding = "utf-16" /\ byte_order # NONE
    BY <1>2, <2>2 DEF OrderKnown
  <2>3. CASE encoding = "utf-16" /\ byte_order = NONE
    <3>1. Len(stream) < 2
      BY <1>1, <2>3, NotYetKnown DEF UTF16
    <3> QED BY <3>1 DEF Marked
  <2> QED BY <2>1, <2>2, <2>3
<1>8. CASE pending = << >>
  <2>1. error' = NONE /\ yielded' = yielded
    BY <1>1, <1>2, <1>8
  <2>2. line_start = Len(stream)
    <3>1. Len(pending) = 0
      BY <1>8
    <3> QED BY <1>3, <3>1
  <2>3. { j \in Starts : j < line_start } = Starts
    BY <2>2 DEF Starts
  <2>4. line_number - 1 = Cardinality(Starts)
    <3>1. Cardinality(Starts) \in Nat
      BY <1>2, StartsAreFinite
    <3>2. line_number = Cardinality({ j \in Starts : j < line_start }) + 1
      BY <1>2 DEF InStream
    <3>3. line_number = Cardinality(Starts) + 1
      BY <2>3, <3>2
    <3> QED BY <3>1, <3>3
  <2>5. /\ yielded = [k \in 1 .. Cardinality(Starts) |-> Text(LinesOfStream[k], k, Order)]
        /\ \A k \in 1 .. Cardinality(Starts) : ~Refused(k)
    BY <1>2, <2>4 DEF LinesYielded
  <2>6. Decoded(yielded, NONE)
    BY <1>2, <1>7, <2>5, AllDecoded
  <2>7. Decoded(yielded', error')
    BY <2>1, <2>6
  <2> QED BY <1>1, <1>4, <2>7, DoneDecodes
<1>9. CASE pending # << >>
  <2>1. line_start < Len(stream)
    <3>1. Len(pending) # 0
      BY <1>3, <1>9, EmptySeq
    <3> QED BY <1>3, <3>1
  <2>2. LinesOfStream[line_number] = pending /\ line_number \in 1 .. Cardinality(Starts)
    <3>1. LineAt(line_start) = pending
      BY <1>3, <1>5, LineAtEnd
    <3> QED BY <1>2, <2>1, <3>1, ThisLine
  <2>3. ASSUME byte_order # Order
        PROVE  \A o : Bad(Unmarked(pending, line_number), o) = {1}
    <3>1. encoding = "utf-16" /\ Len(pending) = 1
      BY <1>3, <1>6, <2>1, <2>3
    <3>2. \A o : BadUTF16(pending, o) = {1}
      BY <1>3, <3>1, HalfUnit
    <3>3. Unmarked(pending, line_number) = pending
      BY <3>1 DEF Unmarked
    <3> QED BY <3>1, <3>2, <3>3 DEF Bad
  <2>4. Bad(Unmarked(pending, line_number), byte_order) = Bad(Unmarked(pending, line_number), Order)
    BY <2>3
  <2>5. CASE Verdict(pending) # NONE
    <3>1. error' = Verdict(pending) /\ yielded' = yielded
      BY <1>1, <1>9, <2>5
    <3>2. EndsLine(Len(stream))
      BY DEF EndsLine
    <3>3. Decoded(yielded, Verdict(pending))
      BY <1>2, <1>3, <1>7, <2>1, <2>2, <2>4, <2>5, <3>2, RefusalDecodes
    <3>4. Decoded(yielded', error')
      BY <3>1, <3>3
    <3> QED BY <1>1, <1>4, <3>4, DoneDecodes
  <2>6. CASE Verdict(pending) = NONE
    <3>1. error' = NONE /\ yielded' = Append(yielded, Text(pending, line_number, byte_order))
      BY <1>1, <1>2, <1>9, <2>6 DEF Yield
    <3>2. ~Refused(line_number)
      BY <1>2, <1>3, <2>2, <2>4, <2>6, VerdictOnLine
    <3>3. byte_order = Order
      <4>1. Bad(Unmarked(pending, line_number), Order) = {}
        BY <2>2, <3>2 DEF Refused
      <4> QED BY <2>3, <4>1
    <3>4. line_number = Cardinality(Starts)
      <4>1. \A h \in Breaks : h >= line_start => ~(h + Width < Len(stream))
        BY <1>5
      <4>2. Cardinality({ j \in Starts : j < Len(stream) }) = line_number
        BY <1>2, <1>3, <2>1, <4>1, StartsUpTo
      <4>3. { j \in Starts : j < Len(stream) } = Starts
        BY DEF Starts
      <4> QED BY <4>2, <4>3
    <3>5. yielded' = [k \in 1 .. Cardinality(Starts) |-> Text(LinesOfStream[k], k, Order)]
      BY <1>2, <2>2, <3>1, <3>3, <3>4, OneMoreLine
    <3>6. \A k \in 1 .. Cardinality(Starts) : ~Refused(k)
      <4> SUFFICES ASSUME NEW k \in 1 .. line_number PROVE ~Refused(k)
        BY <3>4
      <4>1. k = line_number \/ k \in 1 .. line_number - 1
        BY <1>2
      <4> QED BY <1>2, <3>2, <4>1 DEF LinesYielded
    <3>7. PICK y : y = yielded'
      OBVIOUS
    <3>8. Decoded(y, NONE)
      BY <1>2, <1>7, <3>5, <3>6, <3>7, AllDecoded
    <3>9. Decoded(yielded', error')
      BY <3>1, <3>7, <3>8
    <3> QED BY <1>1, <1>4, <3>9, DoneDecodes
  <2> QED BY <2>5, <2>6
<1> QED BY <1>8, <1>9

\* Every step keeps the invariant.
THEOREM DecodeStep == DecodeInv /\ [Next]_vars => DecodeInv'
<1> SUFFICES ASSUME DecodeInv, [Next]_vars PROVE DecodeInv'
  OBVIOUS
<1>0. BoundInv'
  BY BoundStep DEF DecodeInv
<1>1. CASE Open
  BY <1>0, <1>1, OpenDecodes
<1>2. CASE \E n \in 1 .. READ_SIZE : Read(n)
  BY <1>0, <1>2, ReadDecodes
<1>3. CASE TakeLine
  BY <1>0, <1>3, TakeDecodes
<1>4. CASE KeepRest
  BY <1>0, <1>4, KeepDecodes
<1>5. CASE End
  BY <1>0, <1>5, EndDecodes
<1>6. CASE UNCHANGED vars
  <2>1. /\ UNCHANGED <<encoding, stream, pc, position, byte_order, error>>
        /\ UNCHANGED <<pending, line_start, line_number, search_from, yielded>>
    BY <1>6 DEF vars, lineVars
  <2>2. Order' = Order
    BY <2>1 DEF Order
  <2>3. CASE pc = "done"
    <3>1. encoding = "unsupported" \/ Decoded(yielded, error)
      BY <2>3, DecodesIs DEF DecodeInv
    <3>2. encoding = "unsupported" \/ Decoded(yielded', error')
      BY <2>1, <3>1
    <3> QED BY <1>0, <2>1, <2>2, <2>3, <3>2, DoneDecodes
  <2>4. CASE pc # "done"
    <3>1. error = NONE /\ InStream /\ OrderKnown /\ Searched /\ LinesYielded
      BY <2>4 DEF DecodeInv
    <3>2. /\ Width' = Width /\ UTF16' = UTF16 /\ Breaks' = Breaks /\ Starts' = Starts
          /\ Marked' = Marked
      BY <2>1, <2>2, SameStream
    <3>3. LinesYielded'
      BY <2>1, <2>2, <3>1, SameLines
    <3>4. InStream'
      BY <2>1, <3>1, <3>2, Zenon DEF InStream, Slice
    <3>5. OrderKnown'
      BY <2>1, <2>2, <3>1, <3>2 DEF OrderKnown
    <3>6. Searched'
      BY <2>1, <3>1, <3>2 DEF Searched
    <3> QED BY <1>0, <2>1, <2>4, <3>1, <3>3, <3>4, <3>5, <3>6 DEF DecodeInv
  <2> QED BY <2>3, <2>4
<1> QED BY <1>1, <1>2, <1>3, <1>4, <1>5, <1>6 DEF Next

\* What the decoder yields, and the error it ends with, depend on the stream alone,
\* whatever the sizes of the reads.
THEOREM ReadsDoNotMatter == Spec => []DecodesStream
<1>1. DecodeInv => DecodesStream
  BY DEF DecodeInv, DecodesStream
<1> QED BY DecodeInit, DecodeStep, <1>1, PTL DEF Spec
=============================================================================
