---------------------------- MODULE FuseReadProofs ----------------------------
(***************************************************************************)
(* Proof that every file of a mounted snapshot reads as what it holds, for *)
(* all sizes of files, pages and reads, and any number of readers.         *)
(***************************************************************************)
EXTENDS FuseRead, SequenceTheorems, TLAPS

-----------------------------------------------------------------------------
(* The inductive invariant.                                                *)

Reader == [mode : {"closed", "direct", "buffered"}, start : Nat, offset : Nat, got : Bytes,
           outcome : {"more", "eof", "ENODATA", "EIO"}]

\* What one reader has been given: ReadsExact and UnavailableIsTold of it, and that
\* the kernel only reads ahead in a file it can have the pages of.
Served(x) ==
    /\ x \in Reader
    /\ x.start <= x.offset
    /\ x.mode = "buffered" => ~Unavailable
    /\ IF Readable
       THEN /\ x.got = SubSeq(FileBytes, x.start + 1, x.offset)
            /\ x.outcome = "eof" => x.offset >= node.size
            /\ x.outcome \in {"more", "eof"}
       ELSE x.got = << >>
    /\ Unavailable => /\ x.outcome # "EIO"
                      /\ x.outcome = "eof" => node.size # NONE /\ x.offset >= node.size

\* No page is ever short but the last, so that the kernel's size stays the node's.
KnownIsSize == known_size = IF node.size = NONE THEN 0 ELSE node.size

\* A page that is kept is a page of the file.
PagesOfFile ==
    /\ pages = [p \in DOMAIN pages |-> pages[p]]
    /\ \A p \in DOMAIN pages :
         /\ p \in 0 .. MaxSize /\ Readable /\ p * PageSize < node.size
         /\ pages[p] = Slice(p * PageSize, MinOf(p * PageSize + PageSize, node.size))

FileOK == node \in FileNode /\ simulate \in BOOLEAN

ReadInv ==
    /\ FileOK
    /\ KnownIsSize
    /\ PagesOfFile
    /\ readers \in [Readers -> Reader]
    /\ \A r \in Readers : Served(readers[r])

-----------------------------------------------------------------------------
(* Slices of the file.                                                     *)

\* What a node that can be read says of itself.
LEMMA ReadableSize ==
    ASSUME FileOK, Readable
    PROVE  node.size \in 0 .. MaxSize /\ node.size # NONE /\ node.inline \in BOOLEAN
BY ReadAssumptions DEF FileOK, FileNode, Readable

\* The bytes of a file, and a slice of them as the adapter makes it.
LEMMA FileIsBytes ==
    ASSUME FileOK, Readable
    PROVE  FileBytes \in Bytes /\ Len(FileBytes) = node.size
           /\ \A k \in 1 .. node.size : FileBytes[k] = Byte(k)
<1>1. node.size \in Nat /\ node.size <= MaxSize /\ MaxSize \in Nat
  BY ReadableSize, ReadAssumptions
<1>2. FileBytes \in [1 .. node.size -> 0 .. MaxSize]
  BY <1>1 DEF FileBytes
<1>3. FileBytes \in Bytes
  BY <1>1, <1>2, SeqDef DEF Bytes
<1>4. Len(FileBytes) = node.size
  BY <1>1, <1>3, LenProperties DEF FileBytes, Bytes
<1> QED BY <1>3, <1>4 DEF FileBytes, Byte

LEMMA SliceIsSubSeq ==
    ASSUME FileOK, Readable, NEW from \in Nat, NEW to \in Nat, from <= to, to <= node.size
    PROVE  /\ Slice(from, to) = SubSeq(FileBytes, from + 1, to)
           /\ Slice(from, to) \in Bytes /\ Len(Slice(from, to)) = to - from
           /\ \A k \in 1 .. to - from : Slice(from, to)[k] = Byte(from + k)
<1>1. FileBytes \in Bytes /\ Len(FileBytes) = node.size /\ node.size \in Nat
      /\ \A k \in 1 .. node.size : FileBytes[k] = Byte(k)
  BY FileIsBytes, ReadableSize
<1>2. \A k \in from + 1 .. to : FileBytes[k] \in 0 .. MaxSize
  <2> SUFFICES ASSUME NEW k \in from + 1 .. to PROVE FileBytes[k] \in 0 .. MaxSize
    OBVIOUS
  <2>1. k \in 1 .. Len(FileBytes)
    BY <1>1
  <2> QED BY <1>1, <2>1, ElementOfSeq DEF Bytes
<1>3. /\ SubSeq(FileBytes, from + 1, to) \in Bytes
      /\ Len(SubSeq(FileBytes, from + 1, to)) = to - from
      /\ \A k \in 1 .. to - from : SubSeq(FileBytes, from + 1, to)[k] = FileBytes[from + k]
  <2>1. Len(SubSeq(FileBytes, from + 1, to)) = IF from + 1 <= to THEN to - (from + 1) + 1 ELSE 0
    BY <1>2, SubSeqProperties
  <2>2. SubSeq(FileBytes, from + 1, to) \in Seq(0 .. MaxSize)
    BY <1>2, SubSeqProperties
  <2>3. \A k \in 1 .. to - (from + 1) + 1 :
          SubSeq(FileBytes, from + 1, to)[k] = FileBytes[from + 1 + k - 1]
    BY <1>2, SubSeqProperties
  <2> QED BY <2>1, <2>2, <2>3 DEF Bytes
<1>4. Slice(from, to) = [k \in 1 .. to - from |-> Byte(from + k)]
  BY DEF Slice, MaxOf
<1>5. SubSeq(FileBytes, from + 1, to) = [k \in 1 .. to - from |-> Byte(from + k)]
  <2> DEFINE s == SubSeq(FileBytes, from + 1, to)
  <2>1. s \in [1 .. to - from -> 0 .. MaxSize]
    BY <1>3, LenProperties DEF Bytes
  <2>2. \A k \in 1 .. to - from : s[k] = Byte(from + k)
    BY <1>1, <1>3
  <2> HIDE DEF s
  <2>3. s = [k \in 1 .. to - from |-> Byte(from + k)]
    BY <2>1, <2>2
  <2> QED BY <2>3 DEF s
<1> QED BY <1>3, <1>4, <1>5

LEMMA SliceNotEmpty ==
    ASSUME FileOK, Readable, NEW from \in Nat, NEW to \in Nat, from < to, to <= node.size
    PROVE  Slice(from, to) # << >>
<1>1. from <= to /\ to - from # 0
  OBVIOUS
<1>2. Len(Slice(from, to)) = to - from
  BY <1>1, SliceIsSubSeq
<1> QED BY <1>1, <1>2, EmptySeq

\* A reader that is given the next bytes has the file up to where they end.
LEMMA Advances ==
    ASSUME FileOK, Readable, NEW x, Served(x), NEW to \in Nat,
           x.outcome = "more", x.offset < to, to <= node.size
    PROVE  Served([x EXCEPT !.got = @ \o Slice(x.offset, to),
                            !.offset = @ + Len(Slice(x.offset, to)), !.outcome = "more"])
<1>1. /\ x \in Reader /\ x.offset \in Nat /\ x.start \in Nat /\ x.start <= x.offset
      /\ x.got \in Bytes /\ x.got = SubSeq(FileBytes, x.start + 1, x.offset)
  BY DEF Served, Reader
<1>2. /\ Slice(x.offset, to) = SubSeq(FileBytes, x.offset + 1, to)
      /\ Slice(x.offset, to) \in Bytes /\ Len(Slice(x.offset, to)) = to - x.offset
  <2>1. x.offset <= to
    BY <1>1
  <2> QED BY <1>1, <2>1, SliceIsSubSeq
<1>3. FileBytes \in Seq(0 .. MaxSize) /\ Len(FileBytes) = node.size /\ node.size \in Nat
  BY FileIsBytes, ReadableSize DEF Bytes
<1>4. x.got \o Slice(x.offset, to) = SubSeq(FileBytes, x.start + 1, to)
  <2>1. /\ x.start + 1 \in 1 .. Len(FileBytes) + 1
        /\ x.offset \in (x.start + 1) - 1 .. Len(FileBytes)
        /\ to \in x.offset .. Len(FileBytes)
    BY <1>1, <1>3
  <2>2. SubSeq(FileBytes, x.start + 1, x.offset) \o SubSeq(FileBytes, x.offset + 1, to)
          = SubSeq(FileBytes, x.start + 1, to)
    BY <1>3, <2>1, ConcatAdjacentSubSeq
  <2> QED BY <1>1, <1>2, <2>2
<1>5. x.got \o Slice(x.offset, to) \in Bytes
  BY <1>1, <1>2, ConcatProperties DEF Bytes
<1>6. x.offset + Len(Slice(x.offset, to)) = to
  BY <1>1, <1>2
<1> DEFINE y == [x EXCEPT !.got = @ \o Slice(x.offset, to),
                          !.offset = @ + Len(Slice(x.offset, to)), !.outcome = "more"]
<1>7. /\ y.mode = x.mode /\ y.start = x.start /\ y.offset = to /\ y.outcome = "more"
      /\ y.got = SubSeq(FileBytes, x.start + 1, to)
      /\ y \in Reader
  BY <1>1, <1>4, <1>5, <1>6 DEF Reader
<1> HIDE DEF y
<1>8. Served(y)
  BY <1>1, <1>7 DEF Served
<1> QED BY <1>8 DEF y

\* A reader that is given nothing is at the end of its file, if it is a file that
\* can be read or one that open() told the kernel not to keep.
LEMMA Ends ==
    ASSUME NEW x, Served(x),
           Readable \/ Unavailable => node.size # NONE /\ x.offset >= node.size
    PROVE  Served([x EXCEPT !.got = @ \o << >>, !.offset = @ + Len(<< >>), !.outcome = "eof"])
<1>1. x \in Reader /\ x.offset \in Nat /\ x.got \in Seq(0 .. MaxSize)
  BY DEF Served, Reader, Bytes
<1>2. x.got \o << >> = x.got /\ x.offset + Len(<< >>) = x.offset
  BY <1>1, ConcatEmptySeq, EmptySeq
<1> DEFINE y == [x EXCEPT !.got = @ \o << >>, !.offset = @ + Len(<< >>), !.outcome = "eof"]
<1>3. /\ y.mode = x.mode /\ y.start = x.start /\ y.offset = x.offset /\ y.outcome = "eof"
      /\ y.got = x.got /\ y \in Reader
  BY <1>1, <1>2 DEF Reader
<1> HIDE DEF y
<1>4. Served(y)
  BY <1>1, <1>3 DEF Served
<1> QED BY <1>4 DEF y

\* A reader that is told an error reads a file that cannot be read.
LEMMA Fails ==
    ASSUME NEW x, Served(x), ~Readable, NEW errno \in {"ENODATA", "EIO"},
           Unavailable => errno = "ENODATA"
    PROVE  Served([x EXCEPT !.outcome = errno])
<1> DEFINE y == [x EXCEPT !.outcome = errno]
<1>1. /\ y.mode = x.mode /\ y.start = x.start /\ y.offset = x.offset /\ y.got = x.got
      /\ y.outcome = errno /\ y \in Reader
  BY DEF Served, Reader
<1> HIDE DEF y
<1>2. Served(y)
  BY <1>1 DEF Served
<1> QED BY <1>2 DEF y

\* A reader that starts anew anywhere has been given nothing, and that is right.
LEMMA Starts ==
    ASSUME FileOK, NEW offset \in Nat, NEW mode \in {"closed", "direct", "buffered"},
           mode = "buffered" => ~Unavailable
    PROVE  Served([Closed EXCEPT !.mode = mode, !.start = offset, !.offset = offset])
<1> DEFINE y == [Closed EXCEPT !.mode = mode, !.start = offset, !.offset = offset]
<1>1. << >> \in Bytes
  BY EmptySeq DEF Bytes
<1>2. /\ y.mode = mode /\ y.start = offset /\ y.offset = offset /\ y.got = << >>
      /\ y.outcome = "more" /\ y \in Reader
  BY <1>1 DEF Closed, Reader
<1>3. SubSeq(FileBytes, offset + 1, offset) = << >>
  BY SubSeqEmpty
<1> HIDE DEF y
<1>4. Served(y)
  BY <1>2, <1>3 DEF Served
<1> QED BY <1>4 DEF y

\* What reaches a reader that is given some bytes, and one that is told an error.
LEMMA DeliveredToOne ==
    ASSUME readers \in [Readers -> Reader], NEW r \in Readers, NEW bytes
    PROVE  Delivered(r, bytes) =
             [readers EXCEPT ![r] =
                [readers[r] EXCEPT !.got = @ \o bytes, !.offset = @ + Len(bytes),
                                   !.outcome = IF bytes = << >> THEN "eof" ELSE "more"]]
BY DEF Delivered, Reader

\* Steps of one reader leave the file, the pages and the other readers.
LEMMA OneReader ==
    ASSUME ReadInv, NEW r \in Readers, NEW x, Served(x),
           readers' = [readers EXCEPT ![r] = x],
           UNCHANGED <<node, simulate, pages, known_size>>
    PROVE  ReadInv'
<1>1. readers' \in [Readers -> Reader]
  BY DEF ReadInv, Served
<1>2. \A q \in Readers : Served(readers'[q])
  BY DEF ReadInv
<1>3. \A q \in Readers : Served(readers[q])'
  BY <1>2 DEF Served, Readable, Unavailable, FileBytes
<1>4. KnownIsSize' /\ FileOK' /\ PagesOfFile'
  BY DEF ReadInv, KnownIsSize, FileOK, PagesOfFile, Readable, Slice, Byte
<1> QED BY <1>1, <1>3, <1>4 DEF ReadInv, Reader, Bytes

-----------------------------------------------------------------------------
(* The adapter's answers.                                                  *)

\* read_node() of at least one byte: nothing at the end or behind it, the bytes of
\* a file that can be read, and ENODATA otherwise.
LEMMA Answers ==
    ASSUME FileOK, NEW offset \in Nat, NEW size \in Nat \ {0}
    PROVE  \/ /\ ReadNode(offset, size) = Data(<< >>)
              /\ node.size # NONE /\ offset >= node.size
           \/ /\ Readable /\ offset < node.size /\ node.size \in Nat
              /\ ReadNode(offset, size) = Data(Slice(offset, MinOf(offset + size, node.size)))
           \/ /\ ~Readable /\ ReadNode(offset, size) = Errno("ENODATA")
              /\ node.size # NONE => offset < node.size
<1>1. node.size # NONE => node.size \in Nat
  BY ReadAssumptions DEF FileOK, FileNode
<1>2. Readable => node.size # NONE
  BY DEF FileOK, FileNode, Readable
<1>3. Readable <=> node.inline \/ Simulates
  BY DEF Readable, Simulates
<1> QED BY <1>1, <1>2, <1>3 DEF ReadNode, EndOfRead

-----------------------------------------------------------------------------
(* The pages of the kernel.                                                *)

\* Where a page begins, and that an offset is in its page.
LEMMA PageBase == \A p \in Nat : p * PageSize \in Nat
BY ReadAssumptions

LEMMA InItsPage ==
    ASSUME NEW offset \in Nat
    PROVE  LET p == offset \div PageSize
           IN  p \in Nat /\ p * PageSize <= offset /\ offset < p * PageSize + PageSize
BY ReadAssumptions

LEMMA DirectReadStep ==
    ASSUME ReadInv, NEW r \in Readers, NEW size \in 1 .. MaxRead, DirectRead(r, size)
    PROVE  ReadInv'
<1> DEFINE x == readers[r]
           answer == ReadNode(x.offset, size)
           next == IF answer.errno = NONE THEN Delivered(r, answer.bytes)
                                          ELSE Failed(r, answer.errno)
<1>1. /\ Served(x) /\ x.offset \in Nat /\ x.got \in Bytes /\ x.outcome = "more"
      /\ x \in Reader /\ readers' = next /\ UNCHANGED <<node, simulate, pages, known_size>>
      /\ readers \in [Readers -> Reader] /\ FileOK
  BY DEF ReadInv, DirectRead, Served, Reader
<1>2. size \in Nat \ {0} /\ x.offset + size \in Nat
  BY <1>1, ReadAssumptions
<1>3. NONE # "ENODATA"
  BY ReadAssumptions
<1>4. CASE answer = Data(<< >>) /\ node.size # NONE /\ x.offset >= node.size
  <2>1. next = [readers EXCEPT ![r] =
                 [x EXCEPT !.got = @ \o << >>, !.offset = @ + Len(<< >>), !.outcome = "eof"]]
    <3>1. next = Delivered(r, << >>)
      BY <1>4 DEF Data
    <3> QED BY <1>1, <3>1, DeliveredToOne
  <2> QED BY <1>1, <1>4, <2>1, Ends, OneReader
<1>5. CASE /\ Readable /\ x.offset < node.size /\ node.size \in Nat
           /\ answer = Data(Slice(x.offset, MinOf(x.offset + size, node.size)))
  <2> DEFINE to == MinOf(x.offset + size, node.size)
  <2>1. to \in Nat /\ x.offset < to /\ to <= node.size
    BY <1>1, <1>2, <1>5 DEF MinOf
  <2> HIDE DEF to
  <2>2. Slice(x.offset, to) # << >>
    BY <1>1, <1>5, <2>1, SliceNotEmpty
  <2>3. next = [readers EXCEPT ![r] =
                 [x EXCEPT !.got = @ \o Slice(x.offset, to),
                           !.offset = @ + Len(Slice(x.offset, to)), !.outcome = "more"]]
    <3>1. answer.errno = NONE /\ answer.bytes = Slice(x.offset, to)
      BY <1>5 DEF Data, to
    <3>2. next = Delivered(r, Slice(x.offset, to))
      BY <3>1
    <3>3. Delivered(r, Slice(x.offset, to)) =
             [readers EXCEPT ![r] =
                [x EXCEPT !.got = @ \o Slice(x.offset, to),
                          !.offset = @ + Len(Slice(x.offset, to)),
                          !.outcome = IF Slice(x.offset, to) = << >> THEN "eof" ELSE "more"]]
      BY <1>1, DeliveredToOne
    <3> QED BY <2>2, <3>2, <3>3
  <2>4. Served([x EXCEPT !.got = @ \o Slice(x.offset, to),
                         !.offset = @ + Len(Slice(x.offset, to)), !.outcome = "more"])
    BY <1>1, <1>5, <2>1, Advances
  <2> QED BY <1>1, <2>3, <2>4, OneReader
<1>6. CASE ~Readable /\ answer = Errno("ENODATA")
  <2>1. next = [readers EXCEPT ![r] = [x EXCEPT !.outcome = "ENODATA"]]
    BY <1>1, <1>3, <1>6 DEF Failed, Errno
  <2> QED BY <1>1, <1>6, <2>1, Fails, OneReader
<1> QED BY <1>1, <1>2, <1>4, <1>5, <1>6, Answers

\* A page of the kernel's is filled with what the file has there, and a short page
\* ends where the file does.
LEMMA FillPageStep == ASSUME ReadInv, NEW p \in 0 .. MaxSize, FillPage(p) PROVE ReadInv'
<1> DEFINE base == p * PageSize
           answer == ReadNode(base, PageSize)
           to == MinOf(base + PageSize, node.size)
<1>1. /\ FileOK /\ KnownIsSize /\ PagesOfFile /\ base < known_size /\ answer.errno = NONE
      /\ pages' = [q \in DOMAIN pages \cup {p} |-> IF q = p THEN answer.bytes ELSE pages[q]]
      /\ known_size' = IF Len(answer.bytes) < PageSize
                       THEN MinOf(known_size, base + Len(answer.bytes)) ELSE known_size
      /\ UNCHANGED <<node, simulate, readers>>
  BY DEF ReadInv, FillPage
<1>2. base \in Nat /\ PageSize \in Nat \ {0} /\ NONE # "ENODATA"
  BY PageBase, ReadAssumptions
<1> HIDE DEF base
<1>3. base < node.size /\ node.size # NONE
  <2>1. node.size = NONE => known_size = 0
    BY <1>1 DEF KnownIsSize
  <2> QED BY <1>1, <1>2, <2>1 DEF KnownIsSize
<1>4. Readable /\ node.size \in Nat /\ answer = Data(Slice(base, to))
  <2>1. node.size \in Nat
    BY <1>1, <1>3, ReadAssumptions DEF FileOK, FileNode
  <2>2. answer # Errno("ENODATA")
    BY <1>1, <1>2 DEF Errno
  <2> QED BY <1>1, <1>2, <1>3, <2>1, <2>2, Answers
<1>5. to \in Nat /\ base < to /\ to <= node.size /\ to = IF base + PageSize <= node.size
                                                       THEN base + PageSize ELSE node.size
  BY <1>2, <1>3, <1>4 DEF MinOf
<1> HIDE DEF to, answer
<1>6. answer.bytes = Slice(base, to) /\ Len(answer.bytes) = to - base
  <2>1. base <= to
    BY <1>2, <1>5
  <2>2. Len(Slice(base, to)) = to - base
    BY <1>1, <1>2, <1>4, <1>5, <2>1, SliceIsSubSeq
  <2> QED BY <1>4, <2>2 DEF Data
<1>7. known_size' = known_size
  <2>1. known_size = node.size
    BY <1>1, <1>3 DEF KnownIsSize
  <2> QED BY <1>1, <1>2, <1>4, <1>5, <1>6, <2>1 DEF MinOf
<1>8. FileOK' /\ KnownIsSize'
  BY <1>1, <1>7 DEF FileOK, KnownIsSize
<1>9. PagesOfFile'
  <2> SUFFICES ASSUME NEW q \in DOMAIN pages'
               PROVE  /\ q \in 0 .. MaxSize /\ Readable /\ q * PageSize < node.size
                      /\ pages'[q] = Slice(q * PageSize, MinOf(q * PageSize + PageSize, node.size))
    <3>1. node' = node /\ simulate' = simulate
      BY <1>1
    <3>2. pages' = [q \in DOMAIN pages' |-> pages'[q]]
      BY <1>1
    <3> QED BY <3>1, <3>2 DEF PagesOfFile, Readable, Slice, Byte
  <2>1. CASE q = p
    BY <1>1, <1>3, <1>4, <1>6, <2>1 DEF base, to
  <2>2. CASE q # p
    BY <1>1, <2>2 DEF PagesOfFile
  <2> QED BY <2>1, <2>2
<1>10. readers' \in [Readers -> Reader]' /\ \A r \in Readers : Served(readers[r])'
  BY <1>1, ZenonT(30) DEF ReadInv, Served, Reader, Bytes, Readable, Unavailable, FileBytes
<1> QED BY <1>8, <1>9, <1>10 DEF ReadInv

\* A buffered read of a page that is kept.
LEMMA BufferedReadStep ==
    ASSUME ReadInv, NEW r \in Readers, NEW size \in 1 .. MaxRead, BufferedRead(r, size)
    PROVE  ReadInv'
<1> DEFINE x == readers[r]
           base == PageOf(r) * PageSize
           page == pages[PageOf(r)]
           end == MinOf(MinOf(x.offset + size, known_size), base + PageSize)
           byte(k) == IF k <= Len(page) THEN page[k] ELSE 0
           bytes == [k \in 1 .. end - x.offset |-> byte(x.offset - base + k)]
<1>1. /\ Served(x) /\ x.offset \in Nat /\ x.got \in Bytes /\ x.outcome = "more"
      /\ x \in Reader /\ UNCHANGED <<node, simulate, pages, known_size>>
      /\ readers' = Delivered(r, bytes)
      /\ readers \in [Readers -> Reader] /\ FileOK /\ x.offset < known_size
      /\ PageOf(r) \in DOMAIN pages
  BY DEF ReadInv, BufferedRead, Served, Reader
<1>2. /\ Readable /\ node.size \in Nat /\ known_size = node.size
      /\ page = Slice(base, MinOf(base + PageSize, node.size))
      /\ size \in Nat \ {0} /\ PageSize \in Nat \ {0}
  <2>1. Readable /\ page = Slice(base, MinOf(base + PageSize, node.size))
    BY <1>1 DEF ReadInv, PagesOfFile
  <2>2. known_size = node.size /\ node.size \in Nat
    BY <1>1, <2>1, ReadableSize, ReadAssumptions DEF ReadInv, KnownIsSize
  <2> QED BY <2>1, <2>2, ReadAssumptions
<1>3. base \in Nat /\ base <= x.offset /\ x.offset < base + PageSize
  <2>1. PageOf(r) \in Nat
    BY <1>1, InItsPage DEF PageOf
  <2> QED BY <1>1, <2>1, PageBase, InItsPage DEF PageOf
<1> HIDE DEF base
<1>4. /\ end \in Nat /\ x.offset < end /\ end <= node.size
      /\ end <= MinOf(base + PageSize, node.size)
      /\ MinOf(base + PageSize, node.size) \in Nat /\ base <= MinOf(base + PageSize, node.size)
      /\ MinOf(base + PageSize, node.size) <= node.size
  BY <1>1, <1>2, <1>3 DEF MinOf
<1> DEFINE last == MinOf(base + PageSize, node.size)
<1> HIDE DEF end, last
<1>5. Len(page) = last - base /\ \A k \in 1 .. last - base : page[k] = Byte(base + k)
  BY <1>1, <1>2, <1>3, <1>4, SliceIsSubSeq, SMTT(15) DEF last
<1> HIDE DEF page
<1>6. bytes = Slice(x.offset, end)
  <2>1. \A k \in 1 .. end - x.offset : byte(x.offset - base + k) = Byte(x.offset + k)
    <3> SUFFICES ASSUME NEW k \in 1 .. end - x.offset
                 PROVE  byte(x.offset - base + k) = Byte(x.offset + k)
      OBVIOUS
    <3>1. x.offset - base + k \in 1 .. last - base /\ base + (x.offset - base + k) = x.offset + k
      <4>1. end <= last /\ last \in Nat /\ end \in Nat /\ k <= end - x.offset /\ k >= 1 /\ k \in Nat
        BY <1>1, <1>4 DEF last
      <4> QED BY <1>1, <1>3, <4>1
    <3>2. page[x.offset - base + k] = Byte(base + (x.offset - base + k))
      BY <1>5, <3>1
    <3> QED BY <1>3, <1>4, <1>5, <3>1, <3>2 DEF last
  <2>2. Slice(x.offset, end) = [k \in 1 .. end - x.offset |-> Byte(x.offset + k)]
    BY <1>1, <1>4 DEF Slice, MaxOf
  <2> QED BY <2>1, <2>2
<1> HIDE DEF bytes
<1>7. bytes # << >>
  BY <1>1, <1>2, <1>4, <1>6, SliceNotEmpty
<1>8. readers' = [readers EXCEPT ![r] =
                   [x EXCEPT !.got = @ \o Slice(x.offset, end),
                             !.offset = @ + Len(Slice(x.offset, end)), !.outcome = "more"]]
  BY <1>1, <1>6, <1>7, DeliveredToOne
<1>9. Served([x EXCEPT !.got = @ \o Slice(x.offset, end),
                       !.offset = @ + Len(Slice(x.offset, end)), !.outcome = "more"])
  BY <1>1, <1>2, <1>4, Advances
<1> QED BY <1>1, <1>8, <1>9, OneReader

LEMMA BufferedEndStep == ASSUME ReadInv, NEW r \in Readers, BufferedEnd(r) PROVE ReadInv'
<1> DEFINE x == readers[r]
<1>1. /\ Served(x) /\ x.mode = "buffered" /\ x.offset >= known_size
      /\ readers' = Delivered(r, << >>) /\ UNCHANGED <<node, simulate, pages, known_size>>
      /\ readers \in [Readers -> Reader]
  BY DEF ReadInv, BufferedEnd
<1>2. ~Unavailable
  BY <1>1 DEF Served
<1>3. Readable => node.size # NONE /\ x.offset >= node.size
  BY <1>1, ReadableSize DEF ReadInv, KnownIsSize
<1>4. Served([x EXCEPT !.got = @ \o << >>, !.offset = @ + Len(<< >>), !.outcome = "eof"])
  BY <1>1, <1>2, <1>3, Ends
<1> QED BY <1>1, <1>4, DeliveredToOne, OneReader

LEMMA BufferedFailsStep == ASSUME ReadInv, NEW r \in Readers, BufferedFails(r) PROVE ReadInv'
<1> DEFINE x == readers[r]
           base == PageOf(r) * PageSize
           answer == ReadNode(base, PageSize)
<1>1. /\ Served(x) /\ x.mode = "buffered" /\ x.offset \in Nat /\ FileOK
      /\ UNCHANGED <<node, simulate, pages, known_size>> /\ answer.errno # NONE
      /\ readers \in [Readers -> Reader]
  BY DEF ReadInv, BufferedFails, Served, Reader
<1>2. PICK errno \in {answer.errno, "EIO"} : readers' = Failed(r, errno)
  BY DEF BufferedFails
<1>3. base \in Nat /\ PageSize \in Nat \ {0}
  BY <1>1, InItsPage, PageBase, ReadAssumptions DEF PageOf
<1>4. ~Readable /\ answer.errno = "ENODATA"
  BY <1>1, <1>3, Answers DEF Data, Errno
<1>5. ~Unavailable
  BY <1>1 DEF Served
<1>6. Served([x EXCEPT !.outcome = errno])
  BY <1>1, <1>4, <1>5, Fails
<1>7. readers' = [readers EXCEPT ![r] = [x EXCEPT !.outcome = errno]]
  BY <1>1, <1>2 DEF Failed
<1> QED BY <1>1, <1>6, <1>7, OneReader

\* A reader whose file is opened is yet to be given anything but what it had; the
\* pages that open() makes the kernel drop are none of a file that can be read.
LEMMA OpenStep == ASSUME ReadInv, NEW r \in Readers, Open(r) PROVE ReadInv'
<1> DEFINE x == readers[r]
           y == [x EXCEPT !.mode = IF Unavailable THEN "direct" ELSE "buffered"]
<1>1. /\ Served(x) /\ readers' = [readers EXCEPT ![r] = y]
      /\ UNCHANGED <<node, simulate, known_size>> /\ readers \in [Readers -> Reader]
      /\ pages' = IF Unavailable THEN << >> ELSE pages
  BY DEF ReadInv, Open
<1>2. Served(y)
  <2>1. /\ y.mode = (IF Unavailable THEN "direct" ELSE "buffered") /\ y.start = x.start
        /\ y.offset = x.offset /\ y.got = x.got /\ y.outcome = x.outcome /\ y \in Reader
    BY <1>1 DEF Served, Reader
  <2> HIDE DEF y
  <2> QED BY <1>1, <2>1 DEF Served
<1> HIDE DEF y
<1>3. pages' = pages
  <2>1. Unavailable => DOMAIN pages = {}
    BY DEF ReadInv, PagesOfFile, Unavailable, Readable
  <2>2. CASE Unavailable
    <3>1. pages = [p \in {} |-> pages[p]]
      BY <2>1, <2>2 DEF ReadInv, PagesOfFile
    <3>2. << >> = [p \in {} |-> pages[p]]
      OBVIOUS
    <3> QED BY <1>1, <2>2, <3>1, <3>2
  <2> QED BY <1>1, <2>2
<1> QED BY <1>1, <1>2, <1>3, OneReader

LEMMA SeekStep ==
    ASSUME ReadInv, NEW r \in Readers, NEW offset \in 0 .. MaxSize + 2, Seek(r, offset)
    PROVE  ReadInv'
<1> DEFINE y == [Closed EXCEPT !.mode = readers[r].mode, !.start = offset, !.offset = offset]
<1>1. /\ readers' = [readers EXCEPT ![r] = y] /\ FileOK /\ Served(readers[r])
      /\ UNCHANGED <<node, simulate, pages, known_size>>
  BY DEF ReadInv, Seek
<1>2. /\ readers[r].mode \in {"closed", "direct", "buffered"}
      /\ readers[r].mode = "buffered" => ~Unavailable
      /\ offset \in Nat
  BY <1>1, ReadAssumptions DEF Served, Reader
<1>3. Served(y)
  BY <1>1, <1>2, Starts
<1> QED BY <1>1, <1>3, OneReader

\* A handle that is closed begins again at the start of the file.
LEMMA ClosedServed == ASSUME FileOK PROVE Served(Closed)
<1>1. << >> \in Bytes
  BY EmptySeq DEF Bytes
<1>2. Closed \in Reader
  BY <1>1 DEF Closed, Reader
<1>3. SubSeq(FileBytes, 0 + 1, 0) = << >>
  BY SubSeqEmpty
<1> QED BY <1>2, <1>3 DEF Served, Closed

LEMMA ReleaseStep == ASSUME ReadInv, NEW r \in Readers, Release(r) PROVE ReadInv'
<1>1. readers' = [readers EXCEPT ![r] = Closed] /\ FileOK
      /\ UNCHANGED <<node, simulate, pages, known_size>>
  BY DEF ReadInv, Release
<1> QED BY <1>1, ClosedServed, OneReader

LEMMA DropPageStep == ASSUME ReadInv, NEW p \in 0 .. MaxSize, DropPage(p) PROVE ReadInv'
<1>1. pages' = [q \in DOMAIN pages \ {p} |-> pages[q]]
      /\ UNCHANGED <<node, simulate, known_size, readers>>
  BY DEF DropPage
<1>2. PagesOfFile'
  BY <1>1 DEF ReadInv, PagesOfFile, Readable, Slice, Byte
<1> QED BY <1>1, <1>2
        DEF ReadInv, FileOK, KnownIsSize, Served, Reader, Bytes, Readable, Unavailable, FileBytes

-----------------------------------------------------------------------------
(* The theorems.                                                           *)

THEOREM ReadInit == Init => ReadInv
<1> SUFFICES ASSUME Init PROVE ReadInv
  OBVIOUS
<1>1. FileOK /\ KnownIsSize
  BY DEF Init, FileOK, KnownIsSize
<1>2. PagesOfFile
  BY DEF Init, PagesOfFile
<1>3. Served(Closed) /\ Closed \in Reader
  BY <1>1, ClosedServed DEF Served
<1>4. readers = [r \in Readers |-> Closed]
  BY DEF Init
<1> QED BY <1>1, <1>2, <1>3, <1>4 DEF ReadInv

\* No step of a reader or of the kernel breaks the invariant.
THEOREM ReadStep == ReadInv /\ [Next]_vars => ReadInv'
<1> SUFFICES ASSUME ReadInv, [Next]_vars PROVE ReadInv'
  OBVIOUS
<1>1. ASSUME NEW r \in Readers, ReaderStep(r) PROVE ReadInv'
  <2>1. CASE Open(r)
    BY <2>1, OpenStep
  <2>2. CASE Release(r)
    BY <2>2, ReleaseStep
  <2>3. ASSUME NEW size \in 1 .. MaxRead, DirectRead(r, size) PROVE ReadInv'
    BY <2>3, DirectReadStep
  <2>4. ASSUME NEW size \in 1 .. MaxRead, BufferedRead(r, size) PROVE ReadInv'
    BY <2>4, BufferedReadStep
  <2>5. CASE BufferedEnd(r)
    BY <2>5, BufferedEndStep
  <2>6. CASE BufferedFails(r)
    BY <2>6, BufferedFailsStep
  <2>7. ASSUME NEW offset \in 0 .. MaxSize + 2, Seek(r, offset) PROVE ReadInv'
    BY <2>7, SeekStep
  <2> QED BY <1>1, <2>1, <2>2, <2>3, <2>4, <2>5, <2>6, <2>7 DEF ReaderStep
<1>2. ASSUME NEW p \in 0 .. MaxSize, FillPage(p) PROVE ReadInv'
  BY <1>2, FillPageStep
<1>3. ASSUME NEW p \in 0 .. MaxSize, DropPage(p) PROVE ReadInv'
  BY <1>3, DropPageStep
<1>4. CASE UNCHANGED vars
  <2>1. UNCHANGED <<node, simulate, pages, known_size, readers>>
    BY <1>4 DEF vars
  <2>2. \A r \in Readers : Served(readers[r])'
    BY <2>1 DEF ReadInv, Served, Readable, Unavailable, FileBytes
  <2>3. FileOK' /\ KnownIsSize' /\ PagesOfFile'
    BY <2>1 DEF ReadInv, FileOK, KnownIsSize, PagesOfFile, Readable, Slice, Byte
  <2> QED BY <2>1, <2>2, <2>3 DEF ReadInv
<1> QED BY <1>1, <1>2, <1>3, <1>4 DEF Next

\* The pages and the kernel's size are of their types, too.
LEMMA ReadTypes == ReadInv => TypeOK
<1> SUFFICES ASSUME ReadInv PROVE TypeOK
  OBVIOUS
<1>1. known_size \in 0 .. MaxSize
  BY ReadAssumptions DEF ReadInv, KnownIsSize, FileOK, FileNode
<1>2. ASSUME NEW p \in DOMAIN pages
      PROVE  p \in 0 .. MaxSize /\ pages[p] \in Bytes /\ Len(pages[p]) \in 1 .. PageSize
  <2> DEFINE base == p * PageSize
             to == MinOf(base + PageSize, node.size)
  <2>1. p \in 0 .. MaxSize /\ FileOK /\ Readable /\ base < node.size /\ pages[p] = Slice(base, to)
    BY DEF ReadInv, PagesOfFile
  <2>2. base \in Nat /\ node.size \in Nat /\ PageSize \in Nat \ {0}
    BY <2>1, PageBase, ReadableSize, ReadAssumptions
  <2> HIDE DEF base
  <2>3. to \in Nat /\ base <= to /\ to <= node.size /\ to - base \in 1 .. PageSize
    BY <2>1, <2>2 DEF MinOf
  <2> HIDE DEF to
  <2>4. Slice(base, to) \in Bytes /\ Len(Slice(base, to)) = to - base
    BY <2>1, <2>2, <2>3, SliceIsSubSeq
  <2> QED BY <2>1, <2>3, <2>4
<1> QED BY <1>1, <1>2 DEF ReadInv, FileOK, TypeOK, Reader

\* The file, the kernel's pages and what the readers have are of their types.
THEOREM ReadTyped == Spec => []TypeOK
BY ReadInit, ReadStep, ReadTypes, PTL DEF Spec

\* A file with content, or with a stand-in, reads as just that, with pages and reads
\* of any size, whatever the kernel keeps and drops; any other yields no byte.
THEOREM FilesReadExactly == Spec => []ReadsExact
<1>1. ReadInv => ReadsExact
  BY DEF ReadInv, Served, ReadsExact
<1> QED BY ReadInit, ReadStep, <1>1, PTL DEF Spec

\* Readers of a file without content are told so by an error that the kernel passes on.
THEOREM ReadersAreTold == Spec => []UnavailableIsTold
<1>1. ReadInv => UnavailableIsTold
  BY DEF ReadInv, Served, UnavailableIsTold, Unavailable
<1> QED BY ReadInit, ReadStep, <1>1, PTL DEF Spec
=============================================================================
