------------------------------ MODULE FuseRead ------------------------------
(***************************************************************************)
(* Reading a file of a mounted snapshot: read_node (fuse/policy.py), open  *)
(* and read of SnapshotOperations (fuse/adapter/operations.py), and the    *)
(* kernel between them and the readers.                                    *)
(*                                                                         *)
(* open() chooses between direct I/O, where each read is passed to the     *)
(* adapter, and buffered I/O, where the kernel asks for pages, also ahead  *)
(* of the readers, keeps them, and trusts the size it was told: it answers *)
(* reads past that size itself, takes a short page for the end of the file *)
(* and may turn any error into EIO.                                        *)
(*                                                                         *)
(* open() refuses everything but files and the kernel sends no negative    *)
(* offset or size, so that these checks of read_node are left out.  The    *)
(* k-th byte of an inline content is k; a NUL is 0.                        *)
(***************************************************************************)
EXTENDS Integers, Sequences

CONSTANTS
    NONE,           \* Python's None
    Readers,        \* handles the file is read through
    MaxSize,        \* bound: sizes of files, and offsets up to two beyond
    PageSize,       \* bytes in a page of the kernel's
    MaxRead         \* bound: bytes a reader asks for at once

ASSUME ReadAssumptions ==
    /\ NONE \notin Int \cup {"ENODATA"}
    /\ MaxSize \in Nat /\ PageSize \in Nat \ {0} /\ MaxRead \in Nat \ {0}

ContentStatus == {"present", "missing", "remote", "failed", "redacted"}

\* What Node._validate_file admits; inline stands for content is not None.
FileNode ==
    {n \in [size : {NONE} \cup 0 .. MaxSize, inline : BOOLEAN, status : ContentStatus] :
        /\ n.inline => n.size # NONE /\ n.status = "present"
        /\ n.size = 0 => n.inline}

VARIABLES
    node,           \* the file
    simulate,       \* _simulate_missing_content
    pages,          \* kernel: the pages it keeps, by number
    known_size,     \* kernel: the size it believes
    readers         \* what each reader has read since its last seek

vars == <<node, simulate, pages, known_size, readers>>

Closed == [mode |-> "closed", start |-> 0, offset |-> 0, got |-> << >>, outcome |-> "more"]

MinOf(a, b) == IF a <= b THEN a ELSE b
MaxOf(a, b) == IF a >= b THEN a ELSE b
Byte(k)     == IF node.inline THEN k ELSE 0

\* Fault: the bytes from the start of the file.
SliceOfStart(from, to) == [k \in 1 .. MaxOf(0, to - from) |-> Byte(k)]

\* Bytes from + 1 to to.
Slice(from, to) == [k \in 1 .. MaxOf(0, to - from) |-> Byte(from + k)]

Init ==
    /\ node \in FileNode /\ simulate \in BOOLEAN
    /\ pages = << >>
    /\ known_size = IF node.size = NONE THEN 0 ELSE node.size
    /\ readers = [r \in Readers |-> Closed]

-----------------------------------------------------------------------------
(* The adapter.                                                            *)

\* Fault: the slice ends at the size of the request.
EndOfRequest(offset, size) == MinOf(MaxOf(offset, size), node.size)

\* Where content[offset : offset + size] and min(size, node.size - offset) end.
EndOfRead(offset, size) == MinOf(offset + size, node.size)

\* A stand-in is made up for the content.
Simulates == simulate /\ node.status = "missing" /\ node.size # NONE

Data(bytes)   == [bytes |-> bytes, errno |-> NONE]
Errno(number) == [bytes |-> << >>, errno |-> number]

\* read_node() of a file for at least one byte
ReadNode(offset, size) ==
    IF node.size # NONE /\ offset >= node.size THEN Data(<< >>)
    ELSE IF node.inline \/ Simulates THEN Data(Slice(offset, EndOfRead(offset, size)))
    ELSE Errno("ENODATA")

\* Fault: every file is opened for buffered I/O.
AlwaysBuffered == FALSE

\* What open() calls unavailable, and opens for direct I/O.
Unavailable == ~node.inline /\ ~simulate

\* open(), with keep_cache unless the content is unavailable: then the kernel
\* drops its pages.
Open(r) ==
    /\ readers[r].mode = "closed"
    /\ readers' = [readers EXCEPT ![r].mode = IF Unavailable THEN "direct" ELSE "buffered"]
    /\ pages' = IF Unavailable THEN << >> ELSE pages
    /\ UNCHANGED <<node, simulate, known_size>>

Release(r) ==
    /\ readers[r].mode # "closed"
    /\ readers' = [readers EXCEPT ![r] = Closed]
    /\ UNCHANGED <<node, simulate, pages, known_size>>

-----------------------------------------------------------------------------
(* The kernel and the readers.                                             *)

Delivered(r, bytes) ==
    [readers EXCEPT ![r].got = @ \o bytes, ![r].offset = @ + Len(bytes),
                    ![r].outcome = IF bytes = << >> THEN "eof" ELSE "more"]

Failed(r, errno) == [readers EXCEPT ![r].outcome = errno]

\* A read that open() sent past the page cache.
DirectRead(r, size) ==
    /\ readers[r].mode = "direct" /\ readers[r].outcome = "more"
    /\ LET answer == ReadNode(readers[r].offset, size)
       IN  readers' = IF answer.errno = NONE THEN Delivered(r, answer.bytes)
                                             ELSE Failed(r, answer.errno)
    /\ UNCHANGED <<node, simulate, pages, known_size>>

\* Read-ahead or the page a reader needs.  A short page moves the end of the file.
FillPage(p) ==
    LET answer == ReadNode(p * PageSize, PageSize)
    IN  /\ p \notin DOMAIN pages /\ p * PageSize < known_size
        /\ \E r \in Readers : readers[r].mode = "buffered"
        /\ answer.errno = NONE
        /\ pages' = [q \in DOMAIN pages \cup {p} |-> IF q = p THEN answer.bytes ELSE pages[q]]
        /\ known_size' = IF Len(answer.bytes) < PageSize
                         THEN MinOf(known_size, p * PageSize + Len(answer.bytes))
                         ELSE known_size
        /\ UNCHANGED <<node, simulate, readers>>

DropPage(p) ==
    /\ p \in DOMAIN pages
    /\ pages' = [q \in DOMAIN pages \ {p} |-> pages[q]]
    /\ UNCHANGED <<node, simulate, known_size, readers>>

PageOf(r) == readers[r].offset \div PageSize

\* A buffered read of bytes of one page; reads of more are several of these.
BufferedRead(r, size) ==
    LET offset == readers[r].offset
        base   == PageOf(r) * PageSize
        page   == pages[PageOf(r)]
        end    == MinOf(MinOf(offset + size, known_size), base + PageSize)
        byte(k) == IF k <= Len(page) THEN page[k] ELSE 0
    IN  /\ readers[r].mode = "buffered" /\ readers[r].outcome = "more"
        /\ offset < known_size /\ PageOf(r) \in DOMAIN pages
        /\ readers' = Delivered(r, [k \in 1 .. end - offset |-> byte(offset - base + k)])
        /\ UNCHANGED <<node, simulate, pages, known_size>>

\* At the size it believes the kernel does not ask.
BufferedEnd(r) ==
    /\ readers[r].mode = "buffered" /\ readers[r].outcome = "more"
    /\ readers[r].offset >= known_size
    /\ readers' = Delivered(r, << >>)
    /\ UNCHANGED <<node, simulate, pages, known_size>>

\* A page that cannot be read fails the reader, with the adapter's errno or EIO.
BufferedFails(r) ==
    LET answer == ReadNode(PageOf(r) * PageSize, PageSize)
    IN  /\ readers[r].mode = "buffered" /\ readers[r].outcome = "more"
        /\ readers[r].offset < known_size /\ PageOf(r) \notin DOMAIN pages
        /\ answer.errno # NONE
        /\ \E errno \in {answer.errno, "EIO"} : readers' = Failed(r, errno)
        /\ UNCHANGED <<node, simulate, pages, known_size>>

Seek(r, offset) ==
    /\ readers[r].mode # "closed"
    /\ readers' = [readers EXCEPT ![r] =
         [Closed EXCEPT !.mode = readers[r].mode, !.start = offset, !.offset = offset]]
    /\ UNCHANGED <<node, simulate, pages, known_size>>

ReaderStep(r) ==
    \/ Open(r) \/ Release(r)
    \/ \E size \in 1 .. MaxRead : DirectRead(r, size) \/ BufferedRead(r, size)
    \/ BufferedEnd(r) \/ BufferedFails(r)
    \/ \E offset \in 0 .. MaxSize + 2 : Seek(r, offset)

Next ==
    \/ \E r \in Readers : ReaderStep(r)
    \/ \E p \in 0 .. MaxSize : FillPage(p) \/ DropPage(p)

Spec == Init /\ [][Next]_vars

-----------------------------------------------------------------------------
(* Properties.                                                             *)

Bytes == Seq(0 .. MaxSize)

TypeOK ==
    /\ node \in FileNode /\ simulate \in BOOLEAN
    /\ DOMAIN pages \subseteq 0 .. MaxSize
    /\ \A p \in DOMAIN pages : pages[p] \in Bytes /\ Len(pages[p]) \in 1 .. PageSize
    /\ known_size \in 0 .. MaxSize
    /\ readers \in [Readers -> [mode : {"closed", "direct", "buffered"},
                                start : Nat, offset : Nat, got : Bytes,
                                outcome : {"more", "eof", "ENODATA", "EIO"}]]

\* docs/concepts/missing-content.md: the files that can be read, and what is in them.
Readable    == node.inline \/ (simulate /\ node.status = "missing" /\ node.size # NONE)
FileBytes   == [k \in 1 .. node.size |-> IF node.inline THEN k ELSE 0]

\* A file with content, or with a stand-in, reads as just that from wherever a
\* reader starts, with any sizes of reads and pages and whatever the kernel has
\* kept, ends where it is declared to end, and never fails; a file without either
\* never yields a byte, made up or not (read_node, open).
ReadsExact ==
    \A r \in Readers :
        LET reader == readers[r] IN
        IF Readable
        THEN /\ reader.got = SubSeq(FileBytes, reader.start + 1, reader.offset)
             /\ reader.outcome = "eof" => reader.offset >= node.size
             /\ reader.outcome \in {"more", "eof"}
        ELSE reader.got = << >>

\* Without simulation its readers are told ENODATA, as it is and whatever the
\* kernel does with errors, unless they start at its declared end (open).
UnavailableIsTold ==
    ~simulate /\ ~node.inline => \A r \in Readers :
        /\ readers[r].outcome # "EIO"
        /\ readers[r].outcome = "eof" => node.size # NONE /\ readers[r].offset >= node.size

\* docs/concepts/missing-content.md, "Returning empty bytes would incorrectly claim
\* that the file is empty": only an empty file ends at its start.
EmptyMeansEmpty ==
    \A r \in Readers : readers[r].outcome = "eof" /\ readers[r].offset = 0 => node.size = 0
=============================================================================
