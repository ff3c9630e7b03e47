------------------------------ MODULE LineDecoder ------------------------------
(***************************************************************************)
(* The strict, bounded line decoder (decoding.py): a generator that reads  *)
(* a stream in chunks and yields one decoded line at a time.               *)
(*                                                                         *)
(* The loops for byte encodings and for UTF-16 differ in the width of a    *)
(* character unit and in the byte order, and are one set of actions here.  *)
(* A decoder of Python is modelled by the sequences it refuses and by the  *)
(* mark it drops; characters of two bytes, and the byte-order mark, stand  *)
(* for all that UTF-8 has beyond ASCII, as lone surrogates do in UTF-16.   *)
(* ASCII stands for the single-byte code pages.  Text is the bytes, or the *)
(* UTF-16 units, that it encodes.                                          *)
(***************************************************************************)
EXTENDS Integers, Sequences, FiniteSets, FiniteSetsExt, SequencesExt

CONSTANTS
    Inputs,           \* the pairs of an encoding and a stream
    max_line_bytes,
    READ_SIZE,        \* the most that one read() returns
    NONE

Byte     == 0 .. 255
Failures == [kind : {"encoding", "mark", "limit", "decode"}, offset : Int, line : Int]
Encoding == {"ascii", "utf-8", "utf-16", "utf-16-le", "utf-16-be", "unsupported"}

ASSUME DecoderAssumptions ==
    /\ Inputs \subseteq Encoding \X Seq(Byte)
    /\ max_line_bytes \in Nat /\ READ_SIZE \in Nat \ {0}
    /\ NONE \notin {"little", "big", "missing"} \cup Failures

VARIABLES
    encoding, stream,   \* the input
    pc,
    position,           \* the bytes of the stream read
    pending,            \* the bytes read and not yet yielded
    line_start, line_number,
    byte_order,
    search_from,        \* no newline begins before this offset of pending
    yielded,            \* history: the text of every line yielded
    error               \* the DecodeError raised

lineVars == <<pending, line_start, line_number, search_from, yielded>>
vars == <<encoding, stream, pc, position, byte_order, lineVars, error>>

LF == 10
CR == 13

Failure(kind, offset, line) == [kind |-> kind, offset |-> offset, line |-> line]

UTF16 == encoding \in {"utf-16", "utf-16-le", "utf-16-be"}
Width == IF UTF16 THEN 2 ELSE 1

\* A character as it stands in a stream of the byte order.
Unit(char, order) ==
    IF ~UTF16 THEN <<char>> ELSE IF order = "little" THEN <<char, 0>> ELSE <<0, char>>

\* The offsets from start on where a newline begins at a whole unit of s.
NewlinesIn(s, start, order) ==
    { i \in start .. Len(s) - Width :
        i % Width = 0 /\ SubSeq(s, i + 1, i + Width) = Unit(LF, order) }

Newlines == NewlinesIn(pending, search_from, byte_order)

-----------------------------------------------------------------------------
(* What the decoders of Python refuse and return.                          *)

BOM == <<239, 187, 191>>                \* U+FEFF in UTF-8

Continuation(b) == b \in 128 .. 191
LengthOf(b)     == IF b \in 192 .. 223 THEN 2 ELSE IF b \in 224 .. 239 THEN 3 ELSE 1

UnitAt(s, i, order) == IF order = "big" THEN 256 * s[i] + s[i + 1] ELSE s[i] + 256 * s[i + 1]

\* The positions of s that begin an invalid or incomplete sequence.
BadUTF8(s) ==
    { i \in DOMAIN s :
        \/ \E k \in 1 .. LengthOf(s[i]) - 1 :
             IF i + k \in DOMAIN s THEN ~Continuation(s[i + k]) ELSE TRUE
        \/ Continuation(s[i]) /\ ~\E j \in 1 .. i - 1 : j + LengthOf(s[j]) > i }

BadUTF16(s, order) ==
    LET whole    == { i \in 1 .. Len(s) - 1 : i % 2 = 1 }
        lead(i)  == i \in whole /\ UnitAt(s, i, order) \in 55296 .. 56319
        trail(i) == i \in whole /\ UnitAt(s, i, order) \in 56320 .. 57343
    IN  { i \in whole : (lead(i) /\ ~trail(i + 2)) \/ (trail(i) /\ ~lead(i - 2)) }
        \cup { i \in {Len(s)} : i % 2 = 1 }

Bad(s, order) ==
    CASE encoding = "ascii" -> { i \in DOMAIN s : s[i] > 127 }
      [] encoding = "utf-8" -> BadUTF8(s)
      [] OTHER -> BadUTF16(s, order)

\* utf-8-sig decodes the first line: what follows the mark.
Unmarked(content, number) ==
    IF encoding = "utf-8" /\ number = 1 /\ IsPrefix(BOM, content)
    THEN SubSeq(content, Len(BOM) + 1, Len(content)) ELSE content

\* utf-16 drops the mark from the first line, and utf-16-le and -be from none.
Text(s, number, order) ==
    LET units == [k \in 1 .. Len(s) \div 2 |-> UnitAt(s, 2 * k - 1, order)]
    IN  IF ~UTF16 THEN Unmarked(s, number)
        ELSE IF encoding = "utf-16" /\ number = 1 THEN Tail(units) ELSE units

-----------------------------------------------------------------------------

Init ==
    /\ \E input \in Inputs : encoding = input[1] /\ stream = input[2]
    /\ pc          = "open"
    /\ position    = 0
    /\ pending     = << >>
    /\ line_start  = 0
    /\ line_number = 1
    /\ byte_order  = CASE encoding = "utf-16-le" -> "little"
                       [] encoding = "utf-16-be" -> "big"
                       [] OTHER -> NONE
    /\ search_from = 0
    /\ yielded     = << >>
    /\ error       = NONE

Raise(failure) ==
    /\ pc' = "done"
    /\ error' = failure
    /\ UNCHANGED lineVars

\* An encoding that is unknown, or may buffer, is refused before any read.
Open ==
    /\ pc = "open"
    /\ IF encoding = "unsupported"
       THEN Raise(Failure("encoding", 0, 1))
       ELSE pc' = "read" /\ UNCHANGED <<lineVars, error>>
    /\ UNCHANGED <<encoding, stream, position, byte_order>>

\* _utf16_byte_order(), once there are two bytes to tell it from.
ByteOrder(s) ==
    IF byte_order # NONE \/ encoding # "utf-16" \/ Len(s) < 2 THEN byte_order
    ELSE IF IsPrefix(<<255, 254>>, s) THEN "little"
    ELSE IF IsPrefix(<<254, 255>>, s) THEN "big"
    ELSE "missing"

\* One read() of n bytes.
Read(n) ==
    /\ pc = "read" /\ position + n <= Len(stream)
    /\ position' = position + n
    /\ LET s     == pending \o SubSeq(stream, position + 1, position + n)
           order == ByteOrder(s)
       IN  IF order = "missing"
           THEN Raise(Failure("mark", 0, line_number)) /\ UNCHANGED byte_order
           ELSE /\ pending'    = s
                /\ byte_order' = order
                /\ pc' = IF UTF16 /\ order = NONE THEN "read" ELSE "split"
                /\ UNCHANGED <<line_start, line_number, search_from, yielded, error>>
    /\ UNCHANGED <<encoding, stream>>

TooLong == Failure("limit", line_start + max_line_bytes, line_number)

\* _check_limit and the decoder: the DecodeError for the line, or NONE.  The
\* decoder counts from where it starts, which is behind a mark that was dropped.
Verdict(content) ==
    LET bad == Bad(Unmarked(content, line_number), byte_order)
    IN  CASE Len(content) > max_line_bytes -> TooLong
          [] Len(content) <= max_line_bytes /\ bad # {} ->
               Failure("decode", line_start + Min(bad) - 1, line_number)
          [] OTHER -> NONE

Yield(content) == yielded' = Append(yielded, Text(content, line_number, byte_order))

WithoutCR(raw) ==
    IF IsSuffix(Unit(CR, byte_order), raw) THEN SubSeq(raw, 1, Len(raw) - Width) ELSE raw

\* The first line whose end has been read.
TakeLine ==
    /\ pc = "split"
    /\ \E at \in Newlines :
         /\ \A other \in Newlines : at <= other
         /\ LET content == WithoutCR(SubSeq(pending, 1, at))
            IN  IF Verdict(content) # NONE
                THEN Raise(Verdict(content))
                ELSE /\ Yield(content)
                     /\ pending'     = SubSeq(pending, at + Width + 1, Len(pending))
                     /\ line_start'  = line_start + at + Width
                     /\ line_number' = line_number + 1
                     /\ search_from' = 0
                     /\ UNCHANGED <<pc, error>>
    /\ UNCHANGED <<encoding, stream, position, byte_order>>

\* No line ends in what is pending, and its next newline begins at the offset or
\* behind it: it is kept for the next read, unless it is already too long.
Keep(content, offset) ==
    /\ pc = "split" /\ Newlines = {}
    /\ IF Len(content) > max_line_bytes
       THEN Raise(TooLong)
       ELSE /\ pc' = "read" /\ search_from' = offset
            /\ UNCHANGED <<pending, line_start, line_number, yielded, error>>
    /\ UNCHANGED <<encoding, stream, position, byte_order>>

WholeUnits == Len(pending) - (Len(pending) % Width)

\* Faults: half a unit is not searched again; a line has no limit until it ends.
KeepRestUnaligned == Keep(WithoutCR(SubSeq(pending, 1, WholeUnits)), Len(pending))
KeepRestUnlimited == Keep(<< >>, WholeUnits)

\* A carriage return at the end may belong to the newline and does not count.
KeepRest == Keep(WithoutCR(SubSeq(pending, 1, WholeUnits)), WholeUnits)

\* The stream is exhausted: what is pending is a line without a newline.
End ==
    /\ pc = "read" /\ position = Len(stream)
    /\ IF pending # << >> /\ Verdict(pending) # NONE
       THEN Raise(Verdict(pending))
       ELSE /\ pc' = "done"
            /\ IF pending = << >> THEN UNCHANGED yielded ELSE Yield(pending)
            /\ UNCHANGED <<pending, line_start, line_number, search_from, error>>
    /\ UNCHANGED <<encoding, stream, position, byte_order>>

Next == Open \/ (\E n \in 1 .. READ_SIZE : Read(n)) \/ TakeLine \/ KeepRest \/ End

Spec == Init /\ [][Next]_vars

-----------------------------------------------------------------------------
(* Properties.                                                             *)

TypeOK ==
    /\ encoding \in Encoding /\ stream \in Seq(Byte)
    /\ pc \in {"open", "read", "split", "done"}
    /\ position \in Nat /\ pending \in Seq(Byte)
    /\ line_start \in Nat /\ line_number \in Nat \ {0} /\ search_from \in Nat
    /\ byte_order \in {NONE, "little", "big"}

\* Memory stays bounded whatever the stream holds: between two reads no more is
\* kept than a line at the limit, the carriage return of its newline and half a
\* unit, and a read adds at most its size.
PendingBounded ==
    Len(pending) <= max_line_bytes + 3 + (IF pc \in {"open", "read"} THEN 0 ELSE READ_SIZE)

\* The whole stream, split at its newlines: where its lines begin and end, the
\* newlines aside.
Order == IF encoding # "utf-16" THEN byte_order
         ELSE IF IsPrefix(<<255, 254>>, stream) THEN "little" ELSE "big"

Breaks == NewlinesIn(stream, 0, Order)

Starts == { i \in {0} \cup { j + Width : j \in Breaks } : i < Len(stream) }

LineAt(i) ==
    LET ends == { j \in Breaks : j >= i }
        end  == IF ends = {} THEN Len(stream) ELSE Min(ends)
        raw  == SubSeq(stream, i + 1, end)
    IN  IF ends # {} /\ IsSuffix(Unit(CR, Order), raw)
        THEN SubSeq(raw, 1, Len(raw) - Width) ELSE raw

StartOf(k) == CHOOSE i \in Starts : Cardinality({ j \in Starts : j < i }) = k - 1

LinesOfStream == [k \in 1 .. Cardinality(Starts) |-> LineAt(StartOf(k))]

\* A stream of utf-16 is to tell its byte order.
Marked == \/ encoding # "utf-16" \/ Len(stream) < 2
          \/ \E mark \in {<<255, 254>>, <<254, 255>>} : IsPrefix(mark, stream)

\* What the decoder yields depends on the stream alone, however it is cut into
\* reads, also through a newline, a character, a unit or the mark: every line up
\* to the first one that is too long or cannot be decoded, and for that line an
\* error that tells its number.  The offset of an error in any but the first line
\* is that of the first byte of the stream that cannot be decoded.
DecodesStream ==
    pc = "done" /\ encoding # "unsupported" =>
        LET whole   == LinesOfStream
            long(k) == Len(whole[k]) > max_line_bytes
            bad     == { k \in DOMAIN whole :
                           long(k) \/ Bad(Unmarked(whole[k], k), Order) # {} }
            last    == IF error = NONE THEN Len(whole) ELSE error.line - 1
        IN  IF ~Marked THEN yielded = << >> /\ error = Failure("mark", 0, 1) ELSE
            /\ yielded = [k \in 1 .. last |-> Text(whole[k], k, Order)]
            /\ IF error = NONE THEN bad = {} ELSE
               /\ bad # {} /\ error.line = Min(bad)
               /\ error.kind = IF long(error.line) THEN "limit" ELSE "decode"
               /\ error.kind = "decode" /\ error.line > 1 =>
                    error.offset = Min(Bad(stream, Order)) - 1
=============================================================================
