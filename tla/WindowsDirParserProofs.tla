----------------------- MODULE WindowsDirParserProofs -----------------------
(***************************************************************************)
(* The parser for listings of any length, over any lines and any zone.     *)
(*                                                                         *)
(* What the parser keeps is a few flags and sums; what it is to answer for *)
(* is the whole listing.  Linked ties every entry that was yielded to its  *)
(* line and its header, Counted the sums to the entries, and ErrorsMeant   *)
(* the absence of errors to the shape of the lines read so far, and an     *)
(* error to there being no complete listing that starts with them.         *)
(***************************************************************************)
EXTENDS WindowsDirParser, FiniteSetTheorems, WellFoundedInduction, TLAPS

LEMMA LeastNumber == ASSUME NEW K \in SUBSET Nat, K # {} PROVE \E k \in K : \A m \in K : k <= m
<1>1. PICK k \in K : \A m \in K : <<m, k>> \notin OpToRel(<, Nat)
  BY NatLessThanWellFounded, WFMin
<1>2. \A m \in K : ~(m < k)
  BY <1>1 DEF OpToRel
<1>3. k \in Nat /\ \A m \in K : m \in Nat
  OBVIOUS
<1> QED
  BY <1>2, <1>3

-----------------------------------------------------------------------------
(* Zones.                                                                  *)

LEMMA ChangeTypes ==
    /\ FirstOffset \in Int /\ MinInstant \in Int /\ MaxInstant \in Int
    /\ IsFiniteSet(Changes) /\ \A c \in Changes : c.at \in Int /\ c.to \in Int
    /\ \A c, d \in Changes : c.at = d.at => c = d
    /\ \A c, d \in Changes : c.at < d.at => WallEnd(c) <= WallStart(d)
  BY ZoneAssumptions

\* Of some changes, one is the first and one the last.
FirstOf(c, C) == \A d \in C : c.at <= d.at
LastOf(c, C)  == \A d \in C : d.at <= c.at

LEMMA Extremes ==
    ASSUME NEW C \in SUBSET Changes, C # {}
    PROVE  (\E c \in C : FirstOf(c, C)) /\ \E c \in C : LastOf(c, C)
<1> DEFINE Bounded(D) == (\E c \in D : FirstOf(c, D)) /\ \E c \in D : LastOf(c, D)
           Sizes      == { n \in Nat : \E D \in SUBSET Changes :
                             D # {} /\ ~Bounded(D) /\ Cardinality(D) = n }
<1>1. \A D \in SUBSET Changes : IsFiniteSet(D) /\ Cardinality(D) \in Nat
  BY ChangeTypes, FS_Subset, FS_CardinalityType
<1>2. SUFFICES ASSUME Sizes # {} PROVE FALSE
  BY <1>1
<1>3. PICK n \in Sizes : \A m \in Sizes : n <= m
  BY <1>2, LeastNumber
<1>4. PICK D \in SUBSET Changes : D # {} /\ ~Bounded(D) /\ Cardinality(D) = n
  BY <1>3
<1>5. PICK x \in D : TRUE
  BY <1>4
<1>6. x.at \in Int /\ x \in Changes
  BY <1>5, ChangeTypes
<1>7. CASE D \ {x} = {}
  <2>1. D = {x}
    BY <1>5, <1>7
  <2>2. FirstOf(x, D) /\ LastOf(x, D)
    BY <1>6, <2>1 DEF FirstOf, LastOf
  <2>3. Bounded(D)
    BY <1>5, <2>2
  <2> QED
    BY <1>4, <2>3
<1>8. CASE D \ {x} # {}
  <2>1. Cardinality(D \ {x}) = n - 1 /\ n \in Nat /\ n - 1 \in Nat
    <3>1. IsFiniteSet(D) /\ Cardinality(D \ {x}) \in Nat /\ Cardinality(D) = n
      BY <1>1, <1>4
    <3>2. Cardinality(D \ {x}) = Cardinality(D) - 1
      BY <1>5, <3>1, FS_RemoveElement
    <3>3. n \in Nat
      OBVIOUS
    <3> HIDE DEF Sizes
    <3> QED BY <3>1, <3>2, <3>3
  <2>2. Bounded(D \ {x})
    BY <1>3, <1>8, <2>1
  <2>3. PICK f, l \in D \ {x} : FirstOf(f, D \ {x}) /\ LastOf(l, D \ {x})
    BY <2>2
  <2>4. \A d \in D : d.at \in Int
    BY ChangeTypes
  <2>5. FirstOf(f, D) \/ FirstOf(x, D)
    BY <1>5, <2>3, <2>4 DEF FirstOf
  <2>6. LastOf(l, D) \/ LastOf(x, D)
    BY <1>5, <2>3, <2>4 DEF LastOf
  <2> QED
    BY <1>4, <1>5, <2>3, <2>5, <2>6
<1> QED
  BY <1>7, <1>8

LEMMA LatestIs ==
    ASSUME NEW C \in SUBSET Changes
    PROVE  /\ Latest(C) \in {FirstOffset} \cup { c.to : c \in Changes }
           /\ \A c \in C : LastOf(c, C) => Latest(C) = c.to
<1>1. CASE C = {}
  BY <1>1 DEF Latest
<1>2. CASE C # {}
  <2> DEFINE l == CHOOSE c \in C : \A d \in C : d.at <= c.at
  <2>1. l \in C /\ LastOf(l, C)
    BY <1>2, Extremes DEF LastOf
  <2>2. Latest(C) = l.to
    BY <1>2 DEF Latest
  <2> HIDE DEF l
  <2>3. \A c \in C : LastOf(c, C) => c.at = l.at
    BY <2>1, ChangeTypes DEF LastOf
  <2> QED
    BY <2>1, <2>2, <2>3, ChangeTypes
<1> QED
  BY <1>1, <1>2

LEMMA OffsetTypes == \A C \in SUBSET Changes : Latest(C) \in Int
  BY LatestIs, ChangeTypes

\* The extremes of one or two numbers.
LEMMA PairBounds ==
    ASSUME NEW a \in Int, NEW b \in Int, NEW S \in SUBSET {a, b}, S # {}
    PROVE  /\ Max(S) \in S /\ \A x \in S : x <= Max(S)
           /\ Min(S) \in S /\ \A x \in S : Min(S) <= x
<1>1. (\E m \in S : \A x \in S : m >= x) /\ \E m \in S : \A x \in S : m <= x
  <2>1. S = {a} \/ S = {b} \/ (a \in S /\ b \in S)
    OBVIOUS
  <2>2. CASE \E x \in {a, b} : S = {x}
    BY <2>2
  <2>3. CASE a \in S /\ b \in S
    BY <2>3
  <2> QED
    BY <2>1, <2>2, <2>3
<1>2. Max(S) \in S /\ \A x \in S : Max(S) >= x
  BY <1>1 DEF Max
<1>3. Min(S) \in S /\ \A x \in S : Min(S) <= x
  BY <1>1 DEF Min
<1> QED
  BY <1>2, <1>3

LEMMA Walls ==
    ASSUME NEW c \in Changes
    PROVE  /\ WallStart(c) \in Int /\ WallEnd(c) \in Int /\ WallStart(c) <= WallEnd(c)
           /\ WallStart(c) <= c.at + c.to
           /\ c.at + OffsetBefore(c) <= WallEnd(c)
<1>1. OffsetBefore(c) \in Int /\ c.at \in Int /\ c.to \in Int
  BY OffsetTypes, ChangeTypes DEF OffsetBefore
<1> DEFINE pair == {c.to, OffsetBefore(c)}
<1>2. /\ Max(pair) \in pair /\ \A x \in pair : x <= Max(pair)
      /\ Min(pair) \in pair /\ \A x \in pair : Min(pair) <= x
  BY <1>1, PairBounds
<1> QED
  BY <1>1, <1>2 DEF WallStart, WallEnd

\* With one fold or the other localize() finds every instant that reads as a time.
THEOREM CandidatesAreReadings ==
    ASSUME NEW local \in Int
    PROVE  Candidates(local) = Readings(local)
<1> DEFINE offsets == {FirstOffset} \cup { c.to : c \in Changes }
           Before(instant) == { c \in Changes : c.at <= instant }
           Ended   == { c \in Changes : WallEnd(c) <= local }
           Started == { c \in Changes : WallStart(c) <= local }
<1>1. UtcOffset(local, 0) = Latest(Ended) /\ UtcOffset(local, 1) = Latest(Started)
  BY DEF UtcOffset
<1>2. UtcOffset(local, 0) \in offsets /\ UtcOffset(local, 1) \in offsets
  BY <1>1, LatestIs
<1>3. Candidates(local) \subseteq Readings(local)
  BY <1>2 DEF Candidates, Readings
<1>4. ASSUME NEW instant \in Readings(local) PROVE instant \in Candidates(local)
  <2> DEFINE E == Before(instant)
  <2>1. LocalTime(instant) = local /\ instant \in Int
    BY <1>4, ChangeTypes DEF Readings
  <2>f. ASSUME NEW fold \in {0, 1}, instant = local - UtcOffset(local, fold)
        PROVE  instant \in Candidates(local)
    BY <2>1, <2>f DEF Candidates
  <2>2. instant + Latest(E) = local /\ Latest(E) \in Int
    BY <2>1, OffsetTypes DEF LocalTime
  <2>3. Ended \subseteq E
    <3> SUFFICES ASSUME Ended \ E # {} PROVE FALSE
      OBVIOUS
    <3>1. PICK d \in Ended : d \notin E
      OBVIOUS
    <3>2. PICK n \in Changes \ E : FirstOf(n, Changes \ E)
      BY <3>1, Extremes
    <3>3. \A c \in Changes : c \in E <=> c.at < n.at
      BY <2>1, <3>2, ChangeTypes DEF FirstOf
    <3>4. OffsetBefore(n) = Latest(E)
      <4>1. { c \in Changes : c.at < n.at } = E
        BY <3>3
      <4> QED BY <4>1 DEF OffsetBefore
    <3>5. WallEnd(n) > local
      BY <2>1, <2>2, <3>2, <3>4, Walls, ChangeTypes
    <3>6. d = n \/ n.at < d.at
      BY <3>1, <3>2, ChangeTypes DEF FirstOf
    <3>7. WallEnd(n) <= WallEnd(d)
      BY <3>2, <3>6, Walls, ChangeTypes
    <3> QED
      BY <3>1, <3>2, <3>5, <3>7, Walls
  <2>4. CASE E = {}
    <3>1. Ended = E
      BY <2>3, <2>4
    <3>2. instant = local - UtcOffset(local, 0)
      BY <1>1, <2>1, <2>2, <3>1
    <3> QED BY <2>f, <3>2
  <2>5. CASE E # {}
    <3>1. PICK e \in E : LastOf(e, E)
      BY <2>5, Extremes
    <3>2. Latest(E) = e.to /\ e \in Changes /\ e.at <= instant
      BY <3>1, LatestIs
    <3>3. e \in Started
      BY <2>1, <2>2, <3>2, Walls, ChangeTypes
    <3>4. \A c \in E : c = e \/ WallEnd(c) <= WallStart(e)
      BY <3>1, <3>2, ChangeTypes DEF LastOf
    <3>5. E \subseteq Started /\ E \ {e} \subseteq Ended
      BY <3>2, <3>3, <3>4, Walls
    <3>6. CASE e \in Ended
      <4>1. Ended = E
        BY <2>3, <3>5, <3>6
      <4>2. instant = local - UtcOffset(local, 0)
        <5>1. UtcOffset(local, 0) = Latest(E)
          BY <1>1, <4>1, Zenon
        <5> QED BY <2>1, <2>2, <5>1
      <4> QED BY <2>f, <4>2
    <3>7. CASE e \notin Ended
      <4>1. \A d \in Changes \ E : e.at < d.at
        BY <2>1, <3>2, ChangeTypes
      <4>2. \A d \in Changes \ E : d \notin Started
        BY <3>2, <3>7, <4>1, Walls, ChangeTypes
      <4>3. Started = E
        BY <3>5, <4>2
      <4>4. instant = local - UtcOffset(local, 1)
        <5>1. UtcOffset(local, 1) = Latest(E)
          BY <1>1, <4>3, Zenon
        <5> QED BY <2>1, <2>2, <5>1
      <4> QED BY <2>f, <4>4
    <3> QED BY <3>6, <3>7
  <2> QED BY <2>4, <2>5
<1> QED BY <1>3, <1>4

\* What localize() does with a time that it does not overflow on.
LEMMA LocalizedAsRead ==
    ASSUME NEW local \in Int, ambiguous_time \in Ambiguous, ~Overflows(local)
    PROVE  /\ Readable(local) <=> ~Unlocalizable(local, ambiguous_time)
           /\ Readable(local) =>
                /\ Localize(local, ambiguous_time) \in Int
                /\ Localize(local, ambiguous_time) =
                     IF ambiguous_time = "later" THEN Max(Readings(local)) ELSE Min(Readings(local))
<1>1. Candidates(local) = Readings(local)
  BY CandidatesAreReadings
<1> DEFINE a == local - UtcOffset(local, 0)
           b == local - UtcOffset(local, 1)
<1>2. a \in Int /\ b \in Int /\ Candidates(local) \subseteq {a, b}
  <2>1. UtcOffset(local, 0) \in Int /\ UtcOffset(local, 1) \in Int
    BY OffsetTypes DEF UtcOffset
  <2> QED BY <2>1 DEF Candidates
<1>3. Readings(local) \subseteq MinInstant .. MaxInstant
  BY <1>1, <1>2 DEF Overflows, InRange
<1>4. Readable(local) <=> ~Unlocalizable(local, ambiguous_time)
  BY <1>1, <1>3 DEF Readable, Unlocalizable
<1> HIDE DEF a, b
<1>5. Readable(local) => Localize(local, ambiguous_time) \in Candidates(local)
  <2> SUFFICES ASSUME Readable(local) PROVE Localize(local, ambiguous_time) \in Candidates(local)
    OBVIOUS
  <2>1. Candidates(local) # {}
    BY <1>1 DEF Readable
  <2>2. Max(Candidates(local)) \in Candidates(local) /\ Min(Candidates(local)) \in Candidates(local)
    BY <1>2, <2>1, PairBounds
  <2> QED BY <2>2 DEF Localize
<1> QED BY <1>1, <1>2, <1>4, <1>5 DEF Localize

-----------------------------------------------------------------------------
(* Types.                                                                  *)

SectionType ==
    [open : BOOLEAN, line : Nat, mountable : BOOLEAN, files : Nat, size : Nat,
     file_summary : BOOLEAN, dir_summary : BOOLEAN, reported_files : Nat,
     reported_size : Nat, had_entries : BOOLEAN, file_not_found : BOOLEAN]

Yield == [kind : {"header", "directory", "file"}, size : Nat, line : Nat, section : Nat,
          instants : SUBSET Int]

LEMMA LineTypes ==
    ASSUME NEW line \in Lines
    PROVE  /\ line \in Line
           /\ line.type = "header" => line.mountable \in BOOLEAN
           /\ line.type = "file_summary" =>
                line.count \in Nat \cup {Invalid} /\ line.size \in Nat \cup {Invalid}
           /\ line.type = "dir_summary" => line.valid \in BOOLEAN
           /\ line.type = "entry" =>
                line.kind \in EntryKind /\ line.size \in Nat /\ line.local \in Int
<1>1. line \in Line
  BY ParserAssumptions
<1> QED
  BY <1>1 DEF Line

LEMMA CodesStep ==
    ASSUME errors \subseteq Codes, NEW line, (line \in Lines /\ ReadLine(line)) \/ End
    PROVE  errors' \subseteq Codes
<1>1. CloseErrors \subseteq Codes
  BY DEF CloseErrors, When, Codes
<1>2. CASE line \in Lines /\ ReadLine(line)
  <2> USE <1>1 DEF Report, When, Codes
  <2>1. CASE ReadBlank(line) \/ ReadLateHeader(line) \/ ReadUnknown(line)
    BY <2>1 DEF ReadBlank, ReadLateHeader, ReadUnknown
  <2>2. CASE ReadHeader(line) \/ ReadTotal(line)
    <3> HIDE DEF Codes
    <3>1. {"INVALID_SECTION_PATH", "DUPLICATE_AGGREGATE_FOOTER"} \subseteq Codes
      BY DEF Codes
    <3> QED BY <2>2, <3>1 DEF ReadHeader, ReadTotal
  <2>3. CASE ReadMisplacedSummary(line) \/ ReadSectionFileSummary(line)
    BY <2>3 DEF ReadMisplacedSummary, ReadSectionFileSummary
  <2>4. CASE ReadTotalFileSummary(line)
    BY <2>4 DEF ReadTotalFileSummary
  <2>5. CASE ReadTotalDirSummary(line) \/ ReadSectionDirSummary(line)
    BY <2>5 DEF ReadTotalDirSummary, ReadSectionDirSummary
  <2>6. CASE ReadFileNotFound(line)
    BY <2>6 DEF ReadFileNotFound
  <2>7. CASE ReadMisplacedEntry(line) \/ ReadEntry(line) \/ RaiseOverflow(line)
    BY <2>7 DEF ReadMisplacedEntry, ReadEntry, RaiseOverflow, Rejected
  <2> QED
    BY <1>2, <2>1, <2>2, <2>3, <2>4, <2>5, <2>6, <2>7 DEF ReadLine
<1>3. CASE End
  <2>1. {"DECODE_ERROR", "MISSING_SECTION", "MISSING_AGGREGATE_FOOTER",
         "MISSING_AGGREGATE_FILE_SUMMARY", "MISSING_AGGREGATE_DIR_SUMMARY"} \subseteq Codes
    BY DEF Codes
  <2> QED
    BY <1>1, <1>3, <2>1 DEF End, Report, When
<1> QED
  BY <1>2, <1>3

LEMMA NumberType == TypeOK => Number \in Nat /\ Len(lines) \in Nat
  BY DEF TypeOK, Number

\* The steps that read a line into the section, the totals or nothing.
LEMMA TypesOfLine ==
    ASSUME TypeOK, NEW line \in Lines, ReadLine(line)
    PROVE  /\ ambiguous_time' = ambiguous_time /\ lines' = Append(lines, line)
           /\ state' \in {"parsing", "raised"}
           /\ aggregate' \in [active : BOOLEAN, file_summary : BOOLEAN, dir_summary : BOOLEAN]
           /\ saw_section' \in BOOLEAN
           /\ section' \in SectionType
<1> USE DEF Read, Take
<1>1. section \in SectionType /\ Number \in Nat
  BY NumberType DEF TypeOK, SectionType
<1>2. aggregate \in [active : BOOLEAN, file_summary : BOOLEAN, dir_summary : BOOLEAN]
      /\ saw_section \in BOOLEAN
  BY DEF TypeOK
<1>3. CASE ReadBlank(line) \/ ReadLateHeader(line) \/ ReadUnknown(line) \/ ReadMisplacedSummary(line)
           \/ ReadMisplacedEntry(line)
  BY <1>1, <1>2, <1>3 DEF ReadBlank, ReadLateHeader, ReadUnknown, ReadMisplacedSummary,
     ReadMisplacedEntry
<1>4. CASE ReadHeader(line)
  <2>1. Section(Number, line.mountable) \in SectionType
    BY <1>1, <1>4, LineTypes DEF ReadHeader, Section, SectionType
  <2> QED
    BY <1>2, <1>4, <2>1 DEF ReadHeader
<1>5. CASE ReadTotal(line)
  BY <1>1, <1>2, <1>5 DEF ReadTotal, SectionType
<1>6. CASE ReadTotalFileSummary(line) \/ ReadTotalDirSummary(line)
  BY <1>1, <1>2, <1>6 DEF ReadTotalFileSummary, ReadTotalDirSummary
<1>7. CASE ReadSectionFileSummary(line)
  <2>1. line.count \in Nat /\ line.size \in Nat
    BY <1>7, LineTypes DEF ReadSectionFileSummary, ValidNumbers
  <2> QED
    BY <1>1, <1>2, <1>7, <2>1 DEF ReadSectionFileSummary, SectionType
<1>8. CASE ReadSectionDirSummary(line)
  BY <1>1, <1>2, <1>8 DEF ReadSectionDirSummary, SectionType
<1>9. CASE ReadFileNotFound(line)
  BY <1>1, <1>2, <1>9 DEF ReadFileNotFound, SectionType
<1>10. CASE ReadEntry(line)
  <2>1. IsFile(line) => line.size \in Nat
    BY LineTypes DEF IsFile
  <2>2. /\ section' = [section EXCEPT !.had_entries = TRUE,
                         !.files = section.files + (IF IsFile(line) THEN 1 ELSE 0),
                         !.size = section.size + (IF IsFile(line) THEN line.size ELSE 0)]
        /\ UNCHANGED <<ambiguous_time, aggregate, saw_section, state>>
        /\ lines' = Append(lines, line) /\ state = "parsing"
    BY <1>10 DEF ReadEntry, Count
  <2>3. section' \in SectionType
    <3> DEFINE files == section.files + (IF IsFile(line) THEN 1 ELSE 0)
               size  == section.size + (IF IsFile(line) THEN line.size ELSE 0)
    <3>1. section' = [section EXCEPT !.had_entries = TRUE, !.files = files, !.size = size]
      BY <2>2
    <3>2. files \in Nat /\ size \in Nat
      <4>1. section.files \in Nat /\ section.size \in Nat
        BY <1>1 DEF SectionType
      <4>2. (IF IsFile(line) THEN line.size ELSE 0) \in Nat
        BY <2>1
      <4> QED
        BY <4>1, <4>2
    <3> HIDE DEF files, size
    <3> QED
      BY <1>1, <3>1, <3>2 DEF SectionType
  <2> QED
    BY <1>2, <2>2, <2>3
<1>11. CASE RaiseOverflow(line)
  BY <1>1, <1>2, <1>11 DEF RaiseOverflow, SectionType
<1> QED
  BY <1>3, <1>4, <1>5, <1>6, <1>7, <1>8, <1>9, <1>10, <1>11 DEF ReadLine

\* The entry that a line is yielded as.
EntryOf(line, instants) ==
    [kind |-> line.kind, size |-> IF IsFile(line) THEN line.size ELSE 0, line |-> Number,
     section |-> section.line, instants |-> instants]

\* The instants an entry is yielded with.
InstantsOf(line) ==
    IF Unlocalizable(line.local, ambiguous_time) THEN {} ELSE {Localize(line.local, ambiguous_time)}

\* What a line adds to the entries and to the totals.
LEMMA YieldStep ==
    ASSUME TypeOK, NEW line \in Lines, ReadLine(line)
    PROVE  \/ /\ ReadHeader(line) /\ line.type = "header" /\ line.mountable
              /\ yielded' = Append(yielded, HeaderEntry)
              /\ UNCHANGED <<total_files, total_size>>
           \/ /\ ReadEntry(line) /\ line.type = "entry" /\ IsTaken(line) /\ TakesEntries
              /\ ~Overflows(line.local)
              /\ Unlocalizable(line.local, ambiguous_time) => "INVALID_LOCAL_TIME" \in errors'
              /\ yielded' = Append(yielded, EntryOf(line, InstantsOf(line)))
              /\ total_files' = total_files + (IF IsFile(line) THEN 1 ELSE 0)
              /\ total_size' = total_size + (IF IsFile(line) THEN line.size ELSE 0)
           \/ /\ ~(ReadEntry(line) /\ IsTaken(line))
              /\ ~(ReadHeader(line) /\ line.mountable)
              /\ UNCHANGED <<yielded, total_files, total_size>>
<1> USE DEF Read, Take
<1>1. CASE ReadBlank(line) \/ ReadLateHeader(line) \/ ReadUnknown(line) \/ ReadMisplacedSummary(line)
           \/ ReadMisplacedEntry(line)
  BY <1>1 DEF ReadBlank, ReadLateHeader, ReadUnknown, ReadMisplacedSummary, ReadMisplacedEntry,
     ReadEntry, ReadHeader
<1>2. CASE ReadTotal(line) \/ ReadTotalFileSummary(line) \/ ReadTotalDirSummary(line)
  BY <1>2 DEF ReadTotal, ReadTotalFileSummary, ReadTotalDirSummary, ReadEntry, ReadHeader
<1>3. CASE ReadSectionFileSummary(line) \/ ReadSectionDirSummary(line) \/ ReadFileNotFound(line)
  BY <1>3 DEF ReadSectionFileSummary, ReadSectionDirSummary, ReadFileNotFound, ReadEntry, ReadHeader
<1>4. CASE RaiseOverflow(line)
  BY <1>4 DEF RaiseOverflow, ReadEntry, ReadHeader
<1>5. CASE ReadHeader(line)
  BY <1>5 DEF ReadHeader, ReadEntry
<1>6. CASE ReadEntry(line)
  <2>1. total_files \in Nat /\ total_size \in Nat
    BY DEF TypeOK
  <2>2. CASE IsTaken(line)
    BY <1>6, <2>2 DEF ReadEntry, Count, Report, When, EntryOf, InstantsOf
  <2>3. CASE ~IsTaken(line)
    <3>1. ~IsFile(line)
      BY <2>3 DEF IsTaken, IsFile
    <3> QED
      BY <1>6, <2>1, <2>3, <3>1 DEF ReadEntry, ReadHeader, Count
  <2> QED
    BY <2>2, <2>3
<1> QED
  BY <1>1, <1>2, <1>3, <1>4, <1>5, <1>6 DEF ReadLine

LEMMA EntryTypes ==
    ASSUME TypeOK, NEW line \in Lines, IsTaken(line), ~Overflows(line.local)
    PROVE  EntryOf(line, InstantsOf(line)) \in Yield
<1>1. line.kind \in {"directory", "file"} /\ line.size \in Nat /\ line.local \in Int
  BY LineTypes DEF IsTaken
<1>2. Number \in Nat /\ section.line \in Nat
  BY NumberType DEF TypeOK
<1>3. InstantsOf(line) \in SUBSET Int
  BY <1>1, LocalizedAsRead DEF InstantsOf, TypeOK
<1> QED
  BY <1>1, <1>2, <1>3 DEF EntryOf, Yield

LEMMA TypeStep == TypeOK /\ [Next]_vars => TypeOK'
<1> SUFFICES ASSUME TypeOK, [Next]_vars PROVE TypeOK'
  OBVIOUS
<1>1. ASSUME NEW line \in Lines, ReadLine(line) PROVE TypeOK'
  <2>1. errors' \subseteq Codes
    BY <1>1, CodesStep DEF TypeOK
  <2>2. yielded' \in Seq(Yield) /\ total_files' \in Nat /\ total_size' \in Nat
    <3>1. yielded \in Seq(Yield) /\ total_files \in Nat /\ total_size \in Nat
      BY DEF TypeOK, Yield
    <3>2. HeaderEntry \in Yield
      BY NumberType DEF HeaderEntry, Yield
    <3>3. IsFile(line) => line.size \in Nat
      BY LineTypes DEF IsFile
    <3>4. CASE ReadEntry(line) /\ IsTaken(line) /\ ~Overflows(line.local)
      <4>1. EntryOf(line, InstantsOf(line)) \in Yield
        BY <3>4, EntryTypes
      <4>2. /\ yielded' = Append(yielded, EntryOf(line, InstantsOf(line)))
            /\ total_files' = total_files + (IF IsFile(line) THEN 1 ELSE 0)
            /\ total_size' = total_size + (IF IsFile(line) THEN line.size ELSE 0)
        BY <1>1, <3>4, YieldStep DEF ReadEntry, ReadHeader, Read, Take
      <4> QED
        BY <3>1, <3>3, <4>1, <4>2
    <3>5. CASE ~(ReadEntry(line) /\ IsTaken(line) /\ ~Overflows(line.local))
      BY <1>1, <3>1, <3>2, <3>5, YieldStep
    <3> QED
      BY <3>4, <3>5
  <2>3. lines' \in Seq(Lines)
    <3>1. lines \in Seq(Lines)
      BY DEF TypeOK
    <3>2. lines' = Append(lines, line)
      BY <1>1, TypesOfLine
    <3> QED
      BY <3>1, <3>2
  <2> QED
    BY <1>1, <2>1, <2>2, <2>3, TypesOfLine DEF TypeOK, SectionType, Yield
<1>2. CASE End
  <2>1. errors' \subseteq Codes
    BY <1>2, CodesStep DEF TypeOK
  <2> QED
    BY <1>2, <2>1 DEF End, TypeOK
<1>3. CASE UNCHANGED vars
  BY <1>3 DEF vars, TypeOK
<1> QED
  BY <1>1, <1>2, <1>3 DEF Next

LEMMA InitType == Init => TypeOK
<1>1. ASSUME Init PROVE NoSection \in SectionType
  BY DEF NoSection, Section, SectionType
<1>2. ASSUME Init PROVE TypeOK
  <2>1. aggregate \in [active : BOOLEAN, file_summary : BOOLEAN, dir_summary : BOOLEAN]
    BY <1>2 DEF Init
  <2>2. lines \in Seq(Lines) /\ yielded \in Seq(Yield)
    BY <1>2 DEF Init
  <2> QED
    BY <1>1, <1>2, <2>1, <2>2 DEF Init, TypeOK, SectionType, Yield
<1> QED
  BY <1>2

\* The state always has its types.
THEOREM ParserTyped == Spec => []TypeOK
<1>1. Init => TypeOK
  BY InitType
<1>2. TypeOK /\ [Next]_vars => TypeOK'
  BY TypeStep
<1> QED
  BY <1>1, <1>2, PTL DEF Spec

-----------------------------------------------------------------------------
(* Sums of sizes.                                                          *)


\* The sizes of s over I, laid side by side.
Cells(s, I) == { c \in I \X Nat : c[2] \in 1 .. s[c[1]].size }

\* The function that a sum over I folds.
SizesFold(s, I) ==
    CHOOSE fold : fold = [T \in SUBSET I |->
        IF T = {} THEN 0
        ELSE LET i == CHOOSE i \in T : TRUE IN s[i].size + fold[T \ {i}]]

LEMMA SizeIsFold == \A s, I : SizeOf(s, I) = SizesFold(s, I)[I]
  BY DEF SizeOf, MapThenSumSet, MapThenFoldSet, SizesFold

LEMMA CellsOfOneMore ==
    ASSUME NEW s, NEW I, NEW i \in I, s[i].size \in Nat, IsFiniteSet(Cells(s, I \ {i}))
    PROVE  /\ IsFiniteSet(Cells(s, I))
           /\ Cardinality(Cells(s, I)) = s[i].size + Cardinality(Cells(s, I \ {i}))
<1> DEFINE new == {i} \X (1 .. s[i].size)
           old == Cells(s, I \ {i})
<1>1. IsFiniteSet(new) /\ Cardinality(new) = s[i].size
  <2>1. IsFiniteSet(1 .. s[i].size) /\ Cardinality(1 .. s[i].size) = s[i].size
    <3> DEFINE n == s[i].size
    <3>1. n \in Int /\ 1 \in Int /\ (1 > n => n = 0)
      OBVIOUS
    <3> HIDE DEF n
    <3>2. IsFiniteSet(1 .. n) /\ Cardinality(1 .. n) = n
      BY <3>1, FS_Interval
    <3> QED BY <3>2 DEF n
  <2>2. IsFiniteSet({i}) /\ Cardinality({i}) = 1
    BY FS_Singleton
  <2>3. IsFiniteSet(new) /\ Cardinality(new) = Cardinality({i}) * Cardinality(1 .. s[i].size)
    BY <2>1, <2>2, FS_Product
  <2>4. \A n \in Nat : 1 * n = n
    OBVIOUS
  <2> QED BY <2>1, <2>2, <2>3, <2>4, Zenon
<1>2. Cells(s, I) = old \cup new /\ old \cap new = {}
  BY DEF Cells
<1>3. IsFiniteSet(old \cup new)
      /\ Cardinality(old \cup new) = Cardinality(old) + Cardinality(new) - Cardinality(old \cap new)
  BY <1>1, FS_Union
<1>4. Cardinality(old \cap new) = 0 /\ Cardinality(old) \in Nat
  BY <1>2, FS_EmptySet, FS_CardinalityType
<1> HIDE DEF old, new
<1> QED
  <2>1. Cardinality(old \cup new) = s[i].size + Cardinality(old)
    BY <1>1, <1>3, <1>4
  <2> QED BY <1>2, <1>3, <2>1 DEF old

\* By induction on its size, a set has a property that each set has if one of its
\* subsets with an element less has it.
LEMMA SmallestSubset ==
    ASSUME NEW I, IsFiniteSet(I), NEW Bad \in SUBSET SUBSET I, Bad # {}
    PROVE  \E T \in Bad : \A i \in T : T \ {i} \notin Bad
<1> DEFINE Sizes == { n \in Nat : \E T \in Bad : Cardinality(T) = n }
<1>1. \A T \in SUBSET I : IsFiniteSet(T) /\ Cardinality(T) \in Nat
  BY FS_Subset, FS_CardinalityType
<1>2. PICK n \in Sizes : \A m \in Sizes : n <= m
  <2>1. Sizes # {}
    BY <1>1
  <2> QED BY <2>1, LeastNumber
<1>3. PICK T \in Bad : Cardinality(T) = n
  BY <1>2
<1>4. ASSUME NEW i \in T, T \ {i} \in Bad PROVE FALSE
  <2>1. Cardinality(T \ {i}) = Cardinality(T) - 1
    BY <1>1, FS_RemoveElement
  <2>2. Cardinality(T \ {i}) \in Sizes
    BY <1>1, <1>4
  <2>3. n \in Nat /\ n <= Cardinality(T \ {i})
    BY <1>2, <2>2
  <2> HIDE DEF Sizes
  <2> QED BY <1>3, <2>1, <2>3
<1> QED BY <1>4

LEMMA SizeIsCells ==
    ASSUME NEW s, NEW I, IsFiniteSet(I), \A i \in I : s[i].size \in Nat
    PROVE  IsFiniteSet(Cells(s, I)) /\ SizeOf(s, I) = Cardinality(Cells(s, I))
<1>1. ASSUME NEW T \in SUBSET I PROVE IsFiniteSet(Cells(s, T))
  <2> DEFINE Bad == { S \in SUBSET I : ~IsFiniteSet(Cells(s, S)) }
  <2> SUFFICES ASSUME Bad # {} PROVE FALSE
    OBVIOUS
  <2>1. PICK S \in Bad : \A i \in S : S \ {i} \notin Bad
    BY SmallestSubset
  <2>2. CASE S = {}
    <3>1. Cells(s, S) = {}
      BY <2>2 DEF Cells
    <3> QED BY <2>1, <3>1, FS_EmptySet
  <2>3. CASE S # {}
    <3>1. PICK i \in S : TRUE
      BY <2>3
    <3>2. IsFiniteSet(Cells(s, S \ {i}))
      BY <2>1, <3>1
    <3> QED BY <2>1, <3>1, <3>2, CellsOfOneMore
  <2> QED BY <2>2, <2>3
<1> DEFINE Sum(fold) == fold = [T \in SUBSET I |->
               IF T = {} THEN 0
               ELSE LET i == CHOOSE i \in T : TRUE IN s[i].size + fold[T \ {i}]]
           cells == [T \in SUBSET I |-> Cardinality(Cells(s, T))]
<1>2. Sum(cells)
  <2>1. ASSUME NEW T \in SUBSET I, T # {}
        PROVE  LET i == CHOOSE i \in T : TRUE IN cells[T] = s[i].size + cells[T \ {i}]
    <3> DEFINE i == CHOOSE i \in T : TRUE
    <3>1. i \in T
      BY <2>1
    <3> HIDE DEF i
    <3>2. T \ {i} \in SUBSET I
      OBVIOUS
    <3>3. Cardinality(Cells(s, T)) = s[i].size + Cardinality(Cells(s, T \ {i}))
      <4>1. IsFiniteSet(Cells(s, T \ {i}))
        BY <1>1, <3>2
      <4>2. s[i].size \in Nat
        BY <3>1
      <4> HIDE DEF cells, Sum
      <4> QED BY <3>1, <4>1, <4>2, CellsOfOneMore
    <3>4. cells[T] = s[i].size + cells[T \ {i}]
      BY <3>2, <3>3
    <3> QED BY <3>4 DEF i
  <2>2. cells[{}] = 0
    <3>1. Cells(s, {}) = {}
      BY DEF Cells
    <3> QED BY <3>1, FS_EmptySet
  <2>3. \A T \in SUBSET I : cells[T] = IF T = {} THEN 0
               ELSE LET i == CHOOSE i \in T : TRUE IN s[i].size + cells[T \ {i}]
    BY <2>1, <2>2
  <2>4. cells = [T \in SUBSET I |-> cells[T]]
    OBVIOUS
  <2> HIDE DEF cells
  <2> QED BY <2>3, <2>4
<1>3. Sum(SizesFold(s, I))
  BY <1>2 DEF SizesFold
<1> HIDE DEF cells
<1>4. \A T \in SUBSET I : SizesFold(s, I)[T] = cells[T]
  <2> DEFINE Bad == { T \in SUBSET I : SizesFold(s, I)[T] # cells[T] }
  <2> SUFFICES ASSUME Bad # {} PROVE FALSE
    OBVIOUS
  <2>1. PICK T \in Bad : \A i \in T : T \ {i} \notin Bad
    BY SmallestSubset
  <2> DEFINE i == CHOOSE i \in T : TRUE
  <2>2. T # {} => i \in T
    OBVIOUS
  <2> DEFINE Rest(fold) == IF T = {} THEN 0 ELSE s[i].size + fold[T \ {i}]
  <2>3. SizesFold(s, I)[T] = Rest(SizesFold(s, I)) /\ cells[T] = Rest(cells)
    BY <1>2, <1>3
  <2> HIDE DEF i
  <2>4. T # {} => SizesFold(s, I)[T \ {i}] = cells[T \ {i}]
    BY <2>1, <2>2
  <2> QED BY <2>1, <2>3, <2>4
<1> QED BY <1>1, <1>4, SizeIsFold DEF cells

LEMMA CellsWithAnother ==
    ASSUME NEW s, NEW I, NEW i, i \notin I, s[i].size \in Nat, IsFiniteSet(Cells(s, I))
    PROVE  Cardinality(Cells(s, I \cup {i})) = s[i].size + Cardinality(Cells(s, I))
<1>1. PICK J : J = I \cup {i}
  OBVIOUS
<1>2. i \in J /\ J \ {i} = I
  BY <1>1
<1>3. IsFiniteSet(Cells(s, J \ {i}))
  BY <1>2
<1>4. Cardinality(Cells(s, J)) = s[i].size + Cardinality(Cells(s, J \ {i}))
  BY <1>2, <1>3, CellsOfOneMore
<1> QED BY <1>1, <1>2, <1>4

\* The sizes of nothing, of one number more, and of the same entries elsewhere.
LEMMA Sizes ==
    ASSUME NEW s, NEW I, IsFiniteSet(I), \A i \in I : s[i].size \in Nat
    PROVE  /\ SizeOf(s, I) \in Nat
           /\ I = {} => SizeOf(s, I) = 0
           /\ \A i : i \notin I /\ s[i].size \in Nat =>
                SizeOf(s, I \cup {i}) = s[i].size + SizeOf(s, I)
           /\ \A r : (\A i \in I : r[i].size = s[i].size) => SizeOf(r, I) = SizeOf(s, I)
<1>1. IsFiniteSet(Cells(s, I)) /\ SizeOf(s, I) = Cardinality(Cells(s, I))
  BY SizeIsCells
<1>2. SizeOf(s, I) \in Nat
  BY <1>1, FS_CardinalityType
<1>3. I = {} => SizeOf(s, I) = 0
  <2>1. I = {} => Cells(s, I) = {}
    BY DEF Cells
  <2> QED BY <1>1, <2>1, FS_EmptySet
<1>4. ASSUME NEW i, i \notin I, s[i].size \in Nat
      PROVE  SizeOf(s, I \cup {i}) = s[i].size + SizeOf(s, I)
  <2>1. IsFiniteSet(I \cup {i}) /\ (I \cup {i}) \ {i} = I
    BY <1>4, FS_AddElement
  <2>2. Cardinality(Cells(s, I \cup {i})) = s[i].size + Cardinality(Cells(s, I))
    BY <1>1, <1>4, CellsWithAnother
  <2>3. SizeOf(s, I \cup {i}) = Cardinality(Cells(s, I \cup {i}))
    BY <1>4, <2>1, SizeIsCells
  <2> QED BY <1>1, <2>2, <2>3
<1>5. ASSUME NEW r, \A i \in I : r[i].size = s[i].size PROVE SizeOf(r, I) = SizeOf(s, I)
  <2>1. Cells(r, I) = Cells(s, I)
    BY <1>5 DEF Cells
  <2>2. SizeOf(r, I) = Cardinality(Cells(r, I))
    BY <1>5, SizeIsCells
  <2> QED BY <1>1, <2>1, <2>2
<1> QED BY <1>2, <1>3, <1>4, <1>5

-----------------------------------------------------------------------------
(* What is yielded.                                                        *)

\* What a line does to the section.
LEMMA SectionStep ==
    ASSUME TypeOK, NEW line \in Lines, ReadLine(line)
    PROVE  \/ /\ ReadHeader(line) /\ line.type = "header" /\ ~aggregate.active
              /\ section' = Section(Number, line.mountable) /\ UNCHANGED aggregate
           \/ /\ ~ReadHeader(line) /\ (line.type = "header" => aggregate.active)
              /\ section'.line = section.line /\ section'.mountable = section.mountable
              /\ \/ section'.open = section.open /\ aggregate'.active = aggregate.active
                 \/ section'.open = FALSE
              /\ section'.files = section.files
                   + (IF ReadEntry(line) /\ IsFile(line) THEN 1 ELSE 0)
              /\ section'.size = section.size
                   + (IF ReadEntry(line) /\ IsFile(line) THEN line.size ELSE 0)
<1> USE DEF Read, Take
<1>1. section \in SectionType /\ section.files \in Nat /\ section.size \in Nat
  BY DEF TypeOK, SectionType
<1>2. aggregate \in [active : BOOLEAN, file_summary : BOOLEAN, dir_summary : BOOLEAN]
  BY DEF TypeOK
<1>n. section.files + 0 = section.files /\ section.size + 0 = section.size
  BY <1>1
<1>3. CASE ReadHeader(line)
  BY <1>3 DEF ReadHeader
<1>4. CASE ReadEntry(line)
  <2>1. /\ section' = [section EXCEPT !.had_entries = TRUE,
                         !.files = section.files + (IF IsFile(line) THEN 1 ELSE 0),
                         !.size = section.size + (IF IsFile(line) THEN line.size ELSE 0)]
        /\ UNCHANGED aggregate /\ line.type = "entry"
    BY <1>4 DEF ReadEntry, Count
  <2>2. ~ReadHeader(line)
    BY <2>1 DEF ReadHeader
  <2>3. section'.files = section.files + (IF IsFile(line) THEN 1 ELSE 0)
        /\ section'.size = section.size + (IF IsFile(line) THEN line.size ELSE 0)
    BY <1>1, <2>1, Zenon DEF SectionType
  <2>4. section'.line = section.line /\ section'.mountable = section.mountable
        /\ section'.open = section.open
    BY <1>1, <2>1 DEF SectionType
  <2> QED
    BY <1>4, <2>1, <2>2, <2>3, <2>4
<1>5. CASE ReadBlank(line) \/ ReadLateHeader(line) \/ ReadUnknown(line) \/ ReadMisplacedSummary(line)
           \/ ReadMisplacedEntry(line)
  <2>1. ~ReadHeader(line) /\ ~ReadEntry(line) /\ UNCHANGED <<section, aggregate>>
        /\ (line.type = "header" => aggregate.active)
    BY <1>5 DEF ReadBlank, ReadLateHeader, ReadUnknown, ReadMisplacedSummary, ReadMisplacedEntry,
       ReadHeader, ReadEntry
  <2> QED
    BY <1>n, <2>1
<1>6. CASE ReadTotal(line) \/ ReadTotalFileSummary(line) \/ ReadTotalDirSummary(line)
  <2>1. ~ReadHeader(line) /\ ~ReadEntry(line) /\ line.type # "header"
    BY <1>6 DEF ReadTotal, ReadTotalFileSummary, ReadTotalDirSummary, ReadHeader, ReadEntry
  <2> QED
    BY <1>1, <1>2, <1>6, <1>n, <2>1
       DEF ReadTotal, ReadTotalFileSummary, ReadTotalDirSummary, SectionType
<1>7. CASE ReadSectionFileSummary(line) \/ ReadSectionDirSummary(line) \/ ReadFileNotFound(line)
           \/ RaiseOverflow(line)
  <2>1. ~ReadHeader(line) /\ ~ReadEntry(line) /\ line.type # "header" /\ UNCHANGED aggregate
    BY <1>7 DEF ReadSectionFileSummary, ReadSectionDirSummary, ReadFileNotFound, RaiseOverflow,
       ReadHeader, ReadEntry
  <2>2. /\ section'.line = section.line /\ section'.mountable = section.mountable
        /\ section'.open = section.open
        /\ section'.files = section.files /\ section'.size = section.size
    BY <1>1, <1>7 DEF ReadSectionFileSummary, ReadSectionDirSummary, ReadFileNotFound,
       RaiseOverflow, SectionType
  <2> QED
    BY <1>n, <2>1, <2>2
<1> QED
  BY <1>3, <1>4, <1>5, <1>6, <1>7 DEF ReadLine

\* The header h is the latest one at the line i.
IsLatest(s, h, i) == h \in Headers(s) /\ h <= i /\ \A g \in Headers(s) : g <= i => g <= h

\* An entry is what its line says.
IsOf(entry, line) ==
    /\ line.type = "header" \/ IsTaken(line)
    /\ entry.kind = IF line.type = "header" THEN "header" ELSE line.kind
    /\ entry.size = IF IsFile(line) THEN line.size ELSE 0

YieldsLinked ==
    \A k \in DOMAIN yielded :
        /\ yielded[k].line \in DOMAIN lines /\ IsOf(yielded[k], lines[yielded[k].line])
        /\ IsLatest(lines, yielded[k].section, yielded[k].line)
        /\ \A j \in DOMAIN yielded : j < k => yielded[j].line < yielded[k].line

SectionLinked ==
    /\ section.line <= Len(lines)
    /\ section.open => /\ ~aggregate.active /\ IsLatest(lines, section.line, Len(lines))
                       /\ section.mountable = lines[section.line].mountable

AllYielded ==
    errors = {} /\ state # "raised" =>
        \A i \in DOMAIN lines : lines[i].type = "header" \/ IsTaken(lines[i]) =>
            \E k \in DOMAIN yielded : yielded[k].line = i

LEMMA LatestInLonger ==
    ASSUME NEW s \in Seq(Lines), NEW line \in Lines
    PROVE  /\ Len(Append(s, line)) = Len(s) + 1 /\ Append(s, line)[Len(s) + 1] = line
           /\ \A i \in DOMAIN s : Append(s, line)[i] = s[i]
           /\ \A h : \A i \in Nat : i <= Len(s) =>
                (IsLatest(Append(s, line), h, i) <=> IsLatest(s, h, i))
           /\ line.type # "header" => \A h : IsLatest(s, h, Len(s)) =>
                IsLatest(Append(s, line), h, Len(s) + 1)
           /\ line.type = "header" => IsLatest(Append(s, line), Len(s) + 1, Len(s) + 1)
<1> DEFINE r == Append(s, line)
<1>1. /\ r \in Seq(Lines) /\ Len(r) = Len(s) + 1 /\ r[Len(s) + 1] = line /\ Len(s) \in Nat
      /\ DOMAIN s = 1 .. Len(s) /\ DOMAIN r = 1 .. Len(s) + 1
      /\ \A i \in DOMAIN s : r[i] = s[i]
  OBVIOUS
<1> HIDE DEF r
<1>2. \A h : h \in Headers(r) <=>
        h \in Headers(s) \/ (h = Len(s) + 1 /\ line.type = "header")
  BY <1>1 DEF Headers
<1>3. \A h \in Headers(s) : h \in Nat /\ h <= Len(s)
  BY <1>1 DEF Headers
<1>4. \A h : \A i \in Nat : i <= Len(s) => (IsLatest(r, h, i) <=> IsLatest(s, h, i))
  BY <1>1, <1>2, <1>3 DEF IsLatest
<1>5. line.type # "header" => \A h : IsLatest(s, h, Len(s)) => IsLatest(r, h, Len(s) + 1)
  BY <1>1, <1>2, <1>3 DEF IsLatest
<1>6. line.type = "header" => IsLatest(r, Len(s) + 1, Len(s) + 1)
  BY <1>1, <1>2, <1>3 DEF IsLatest
<1> QED
  BY <1>1, <1>4, <1>5, <1>6 DEF r

LEMMA YieldedTypes ==
    TypeOK => /\ yielded \in Seq(Yield) /\ lines \in Seq(Lines) /\ section \in SectionType
              /\ Len(lines) \in Nat /\ Number = Len(lines) + 1 /\ section.line \in Nat
              /\ \A k \in DOMAIN yielded : yielded[k] \in Yield /\ k \in Nat
              /\ \A i \in DOMAIN lines : lines[i] \in Lines /\ i \in Nat /\ i <= Len(lines)
<1> SUFFICES ASSUME TypeOK
             PROVE  /\ yielded \in Seq(Yield) /\ lines \in Seq(Lines) /\ section \in SectionType
                    /\ Len(lines) \in Nat /\ Number = Len(lines) + 1 /\ section.line \in Nat
                    /\ \A k \in DOMAIN yielded : yielded[k] \in Yield /\ k \in Nat
                    /\ \A i \in DOMAIN lines : lines[i] \in Lines /\ i \in Nat /\ i <= Len(lines)
  OBVIOUS
<1>1. yielded \in Seq(Yield) /\ lines \in Seq(Lines) /\ section \in SectionType
  BY DEF TypeOK, Yield, SectionType
<1>2. Len(lines) \in Nat /\ section.line \in Nat
  BY <1>1 DEF SectionType
<1> QED
  BY <1>1, <1>2 DEF Number

LEMMA ErrorsGrow ==
    ASSUME NEW line, ReadLine(line)
    PROVE  errors \subseteq errors' /\ state = "parsing" /\ state' \in {"parsing", "raised"}
<1> USE DEF Read, Take, Report
<1>1. CASE \/ ReadBlank(line) \/ ReadLateHeader(line) \/ ReadUnknown(line)
           \/ ReadMisplacedSummary(line) \/ ReadMisplacedEntry(line)
  BY <1>1 DEF ReadBlank, ReadLateHeader, ReadUnknown, ReadMisplacedSummary, ReadMisplacedEntry
<1>2. CASE ReadHeader(line) \/ ReadTotal(line) \/ ReadEntry(line) \/ RaiseOverflow(line)
  BY <1>2 DEF ReadHeader, ReadTotal, ReadEntry, RaiseOverflow
<1>3. CASE \/ ReadTotalFileSummary(line) \/ ReadTotalDirSummary(line)
           \/ ReadSectionFileSummary(line) \/ ReadSectionDirSummary(line)
  BY <1>3 DEF ReadTotalFileSummary, ReadTotalDirSummary, ReadSectionFileSummary,
     ReadSectionDirSummary
<1>4. CASE ReadFileNotFound(line)
  BY <1>4 DEF ReadFileNotFound
<1> QED
  BY <1>1, <1>2, <1>3, <1>4 DEF ReadLine

\* A header or an entry is yielded, unless there is an error or an exception.
LEMMA NothingSkipped ==
    ASSUME NEW line, ReadLine(line), line.type = "header" \/ IsTaken(line), errors' = {},
           state' # "raised"
    PROVE  (ReadHeader(line) /\ line.mountable) \/ (ReadEntry(line) /\ IsTaken(line))
<1> USE DEF Read, Take, Report
<1>1. CASE ReadLateHeader(line) \/ ReadUnknown(line) \/ ReadMisplacedEntry(line)
  BY <1>1 DEF ReadLateHeader, ReadUnknown, ReadMisplacedEntry
<1>2. CASE ReadHeader(line)
  BY <1>2 DEF ReadHeader, When, IsTaken
<1>3. CASE RaiseOverflow(line)
  BY <1>3 DEF RaiseOverflow
<1>4. CASE ReadBlank(line) \/ ReadTotal(line) \/ ReadMisplacedSummary(line) \/ ReadFileNotFound(line)
  BY <1>4 DEF ReadBlank, ReadTotal, ReadMisplacedSummary, ReadFileNotFound, IsTaken
<1>5. CASE \/ ReadTotalFileSummary(line) \/ ReadTotalDirSummary(line)
           \/ ReadSectionFileSummary(line) \/ ReadSectionDirSummary(line)
  BY <1>5 DEF ReadTotalFileSummary, ReadTotalDirSummary, ReadSectionFileSummary,
     ReadSectionDirSummary, IsTaken
<1>6. CASE ReadEntry(line)
  BY <1>6 DEF ReadEntry, IsTaken
<1> QED
  BY <1>1, <1>2, <1>3, <1>4, <1>5, <1>6 DEF ReadLine

LEMMA LinkStep ==
    ASSUME TypeOK, YieldsLinked, SectionLinked, AllYielded, NEW line \in Lines, ReadLine(line)
    PROVE  YieldsLinked' /\ SectionLinked' /\ AllYielded'
<1>1. lines' = Append(lines, line) /\ state = "parsing"
  BY TypesOfLine, ErrorsGrow
<1>e. errors' = {} => errors = {}
  BY ErrorsGrow
<1>t. yielded \in Seq(Yield) /\ lines \in Seq(Lines) /\ Len(lines) \in Nat
      /\ Number = Len(lines) + 1
  BY YieldedTypes
<1>2. /\ Len(lines') = Number /\ lines'[Number] = line /\ DOMAIN lines' = 1 .. Number
      /\ DOMAIN lines = 1 .. Len(lines)
      /\ \A i \in DOMAIN lines : lines'[i] = lines[i]
      /\ \A h : \A i \in DOMAIN lines : IsLatest(lines', h, i) <=> IsLatest(lines, h, i)
      /\ line.type # "header" => \A h : IsLatest(lines, h, Len(lines)) => IsLatest(lines', h, Number)
      /\ line.type = "header" => IsLatest(lines', Number, Number)
  BY <1>1, <1>t, LatestInLonger
<1>3. SectionLinked'
  <2>1. CASE ReadHeader(line)
    <3>1. section' = Section(Number, line.mountable) /\ aggregate' = aggregate
          /\ ~aggregate.active /\ line.type = "header"
      BY <2>1, SectionStep
    <3> QED
      BY <1>t, <1>2, <3>1 DEF SectionLinked, Section
  <2>2. CASE ~ReadHeader(line)
    <3>1. /\ line.type = "header" => aggregate.active
          /\ section'.line = section.line /\ section'.mountable = section.mountable
          /\ \/ section'.open = section.open /\ aggregate'.active = aggregate.active
             \/ section'.open = FALSE
      BY <2>2, SectionStep
    <3>2. section.line \in Nat /\ section.line <= Len(lines)
          /\ (section.open => section.line \in DOMAIN lines)
      BY YieldedTypes DEF SectionLinked, IsLatest, Headers
    <3> QED
      BY <1>t, <1>2, <3>1, <3>2 DEF SectionLinked
  <2> QED
    BY <2>1, <2>2
<1>4. ASSUME NEW entry \in Yield, yielded' = Append(yielded, entry), entry.line = Number,
             IsOf(entry, line), IsLatest(lines', entry.section, Number)
      PROVE  YieldsLinked' /\ AllYielded'
  <2>1. /\ DOMAIN yielded' = 1 .. Len(yielded) + 1 /\ DOMAIN yielded = 1 .. Len(yielded)
        /\ Len(yielded) \in Nat /\ yielded'[Len(yielded) + 1] = entry
        /\ \A k \in DOMAIN yielded : yielded'[k] = yielded[k]
    BY <1>4, <1>t
  <2>2. \A k \in DOMAIN yielded : yielded[k].line \in Nat /\ yielded[k].line < Number
    BY <1>t, <1>2 DEF YieldsLinked
  <2>3. ASSUME NEW k \in DOMAIN yielded'
        PROVE  /\ yielded'[k].line \in DOMAIN lines' /\ IsOf(yielded'[k], lines'[yielded'[k].line])
               /\ IsLatest(lines', yielded'[k].section, yielded'[k].line)
               /\ \A j \in DOMAIN yielded' : j < k => yielded'[j].line < yielded'[k].line
    <3>1. CASE k = Len(yielded) + 1
      BY <1>2, <1>4, <1>t, <2>1, <2>2, <3>1
    <3>2. CASE k \in DOMAIN yielded
      <4>1. yielded'[k] = yielded[k] /\ yielded[k].line \in DOMAIN lines
            /\ lines'[yielded[k].line] = lines[yielded[k].line]
            /\ (\A j \in DOMAIN yielded' : j < k => j \in DOMAIN yielded)
        BY <1>2, <2>1, <3>2 DEF YieldsLinked
      <4>2. \A j \in DOMAIN yielded' : j < k => yielded'[j].line < yielded'[k].line
        BY <2>1, <3>2, <4>1 DEF YieldsLinked
      <4>3. IsOf(yielded[k], lines[yielded[k].line])
            /\ IsLatest(lines', yielded[k].section, yielded[k].line)
        BY <1>2, <3>2, <4>1 DEF YieldsLinked
      <4>4. yielded[k].line \in DOMAIN lines'
        BY <1>2, <1>t, <4>1
      <4> QED
        BY <4>1, <4>2, <4>3, <4>4
    <3> QED
      BY <2>1, <3>1, <3>2
  <2>4. YieldsLinked'
    BY <2>3 DEF YieldsLinked
  <2>5. ASSUME errors' = {}, NEW i \in DOMAIN lines', lines'[i].type = "header" \/ IsTaken(lines'[i])
        PROVE  \E k \in DOMAIN yielded' : yielded'[k].line = i
    <3>1. CASE i = Number
      BY <1>4, <2>1, <3>1
    <3>2. CASE i # Number
      <4>1. i \in DOMAIN lines /\ lines'[i] = lines[i]
        BY <1>2, <1>t, <3>2
      <4>2. PICK k \in DOMAIN yielded : yielded[k].line = i
        BY <1>1, <1>e, <2>5, <4>1 DEF AllYielded
      <4> QED
        BY <2>1, <4>2
    <3> QED
      BY <3>1, <3>2
  <2> QED
    BY <2>4, <2>5 DEF AllYielded
<1>5. CASE yielded' = yielded /\ (errors' = {} /\ state' # "raised" =>
                                  line.type # "header" /\ ~IsTaken(line))
  <2>1. YieldsLinked'
    BY <1>2, <1>5, <1>t DEF YieldsLinked
  <2>2. ASSUME errors' = {}, state' # "raised",
               NEW i \in DOMAIN lines', lines'[i].type = "header" \/ IsTaken(lines'[i])
        PROVE  \E k \in DOMAIN yielded' : yielded'[k].line = i
    <3>1. i # Number
      BY <1>2, <1>5, <2>2
    <3>2. i \in DOMAIN lines /\ lines'[i] = lines[i]
      BY <1>2, <1>t, <3>1
    <3> QED
      BY <1>1, <1>5, <1>e, <2>2, <3>2 DEF AllYielded
  <2> QED
    BY <1>3, <2>1, <2>2 DEF AllYielded
<1>6. CASE ReadHeader(line) /\ line.mountable
  <2>1. yielded' = Append(yielded, HeaderEntry) /\ line.type = "header"
    BY <1>6, SectionStep DEF ReadHeader
  <2>2. HeaderEntry \in Yield /\ HeaderEntry.line = Number /\ HeaderEntry.section = Number
        /\ HeaderEntry.kind = "header" /\ HeaderEntry.size = 0
    BY <1>t DEF HeaderEntry, Yield
  <2>3. IsOf(HeaderEntry, line)
    BY <2>1, <2>2 DEF IsOf, IsFile
  <2> QED
    BY <1>2, <1>3, <1>4, <2>1, <2>2, <2>3
<1>7. CASE ReadEntry(line) /\ IsTaken(line)
  <2> DEFINE entry == EntryOf(line, InstantsOf(line))
  <2>1. yielded' = Append(yielded, entry) /\ line.type = "entry" /\ TakesEntries
        /\ ~Overflows(line.local)
    BY <1>7, YieldStep DEF ReadEntry, ReadHeader, Read, Take
  <2>2. entry \in Yield
    BY <1>7, <2>1, EntryTypes
  <2>3. /\ entry.line = Number /\ entry.section = section.line /\ entry.kind = line.kind
        /\ entry.size = IF IsFile(line) THEN line.size ELSE 0
    BY DEF EntryOf
  <2> HIDE DEF entry
  <2>4. IsOf(entry, line)
    BY <1>7, <2>1, <2>3 DEF IsOf
  <2>5. IsLatest(lines', section.line, Number)
    BY <1>2, <2>1 DEF SectionLinked, TakesEntries
  <2> QED
    BY <1>3, <1>4, <2>1, <2>2, <2>3, <2>4, <2>5
<1>8. CASE ~(ReadHeader(line) /\ line.mountable) /\ ~(ReadEntry(line) /\ IsTaken(line))
  <2>1. yielded' = yielded
    BY <1>8, YieldStep
  <2>2. errors' = {} /\ state' # "raised" => line.type # "header" /\ ~IsTaken(line)
    BY <1>8, NothingSkipped
  <2> QED
    BY <1>3, <1>5, <2>1, <2>2
<1> QED
  BY <1>6, <1>7, <1>8

LEMMA LinkEnd ==
    ASSUME TypeOK, YieldsLinked, SectionLinked, AllYielded, End
    PROVE  YieldsLinked' /\ SectionLinked' /\ AllYielded'
<1>1. lines' = lines /\ yielded' = yielded /\ errors \subseteq errors' /\ state = "parsing"
  BY DEF End, Report
<1>2. section'.line = section.line /\ section'.open = FALSE
  BY DEF End, TypeOK
<1> QED
  BY <1>1, <1>2 DEF YieldsLinked, SectionLinked, AllYielded

LEMMA Linked == Spec => [](YieldsLinked /\ SectionLinked /\ AllYielded)
<1> DEFINE Inv == YieldsLinked /\ SectionLinked /\ AllYielded
<1>1. Init => Inv
  BY DEF Init, YieldsLinked, SectionLinked, AllYielded, NoSection, Section
<1>2. TypeOK /\ Inv /\ [Next]_vars => Inv'
  <2> SUFFICES ASSUME TypeOK, Inv, [Next]_vars PROVE Inv'
    OBVIOUS
  <2>1. ASSUME NEW line \in Lines, ReadLine(line) PROVE Inv'
    BY <2>1, LinkStep
  <2>2. CASE End
    BY <2>2, LinkEnd
  <2>3. CASE UNCHANGED vars
    BY <2>3 DEF vars, YieldsLinked, SectionLinked, AllYielded
  <2> QED
    BY <2>1, <2>2, <2>3 DEF Next
<1> QED
  BY <1>1, <1>2, ParserTyped, PTL DEF Spec

LEMMA LatestIsMax ==
    ASSUME NEW s \in Seq(Lines), NEW h, NEW i \in Nat, IsLatest(s, h, i)
    PROVE  h = Max({ g \in Headers(s) : g <= i })
<1> DEFINE S == { g \in Headers(s) : g <= i }
<1>1. h \in S /\ \A g \in S : h >= g
  BY DEF IsLatest, Headers
<1>2. \A g \in S : g \in Nat
  BY DEF Headers
<1> HIDE DEF S
<1>3. Max(S) \in S /\ \A g \in S : Max(S) >= g
  BY <1>1 DEF Max
<1>4. h = Max(S)
  BY <1>1, <1>2, <1>3
<1> QED
  BY <1>4 DEF S

\* What is yielded is what the listing says, in its order, and all of an accepted one.
THEOREM ListingsAreYielded == Spec => []YieldsWholeListing
<1>1. TypeOK /\ YieldsLinked /\ AllYielded => YieldsWholeListing
  <2> SUFFICES ASSUME TypeOK, YieldsLinked, AllYielded PROVE YieldsWholeListing
    OBVIOUS
  <2>1. ASSUME NEW k \in DOMAIN yielded
        PROVE  /\ yielded[k].line \in DOMAIN lines
               /\ \A j \in 1 .. k - 1 : yielded[j].line < yielded[k].line
               /\ IsOf(yielded[k], lines[yielded[k].line])
               /\ yielded[k].section = Max({ h \in Headers(lines) : h <= yielded[k].line })
    <3>1. yielded[k].line \in DOMAIN lines /\ IsOf(yielded[k], lines[yielded[k].line])
          /\ IsLatest(lines, yielded[k].section, yielded[k].line)
      BY DEF YieldsLinked
    <3>2. yielded[k].line \in Nat
      BY <3>1, YieldedTypes
    <3>3. \A j \in 1 .. k - 1 : j \in DOMAIN yielded /\ j < k
      BY YieldedTypes
    <3> QED
      BY <3>1, <3>2, <3>3, YieldedTypes, LatestIsMax DEF YieldsLinked
  <2> QED
    BY <2>1 DEF YieldsWholeListing, IsOf, AllYielded
<1> QED
  BY <1>1, ParserTyped, Linked, PTL

-----------------------------------------------------------------------------
(* The instants of the entries.                                            *)

\* The entry was yielded with what can be told of its time.
Told(entry, local) ==
    IF entry.instants = {}
    THEN "INVALID_LOCAL_TIME" \in errors /\ ~Readable(local)
    ELSE /\ Readable(local)
         /\ entry.instants = {IF ambiguous_time = "later"
                              THEN Max(Readings(local)) ELSE Min(Readings(local))}

LEMMA TimesAreTold ==
    YieldedTimesMeant <=>
        \A k \in DOMAIN yielded :
            yielded[k].kind # "header" => Told(yielded[k], lines[yielded[k].line].local)
  BY DEF YieldedTimesMeant, Told

LEMMA ToldStays ==
    ASSUME errors \subseteq errors', ambiguous_time' = ambiguous_time, NEW entry, NEW local,
           Told(entry, local)
    PROVE  Told(entry, local)'
  BY DEF Told, Readable

\* The state after reading a line has the entries of the state before.
LEMMA YieldsStay ==
    ASSUME TypeOK, YieldsLinked, NEW line \in Lines, ReadLine(line), NEW k \in DOMAIN yielded
    PROVE  /\ k \in DOMAIN yielded' /\ yielded'[k] = yielded[k]
           /\ lines'[yielded[k].line] = lines[yielded[k].line]
<1>1. lines' = Append(lines, line) /\ yielded[k].line \in DOMAIN lines
  BY TypesOfLine DEF YieldsLinked
<1>2. yielded' = yielded \/ \E entry : yielded' = Append(yielded, entry)
  BY YieldStep
<1>3. yielded \in Seq(Yield) /\ lines \in Seq(Lines)
  BY YieldedTypes
<1>4. k \in DOMAIN yielded' /\ yielded'[k] = yielded[k]
  BY <1>2, <1>3
<1>5. lines'[yielded[k].line] = lines[yielded[k].line]
  BY <1>1, <1>3
<1> QED
  BY <1>4, <1>5

LEMMA TimesStep ==
    ASSUME TypeOK, YieldsLinked, YieldedTimesMeant, NEW line \in Lines, ReadLine(line)
    PROVE  YieldedTimesMeant'
<1>1. errors \subseteq errors' /\ lines' = Append(lines, line) /\ ambiguous_time' = ambiguous_time
  BY TypesOfLine, ErrorsGrow
<1>2. yielded \in Seq(Yield) /\ lines \in Seq(Lines) /\ Number = Len(lines) + 1
  BY YieldedTypes
<1>3. ASSUME NEW k \in DOMAIN yielded, NEW local, yielded[k].kind # "header",
             local = lines'[yielded'[k].line].local, NEW entry, entry = yielded'[k]
      PROVE  Told(entry, local)'
  <2>1. yielded'[k] = yielded[k] /\ lines'[yielded[k].line] = lines[yielded[k].line]
    BY YieldsStay
  <2>2. Told(entry, local)
    BY <1>3, <2>1, TimesAreTold
  <2> QED
    BY <1>1, <2>2, ToldStays
<1>4. ASSUME NEW entry, yielded' = Append(yielded, entry), entry.kind # "header", NEW local,
             local = lines'[entry.line].local
      PROVE  Told(entry, local)'
  <2>1. Len(yielded') = Len(yielded) + 1 /\ yielded'[Len(yielded) + 1] = entry
    BY <1>2, <1>4
  <2>2. entry # HeaderEntry
    BY <1>4 DEF HeaderEntry
  <2>3. yielded' # yielded
    BY <1>2, <2>1
  <2>4. yielded' = Append(yielded, HeaderEntry) => yielded'[Len(yielded) + 1] = HeaderEntry
    BY <1>2
  <2>5. ReadEntry(line) /\ IsTaken(line) /\ ~Overflows(line.local)
        /\ (Unlocalizable(line.local, ambiguous_time) => "INVALID_LOCAL_TIME" \in errors')
        /\ yielded' = Append(yielded, EntryOf(line, InstantsOf(line)))
    BY <2>1, <2>2, <2>3, <2>4, YieldStep
  <2>6. entry = EntryOf(line, InstantsOf(line))
    BY <1>2, <2>1, <2>5
  <2>7. entry.line = Number /\ entry.instants = InstantsOf(line)
    BY <2>6 DEF EntryOf
  <2>8. local = line.local
    BY <1>1, <1>2, <1>4, <2>7
  <2>9. line.local \in Int /\ ambiguous_time \in Ambiguous
    BY <2>5, LineTypes DEF IsTaken, TypeOK
  <2>10. \A t : Readable(t)' <=> Readable(t)
    BY <1>1 DEF Readable
  <2> QED
    BY <1>1, <2>5, <2>7, <2>8, <2>9, <2>10, LocalizedAsRead DEF Told, InstantsOf
<1>5. ASSUME NEW k \in DOMAIN yielded', NEW entry, NEW local, entry = yielded'[k],
             local = lines'[entry.line].local, entry.kind # "header"
      PROVE  Told(entry, local)'
  <2>1. CASE k \in DOMAIN yielded
    BY <1>3, <1>5, <2>1, YieldsStay
  <2>2. CASE k \notin DOMAIN yielded
    <3>1. PICK e : yielded' = Append(yielded, e)
      BY <1>5, <2>2, YieldStep
    <3>2. e = entry
      BY <1>2, <1>5, <2>2, <3>1
    <3> QED
      BY <1>4, <1>5, <3>1, <3>2
  <2> QED
    BY <2>1, <2>2
<1> QED
  BY <1>5 DEF YieldedTimesMeant, Told

\* The clock of the zone shows the listed time at the instant of an entry, and a time
\* is only refused, with a diagnostic, if no instant can be told.
THEOREM TimesAreMeant == Spec => []YieldedTimesMeant
<1>1. Init => YieldedTimesMeant
  BY DEF Init, YieldedTimesMeant
<1>2. /\ TypeOK /\ YieldsLinked /\ YieldedTimesMeant /\ [Next]_vars
      => YieldedTimesMeant'
  <2> SUFFICES ASSUME TypeOK, YieldsLinked, YieldedTimesMeant, [Next]_vars
               PROVE  YieldedTimesMeant'
    OBVIOUS
  <2>1. ASSUME NEW line \in Lines, ReadLine(line) PROVE YieldedTimesMeant'
    BY <2>1, TimesStep
  <2>2. CASE End
    <3>1. /\ errors \subseteq errors' /\ ambiguous_time' = ambiguous_time
          /\ lines' = lines /\ yielded' = yielded
      BY <2>2 DEF End, Report
    <3>2. ASSUME NEW k \in DOMAIN yielded, NEW entry, NEW local, entry = yielded[k],
                 local = lines[entry.line].local, entry.kind # "header"
          PROVE  Told(entry, local)'
      BY <3>1, <3>2, TimesAreTold, ToldStays
    <3> QED
      BY <3>1, <3>2 DEF YieldedTimesMeant, Told
  <2>3. CASE UNCHANGED vars
    BY <2>3 DEF vars, YieldedTimesMeant, Readable
  <2> QED
    BY <2>1, <2>2, <2>3 DEF Next
<1> QED
  BY <1>1, <1>2, ParserTyped, Linked, PTL DEF Spec

-----------------------------------------------------------------------------
(* Counts.                                                                 *)

\* The files among the entries y that are under one of the headers S.
FilesUnder(y, S) == { k \in DOMAIN y : y[k].kind = "file" /\ y[k].section \in S }

LEMMA FilesAppended ==
    ASSUME NEW y \in Seq(Yield), NEW S, NEW entry \in Yield
    PROVE  LET counted == entry.kind = "file" /\ entry.section \in S
               old     == FilesUnder(y, S)
               new     == FilesUnder(Append(y, entry), S)
           IN  /\ Cardinality(old) \in Nat /\ SizeOf(y, old) \in Nat
               /\ Cardinality(new) = Cardinality(old) + (IF counted THEN 1 ELSE 0)
               /\ SizeOf(Append(y, entry), new) = SizeOf(y, old) + (IF counted THEN entry.size ELSE 0)
<1> DEFINE counted == entry.kind = "file" /\ entry.section \in S
           z       == Append(y, entry)
           last    == Len(y) + 1
           old     == FilesUnder(y, S)
           new     == FilesUnder(z, S)
<1>1. /\ DOMAIN y = 1 .. Len(y) /\ DOMAIN z = 1 .. last /\ Len(y) \in Nat /\ z[last] = entry
      /\ \A k \in DOMAIN y : z[k] = y[k] /\ y[k] \in Yield
  OBVIOUS
<1> HIDE DEF z
<1>2. new = IF counted THEN old \cup {last} ELSE old
  BY <1>1 DEF FilesUnder
<1>3. old \subseteq 1 .. Len(y) /\ last \notin old
  BY <1>1 DEF FilesUnder
<1>4. IsFiniteSet(old)
  <2>1. IsFiniteSet(1 .. Len(y))
    BY <1>1, FS_Interval
  <2> QED BY <1>3, <2>1, FS_Subset
<1>5. Cardinality(old) \in Nat /\ Cardinality(old \cup {last}) = Cardinality(old) + 1
  BY <1>3, <1>4, FS_CardinalityType, FS_AddElement
<1>6. \A k \in old : y[k].size \in Nat /\ z[k].size = y[k].size
  BY <1>1, <1>3 DEF Yield
<1>7. z[last].size \in Nat /\ z[last].size = entry.size
  BY <1>1 DEF Yield
<1> HIDE DEF old, new, last, counted
<1>8. SizeOf(y, old) \in Nat /\ SizeOf(z, old) = SizeOf(y, old)
  BY <1>4, <1>6, Sizes
<1>9. SizeOf(z, old \cup {last}) = z[last].size + SizeOf(z, old)
  <2>1. \A k \in old : z[k].size \in Nat
    BY <1>6
  <2> QED BY <1>3, <1>4, <1>7, <2>1, Sizes
<1>10. /\ Cardinality(new) = Cardinality(old) + (IF counted THEN 1 ELSE 0)
       /\ SizeOf(z, new) = SizeOf(y, old) + (IF counted THEN entry.size ELSE 0)
  BY <1>2, <1>5, <1>7, <1>8, <1>9
<1> QED
  BY <1>5, <1>8, <1>10 DEF old, new, z, counted

\* The totals are those of the entries yielded, and so are the section's.
Counted ==
    /\ total_files = Cardinality(FilesUnder(yielded, 1 .. Len(lines)))
    /\ total_size = SizeOf(yielded, FilesUnder(yielded, 1 .. Len(lines)))
    /\ section.files = Cardinality(FilesUnder(yielded, {section.line}))
    /\ section.size = SizeOf(yielded, FilesUnder(yielded, {section.line}))

\* The entry k of y is under a header that comes before it.
UnderHeader(y, s, k) ==
    \E h \in 1 .. k : /\ y[h].kind = "header" /\ y[h].section = y[k].section
                      /\ \A j \in h .. k : y[j].section = y[h].section
                      /\ s[y[h].section] = [type |-> "header", mountable |-> TRUE]

\* An open section that takes entries was yielded, and nothing else is since.
OpenYielded ==
    section.open /\ section.mountable =>
        \E k \in DOMAIN yielded : /\ k = Len(yielded) /\ UnderHeader(yielded, lines, k)
                                  /\ yielded[k].section = section.line

LEMMA CountsAre ==
    CountsMatchYielded <=> Counted /\ \A k \in DOMAIN yielded : UnderHeader(yielded, lines, k)
  BY DEF CountsMatchYielded, Counted, FilesUnder, UnderHeader

LEMMA CountedStep ==
    ASSUME TypeOK, YieldsLinked, SectionLinked, Counted, NEW line \in Lines, ReadLine(line)
    PROVE  Counted'
<1>1. /\ yielded \in Seq(Yield) /\ lines \in Seq(Lines) /\ Number = Len(lines) + 1
      /\ Len(lines) \in Nat /\ section.line \in Nat
  BY YieldedTypes
<1>2. lines' = Append(lines, line) /\ Len(lines') = Number
  BY <1>1, TypesOfLine
<1>3. \A k \in DOMAIN yielded : yielded[k].section \in Nat /\ yielded[k].section <= Len(lines)
  BY <1>1 DEF YieldsLinked, IsLatest, Headers
<1>4. FilesUnder(yielded, 1 .. Number) = FilesUnder(yielded, 1 .. Len(lines))
  BY <1>1, <1>3 DEF FilesUnder
<1>5. CASE ReadHeader(line)
  <2>1. section' = Section(Number, line.mountable)
    BY <1>5, SectionStep
  <2>2. section'.line = Number /\ section'.files = 0 /\ section'.size = 0
    BY <2>1 DEF Section
  <2>3. UNCHANGED <<total_files, total_size>>
    BY <1>5 DEF ReadHeader
  <2>4. FilesUnder(yielded, {Number}) = {}
    BY <1>1, <1>3 DEF FilesUnder
  <2>5. Cardinality({}) = 0 /\ SizeOf(yielded, {}) = 0
    <3>1. IsFiniteSet({}) /\ Cardinality({}) = 0
      BY FS_EmptySet
    <3> QED BY <3>1, Sizes
  <2>6. CASE ~line.mountable
    <3>1. yielded' = yielded
      BY <1>5, <2>6 DEF ReadHeader
    <3> QED
      BY <1>2, <1>4, <2>2, <2>3, <2>4, <2>5, <3>1 DEF Counted
  <2>7. CASE line.mountable
    <3>1. yielded' = Append(yielded, HeaderEntry)
      BY <1>5, <2>7 DEF ReadHeader
    <3>2. HeaderEntry \in Yield /\ HeaderEntry.kind # "file"
      BY <1>1 DEF HeaderEntry, Yield
    <3>3. \A S : /\ Cardinality(FilesUnder(yielded', S)) = Cardinality(FilesUnder(yielded, S))
                 /\ SizeOf(yielded', FilesUnder(yielded', S)) = SizeOf(yielded, FilesUnder(yielded, S))
      <4> SUFFICES ASSUME NEW S
                   PROVE  /\ Cardinality(FilesUnder(yielded', S)) = Cardinality(FilesUnder(yielded, S))
                          /\ SizeOf(yielded', FilesUnder(yielded', S))
                               = SizeOf(yielded, FilesUnder(yielded, S))
        OBVIOUS
      <4>1. /\ Cardinality(FilesUnder(yielded, S)) \in Nat
            /\ SizeOf(yielded, FilesUnder(yielded, S)) \in Nat
            /\ Cardinality(FilesUnder(yielded', S)) = Cardinality(FilesUnder(yielded, S)) + 0
            /\ SizeOf(yielded', FilesUnder(yielded', S)) = SizeOf(yielded, FilesUnder(yielded, S)) + 0
        BY <1>1, <3>1, <3>2, FilesAppended
      <4> QED BY <4>1
    <3> QED
      BY <1>2, <1>4, <2>2, <2>3, <2>4, <2>5, <3>3 DEF Counted
  <2> QED
    BY <2>6, <2>7
<1>6. CASE ReadEntry(line) /\ IsTaken(line)
  <2> DEFINE entry == EntryOf(line, InstantsOf(line))
             one   == IF IsFile(line) THEN 1 ELSE 0
             bytes == IF IsFile(line) THEN line.size ELSE 0
  <2>1. /\ yielded' = Append(yielded, entry) /\ TakesEntries /\ ~Overflows(line.local)
        /\ total_files' = total_files + one /\ total_size' = total_size + bytes
        /\ line.type = "entry"
    BY <1>6, YieldStep DEF ReadEntry, ReadHeader, Read, Take
  <2>2. /\ section'.line = section.line
        /\ section'.files = section.files + one /\ section'.size = section.size + bytes
    BY <1>6, <2>1, SectionStep DEF ReadHeader, Read, Take
  <2>3. entry \in Yield
    BY <1>6, <2>1, EntryTypes
  <2>4. /\ entry.section = section.line /\ entry.size = bytes
        /\ entry.kind = "file" <=> IsFile(line)
    BY <2>1 DEF EntryOf, IsFile
  <2> HIDE DEF entry
  <2>5. section.line \in 1 .. Number /\ section.line \in {section.line}
    BY <1>1, <2>1 DEF SectionLinked, TakesEntries, IsLatest, Headers
  <2>6. \A S : section.line \in S =>
          /\ Cardinality(FilesUnder(yielded', S)) = Cardinality(FilesUnder(yielded, S)) + one
          /\ SizeOf(yielded', FilesUnder(yielded', S))
               = SizeOf(yielded, FilesUnder(yielded, S)) + bytes
    <3> SUFFICES ASSUME NEW S, section.line \in S
                 PROVE  /\ Cardinality(FilesUnder(yielded', S))
                             = Cardinality(FilesUnder(yielded, S)) + one
                        /\ SizeOf(yielded', FilesUnder(yielded', S))
                             = SizeOf(yielded, FilesUnder(yielded, S)) + bytes
      OBVIOUS
    <3> QED
      BY <1>1, <2>1, <2>3, <2>4, FilesAppended
  <2> QED
    BY <1>2, <1>4, <2>1, <2>2, <2>5, <2>6 DEF Counted
<1>7. CASE ~ReadHeader(line) /\ ~(ReadEntry(line) /\ IsTaken(line))
  <2>1. UNCHANGED <<yielded, total_files, total_size>>
    BY <1>7, YieldStep
  <2>2. IsFile(line) => IsTaken(line)
    BY DEF IsFile, IsTaken
  <2>3. /\ section'.line = section.line
        /\ section'.files = section.files + 0 /\ section'.size = section.size + 0
    BY <1>7, <2>2, SectionStep
  <2>4. section'.files = section.files /\ section'.size = section.size
    BY <2>3, YieldedTypes DEF SectionType
  <2> QED
    BY <1>2, <1>4, <2>1, <2>3, <2>4 DEF Counted
<1> QED
  BY <1>5, <1>6, <1>7

\* An entry stays under its header.
LEMMA UnderStays ==
    ASSUME TypeOK, YieldsLinked, NEW line \in Lines, ReadLine(line), NEW k \in DOMAIN yielded,
           UnderHeader(yielded, lines, k)
    PROVE  UnderHeader(yielded', lines', k)
<1>1. PICK h \in 1 .. k : /\ yielded[h].kind = "header" /\ yielded[h].section = yielded[k].section
                          /\ \A j \in h .. k : yielded[j].section = yielded[h].section
                          /\ lines[yielded[h].section] = [type |-> "header", mountable |-> TRUE]
  BY DEF UnderHeader
<1>2. \A j \in h .. k : j \in DOMAIN yielded /\ yielded'[j] = yielded[j]
  BY YieldedTypes, YieldsStay
<1>3. h \in h .. k /\ k \in h .. k
  BY YieldedTypes
<1>4. yielded[h].section \in DOMAIN lines
  BY <1>2, <1>3 DEF YieldsLinked, IsLatest, Headers
<1>5. lines'[yielded[h].section] = lines[yielded[h].section]
  BY <1>4, TypesOfLine, YieldedTypes
<1> QED
  BY <1>1, <1>2, <1>3, <1>5 DEF UnderHeader

LEMMA UnderStep ==
    ASSUME TypeOK, YieldsLinked, SectionLinked, OpenYielded, NEW line \in Lines, ReadLine(line),
           \A k \in DOMAIN yielded : UnderHeader(yielded, lines, k)
    PROVE  OpenYielded' /\ \A k \in DOMAIN yielded' : UnderHeader(yielded', lines', k)
<1>1. /\ yielded \in Seq(Yield) /\ lines \in Seq(Lines) /\ Number = Len(lines) + 1
      /\ Len(lines) \in Nat /\ section.line \in Nat /\ lines' = Append(lines, line)
      /\ Len(yielded) \in Nat /\ DOMAIN yielded = 1 .. Len(yielded)
  BY YieldedTypes, TypesOfLine
<1> DEFINE last == Len(yielded) + 1
<1>2. ASSUME NEW entry, yielded' = Append(yielded, entry)
      PROVE  /\ Len(yielded') = last /\ DOMAIN yielded' = 1 .. last /\ yielded'[last] = entry
             /\ UnderHeader(yielded', lines', last) =>
                  \A k \in DOMAIN yielded' : UnderHeader(yielded', lines', k)
  <2>1. Len(yielded') = last /\ DOMAIN yielded' = 1 .. last /\ yielded'[last] = entry
    BY <1>1, <1>2
  <2> QED
    BY <1>1, <2>1, UnderStays
<1>3. CASE ReadHeader(line) /\ line.mountable
  <2>1. yielded' = Append(yielded, HeaderEntry) /\ line.type = "header"
        /\ section' = Section(Number, line.mountable)
    BY <1>3, SectionStep DEF ReadHeader
  <2>2. yielded'[last].kind = "header" /\ yielded'[last].section = Number
    BY <1>2, <2>1 DEF HeaderEntry
  <2>3. line = [type |-> "header", mountable |-> TRUE]
    BY <1>3, <2>1, LineTypes DEF Line
  <2>4. lines'[Number] = line
    BY <1>1
  <2>5. UnderHeader(yielded', lines', last)
    BY <1>1, <2>2, <2>3, <2>4 DEF UnderHeader
  <2>6. section'.line = Number
    BY <2>1 DEF Section
  <2> QED
    BY <1>1, <1>2, <2>1, <2>2, <2>5, <2>6 DEF OpenYielded
<1>4. CASE ReadHeader(line) /\ ~line.mountable
  <2>1. yielded' = yielded /\ section' = Section(Number, line.mountable)
    BY <1>4, SectionStep DEF ReadHeader
  <2> QED
    BY <1>4, <2>1, UnderStays DEF OpenYielded, Section
<1>5. CASE ReadEntry(line) /\ IsTaken(line)
  <2> DEFINE entry == EntryOf(line, InstantsOf(line))
  <2>1. yielded' = Append(yielded, entry) /\ TakesEntries /\ line.type = "entry"
    BY <1>5, YieldStep DEF ReadEntry, ReadHeader, Read, Take
  <2>2. entry.section = section.line
    BY DEF EntryOf
  <2> HIDE DEF entry
  <2>3. section'.line = section.line
    BY <1>5, <2>1, SectionStep DEF ReadHeader, Read, Take
  <2>4. PICK k \in DOMAIN yielded : /\ k = Len(yielded) /\ UnderHeader(yielded, lines, k)
                                    /\ yielded[k].section = section.line
    BY <2>1 DEF OpenYielded, TakesEntries
  <2>5. PICK h \in 1 .. k : /\ yielded'[h].kind = "header" /\ yielded'[h].section = yielded'[k].section
                            /\ \A j \in h .. k : yielded'[j].section = yielded'[h].section
                            /\ lines'[yielded'[h].section] = [type |-> "header", mountable |-> TRUE]
    <3>1. UnderHeader(yielded', lines', k)
      BY <2>4, UnderStays
    <3> QED
      BY <3>1 DEF UnderHeader
  <2>6. yielded'[k].section = section.line /\ yielded'[last].section = section.line
    BY <1>2, <2>1, <2>2, <2>4, YieldsStay
  <2>7. \A j \in h .. last : j \in h .. k \/ j = last
    BY <1>1, <2>4
  <2>8. UnderHeader(yielded', lines', last)
    <3>1. h \in 1 .. last /\ k \in Nat
      BY <1>1, <2>4
    <3>2. yielded'[h].section = yielded'[last].section
          /\ \A j \in h .. last : yielded'[j].section = yielded'[h].section
      BY <2>5, <2>6, <2>7
    <3> HIDE DEF last
    <3> QED
      BY <2>5, <3>1, <3>2 DEF UnderHeader
  <2> QED
    BY <1>1, <1>2, <2>1, <2>3, <2>6, <2>8 DEF OpenYielded
<1>6. CASE ~ReadHeader(line) /\ ~(ReadEntry(line) /\ IsTaken(line))
  <2>1. yielded' = yielded
    BY <1>6, YieldStep
  <2>2. section'.line = section.line /\ section'.mountable = section.mountable
        /\ (section'.open => section.open)
    BY <1>6, SectionStep
  <2>3. \A k \in DOMAIN yielded : UnderHeader(yielded', lines', k)
    BY UnderStays
  <2> QED
    BY <2>1, <2>2, <2>3 DEF OpenYielded
<1> QED
  BY <1>3, <1>4, <1>5, <1>6

LEMMA CountedStart == Init => Counted
<1> SUFFICES ASSUME Init PROVE Counted
  OBVIOUS
<1>1. yielded = << >> /\ total_files = 0 /\ total_size = 0 /\ section.files = 0 /\ section.size = 0
  BY DEF Init, NoSection, Section
<1>2. \A S : FilesUnder(yielded, S) = {}
  BY <1>1 DEF FilesUnder
<1>3. Cardinality({}) = 0 /\ SizeOf(yielded, {}) = 0
  <2>1. IsFiniteSet({}) /\ Cardinality({}) = 0
    BY FS_EmptySet
  <2> QED BY <2>1, Sizes
<1> QED
  BY <1>1, <1>2, <1>3 DEF Counted

\* The totals the summaries are compared with are those of the entries yielded, and each
\* entry follows the header of its section, which can be mounted.
THEOREM CountsAreOfYielded == Spec => []CountsMatchYielded
<1> DEFINE Inv == /\ Counted /\ OpenYielded
                  /\ \A k \in DOMAIN yielded : UnderHeader(yielded, lines, k)
<1>1. Init => Inv
  BY CountedStart DEF Init, OpenYielded, NoSection
<1>2. TypeOK /\ YieldsLinked /\ SectionLinked /\ Inv /\ [Next]_vars => Inv'
  <2> SUFFICES ASSUME TypeOK, YieldsLinked, SectionLinked, Inv, [Next]_vars PROVE Inv'
    OBVIOUS
  <2>1. ASSUME NEW line \in Lines, ReadLine(line) PROVE Inv'
    BY <2>1, CountedStep, UnderStep
  <2>2. CASE End
    <3>1. UNCHANGED <<lines, yielded, total_files, total_size>>
      BY <2>2 DEF End
    <3>2. /\ section'.line = section.line /\ section'.open = FALSE
          /\ section'.files = section.files /\ section'.size = section.size
      BY <2>2 DEF End, TypeOK
    <3> QED
      BY <3>1, <3>2 DEF Counted, OpenYielded
  <2>3. CASE UNCHANGED vars
    BY <2>3 DEF vars, Counted, OpenYielded
  <2> QED
    BY <2>1, <2>2, <2>3 DEF Next
<1> QED
  BY <1>1, <1>2, ParserTyped, Linked, CountsAre, PTL DEF Spec

-----------------------------------------------------------------------------
(* Complete listings, part by part.                                        *)

\* A line that may follow another in one part, and a line of a section, where the
\* times G are readable.
Follows(type, next) ==
    \/ type = "entry" /\ next \in {"entry", "file_summary", "dir_summary"}
    \/ type = "file_not_found" /\ next \in {"file_summary", "dir_summary"}
    \/ type = "file_summary" /\ next = "dir_summary"

Item(line, G) ==
    \/ line.type \in {"file_not_found", "file_summary"}
    \/ line.type = "dir_summary" /\ line.valid
    \/ /\ line.type = "entry" /\ line.kind # "rejected"
       /\ line.kind = "ignored" \/ line.local \in G

Has(s, P, type) == \E k \in P : s[k].type = type

\* The lines P are those of a part up to some point.
Shape(s, P, G) ==
    /\ \A k \in P : Item(s[k], G)
    /\ \A k, l \in P : k < l => Follows(s[k].type, s[l].type)
    /\ Has(s, P, "dir_summary") => Has(s, P, "file_summary")

FilesOf(s, I) == { k \in I : IsFile(s[k]) }

\* The files summaries among P give the totals of the lines I.
Tells(s, P, I) ==
    \A k \in P : s[k].type = "file_summary" =>
        s[k].count = Cardinality(FilesOf(s, I)) /\ s[k].size = SizeOf(s, FilesOf(s, I))

Closed(s, P, G) == Shape(s, P, G) /\ Has(s, P, "file_summary") /\ Has(s, P, "dir_summary")

Whole(s, h, G) ==
    /\ s[h].mountable /\ Closed(s, Part(s, h), G)
    /\ Tells(s, Part(s, h), Part(s, h))

\* The line t divides the sections from the totals.
Divides(s, t) ==
    s[t].type = "total" /\ \A m \in Marks(s) \ {t} : m < t /\ m \in Headers(s)

OnlySummaries(s, P) == \A k \in P : s[k].type \in {"file_summary", "dir_summary"}

Footer(s, t, G) ==
    /\ Divides(s, t) /\ OnlySummaries(s, Part(s, t)) /\ Closed(s, Part(s, t), G)
    /\ Tells(s, Part(s, t), 1 .. t)

\* Nothing comes before the first header or total.
Started(s) == \A i \in DOMAIN s : s[i].type # "blank" => \E m \in Marks(s) : m <= i

Complete(s, G) ==
    /\ \E t \in Marks(s) : Footer(s, t, G)
    /\ Headers(s) # {} /\ \A h \in Headers(s) : Whole(s, h, G)
    /\ Started(s)

ReadableTimes == { local \in Int : Readable(local) }

LEMMA PartTypes ==
    ASSUME NEW s \in Seq(Lines)
    PROVE  /\ Len(s) \in Nat /\ DOMAIN s = 1 .. Len(s)
           /\ \A i \in 1 .. Len(s) : s[i] \in Lines
           /\ Headers(s) \subseteq Marks(s) /\ Marks(s) \subseteq 1 .. Len(s)
           /\ \A m \in Nat : Part(s, m) \subseteq m + 1 .. Len(s) /\ Part(s, m) \subseteq 1 .. Len(s)
<1>1. Len(s) \in Nat /\ DOMAIN s = 1 .. Len(s) /\ \A i \in 1 .. Len(s) : s[i] \in Lines
  OBVIOUS
<1> QED
  BY <1>1 DEF Headers, Marks, Part

LEMMA WholeIs ==
    ASSUME NEW s \in Seq(Lines), NEW h \in Headers(s)
    PROVE  WholeSection(s, h) <=> Whole(s, h, ReadableTimes)
<1> DEFINE P == Part(s, h)
           G == ReadableTimes
<1>1. h \in Nat /\ P \subseteq 1 .. Len(s) /\ \A k \in P : k \in Nat /\ s[k] \in Lines
  BY PartTypes DEF Headers, Marks
<1>2. \A k \in P : s[k].type = "entry" => s[k].local \in Int
  BY <1>1, LineTypes
<1>3. \A k \in P : IsFile(s[k]) => s[k].type = "entry"
  BY DEF IsFile
<1> HIDE DEF P
<1>4. ASSUME WholeSection(s, h) PROVE Whole(s, h, G)
  <2>1. PICK i, j \in P : /\ Summary(s, P \ {i, j}, i, j)
                          /\ Body(s, P \ {i, j}) /\ \A k \in P \ {i, j} : k < i
    BY <1>4 DEF WholeSection, P
  <2>2. /\ i < j /\ s[i].type = "file_summary" /\ s[j].type = "dir_summary" /\ s[j].valid
        /\ s[i].count = Cardinality({ k \in P \ {i, j} : IsFile(s[k]) })
        /\ s[i].size = SizeOf(s, { k \in P \ {i, j} : IsFile(s[k]) })
    BY <2>1 DEF Summary
  <2>3. { k \in P \ {i, j} : IsFile(s[k]) } = FilesOf(s, P)
    BY <1>3, <2>2 DEF FilesOf
  <2>4. \A k \in P \ {i, j} : /\ s[k].type \in {"entry", "file_not_found"} /\ Item(s[k], G)
                              /\ \A l \in P \ {i, j} : k < l => s[k].type = "entry" /\ s[l].type = "entry"
    <3>1. CASE \A k \in P \ {i, j} :
                 /\ s[k].type = "entry" /\ s[k].kind # "rejected"
                 /\ s[k].kind = "ignored" \/ Readable(s[k].local)
      BY <1>2, <3>1 DEF Item, ReadableTimes
    <3>2. CASE \E k \in P \ {i, j} : P \ {i, j} = {k} /\ s[k].type = "file_not_found"
      BY <1>1, <3>2 DEF Item
    <3> QED BY <2>1, <3>1, <3>2 DEF Body
  <2>5. \A k \in P : Item(s[k], G)
    BY <2>2, <2>4 DEF Item
  <2>6. \A k, l \in P : k < l => Follows(s[k].type, s[l].type)
    BY <1>1, <2>1, <2>2, <2>4 DEF Follows
  <2>7. Tells(s, P, P)
    BY <2>2, <2>3, <2>4 DEF Tells
  <2> QED
    BY <1>4, <2>2, <2>5, <2>6, <2>7 DEF Whole, Closed, Shape, Has, WholeSection, P
<1>5. ASSUME Whole(s, h, G) PROVE WholeSection(s, h)
  <2>1. PICK i, j \in P : s[i].type = "file_summary" /\ s[j].type = "dir_summary"
    BY <1>5 DEF Whole, Closed, Has, P
  <2>2. /\ \A k \in P : Item(s[k], G)
        /\ \A k, l \in P : k < l => Follows(s[k].type, s[l].type)
        /\ Tells(s, P, P) /\ s[h].mountable
    BY <1>5 DEF Whole, Closed, Shape, P
  <2>3. i < j /\ s[j].valid
    BY <1>1, <2>1, <2>2 DEF Follows, Item
  <2>4. \A k \in P \ {i, j} : k < i /\ s[k].type \in {"entry", "file_not_found"}
    BY <1>1, <2>1, <2>2, <2>3 DEF Follows, Item
  <2>5. Body(s, P \ {i, j})
    <3>1. CASE \E k \in P \ {i, j} : s[k].type = "file_not_found"
      <4>1. PICK k \in P \ {i, j} : s[k].type = "file_not_found"
        BY <3>1
      <4>2. \A l \in P \ {i, j} : l = k
        BY <1>1, <2>2, <2>4, <4>1 DEF Follows
      <4> QED BY <4>1, <4>2 DEF Body
    <3>2. CASE \A k \in P \ {i, j} : s[k].type = "entry"
      BY <2>2, <3>2 DEF Body, Item, ReadableTimes
    <3> QED BY <2>4, <3>1, <3>2
  <2>6. { k \in P \ {i, j} : IsFile(s[k]) } = FilesOf(s, P)
    BY <1>3, <2>1 DEF FilesOf
  <2>7. Summary(s, P \ {i, j}, i, j)
    BY <2>1, <2>2, <2>3, <2>6 DEF Summary, Tells
  <2> QED
    BY <2>2, <2>4, <2>5, <2>7 DEF WholeSection, P
<1> QED
  BY <1>4, <1>5

LEMMA FooterIs ==
    ASSUME NEW s \in Seq(Lines), NEW t \in Marks(s), NEW G
    PROVE  WholeFooter(s, t) <=> Footer(s, t, G)
<1> DEFINE P == Part(s, t)
<1>1. t \in Nat /\ P \subseteq 1 .. Len(s) /\ \A k \in P : k \in Nat
  BY PartTypes
<1>2. { k \in 1 .. t : IsFile(s[k]) } = FilesOf(s, 1 .. t)
  BY DEF FilesOf
<1> HIDE DEF P
<1>3. ASSUME WholeFooter(s, t) PROVE Footer(s, t, G)
  <2>1. PICK i, j \in P : P = {i, j} /\ Summary(s, 1 .. t, i, j)
    BY <1>3 DEF WholeFooter, P
  <2>2. /\ i < j /\ s[i].type = "file_summary" /\ s[j].type = "dir_summary" /\ s[j].valid
        /\ s[i].count = Cardinality(FilesOf(s, 1 .. t))
        /\ s[i].size = SizeOf(s, FilesOf(s, 1 .. t))
    BY <1>2, <2>1 DEF Summary
  <2>3. Tells(s, P, 1 .. t) /\ OnlySummaries(s, P)
    BY <2>1, <2>2 DEF Tells, OnlySummaries
  <2>4. Closed(s, P, G)
    BY <1>1, <2>1, <2>2 DEF Closed, Shape, Has, Item, Follows
  <2> QED
    BY <1>3, <2>3, <2>4 DEF Footer, WholeFooter, Divides, P
<1>4. ASSUME Footer(s, t, G) PROVE WholeFooter(s, t)
  <2>1. PICK i, j \in P : s[i].type = "file_summary" /\ s[j].type = "dir_summary"
    BY <1>4 DEF Footer, Closed, Has, P
  <2>2. /\ \A k \in P : Item(s[k], G) /\ s[k].type \in {"file_summary", "dir_summary"}
        /\ \A k, l \in P : k < l => Follows(s[k].type, s[l].type)
        /\ Tells(s, P, 1 .. t) /\ Divides(s, t)
    BY <1>4 DEF Footer, Closed, Shape, OnlySummaries, P
  <2>3. i < j /\ s[j].valid
    BY <1>1, <2>1, <2>2 DEF Follows, Item
  <2>4. P = {i, j}
    <3>1. ASSUME NEW k \in P, NEW l \in P, k # l PROVE s[k].type # s[l].type
      <4>1. k < l \/ l < k
        BY <1>1, <3>1
      <4> QED BY <2>2, <4>1 DEF Follows
    <3> QED BY <2>1, <2>2, <3>1
  <2>5. Summary(s, 1 .. t, i, j)
    BY <1>2, <2>1, <2>2, <2>3 DEF Summary, Tells
  <2> QED
    BY <2>2, <2>4, <2>5 DEF WholeFooter, Divides, P
<1> QED
  BY <1>3, <1>4

LEMMA CompleteIs ==
    ASSUME NEW s \in Seq(Lines)
    PROVE  CompleteListing(s) <=> Complete(s, ReadableTimes)
  BY WholeIs, FooterIs DEF CompleteListing, Complete, Started

\* Longer listings.
Prefix(s, r) == Len(s) <= Len(r) /\ \A i \in DOMAIN s : r[i] = s[i]

LEMMA PrefixParts ==
    ASSUME NEW s \in Seq(Lines), NEW r \in Seq(Lines), Prefix(s, r)
    PROVE  /\ \A i \in 1 .. Len(s) : i \in 1 .. Len(r) /\ r[i] = s[i]
           /\ Marks(s) = Marks(r) \cap 1 .. Len(s) /\ Headers(s) = Headers(r) \cap 1 .. Len(s)
           /\ \A m \in Nat : Part(s, m) = Part(r, m) \cap 1 .. Len(s)
<1>1. Len(s) \in Nat /\ Len(r) \in Nat /\ DOMAIN s = 1 .. Len(s) /\ DOMAIN r = 1 .. Len(r)
  BY PartTypes
<1>2. \A i \in 1 .. Len(s) : i \in 1 .. Len(r) /\ r[i] = s[i]
  BY <1>1 DEF Prefix
<1>3. Marks(s) = Marks(r) \cap 1 .. Len(s) /\ Headers(s) = Headers(r) \cap 1 .. Len(s)
  BY <1>1, <1>2 DEF Marks, Headers
<1>4. ASSUME NEW m \in Nat, NEW i \in 1 .. Len(s) PROVE i \in Part(s, m) <=> i \in Part(r, m)
  <2>1. \A k \in m + 1 .. i : k \in 1 .. Len(s)
    BY <1>1
  <2>2. \A k \in m + 1 .. i : k \in Marks(s) <=> k \in Marks(r)
    BY <1>3, <2>1
  <2>3. i \in m + 1 .. Len(s) <=> i \in m + 1 .. Len(r)
    BY <1>1, <1>2
  <2> QED BY <1>2, <2>2, <2>3 DEF Part
<1>5. \A m \in Nat : Part(s, m) \subseteq 1 .. Len(s)
  BY PartTypes
<1> QED BY <1>2, <1>3, <1>4, <1>5

\* The line belongs to the part of s after m.
Joins(s, line, m) ==
    /\ line.type \notin {"blank", "header", "total"}
    /\ \A k \in m + 1 .. Len(s) : k \notin Marks(s)

LEMMA GrowParts ==
    ASSUME NEW s \in Seq(Lines), NEW line \in Lines
    PROVE  /\ Append(s, line) \in Seq(Lines) /\ Prefix(s, Append(s, line))
           /\ Append(s, line)[Len(s) + 1] = line /\ Len(Append(s, line)) = Len(s) + 1
           /\ \A i \in 1 .. Len(s) : Append(s, line)[i] = s[i]
           /\ line.type \in {"header", "total"} => Marks(Append(s, line)) = Marks(s) \cup {Len(s) + 1}
           /\ line.type \notin {"header", "total"} => Marks(Append(s, line)) = Marks(s)
           /\ line.type = "header" => Headers(Append(s, line)) = Headers(s) \cup {Len(s) + 1}
           /\ line.type # "header" => Headers(Append(s, line)) = Headers(s)
           /\ Part(Append(s, line), Len(s) + 1) = {}
           /\ \A m \in 0 .. Len(s) :
                /\ Joins(s, line, m) => Part(Append(s, line), m) = Part(s, m) \cup {Len(s) + 1}
                /\ ~Joins(s, line, m) => Part(Append(s, line), m) = Part(s, m)
<1> DEFINE last == Len(s) + 1
           r    == Append(s, line)
<1>1. /\ r \in Seq(Lines) /\ Prefix(s, r) /\ r[last] = line /\ Len(r) = last /\ Len(s) \in Nat
      /\ DOMAIN r = 1 .. last /\ DOMAIN s = 1 .. Len(s) /\ \A i \in DOMAIN s : r[i] = s[i]
  BY DEF Prefix
<1> HIDE DEF r
<1>2. /\ line.type \in {"header", "total"} => Marks(r) = Marks(s) \cup {last}
      /\ line.type \notin {"header", "total"} => Marks(r) = Marks(s)
  BY <1>1 DEF Marks
<1>3. /\ line.type = "header" => Headers(r) = Headers(s) \cup {last}
      /\ line.type # "header" => Headers(r) = Headers(s)
  BY <1>1 DEF Headers
<1>4. Part(r, last) = {}
  BY <1>1 DEF Part
<1>5. ASSUME NEW m \in 0 .. Len(s)
      PROVE  /\ Joins(s, line, m) => Part(r, m) = Part(s, m) \cup {last}
             /\ ~Joins(s, line, m) => Part(r, m) = Part(s, m)
  <2>1. m \in Nat /\ Part(s, m) = Part(r, m) \cap 1 .. Len(s) /\ Part(r, m) \subseteq 1 .. last
    <3>1. m \in Nat
      BY <1>1
    <3>2. Part(s, m) = Part(r, m) \cap 1 .. Len(s)
      BY <1>1, <3>1, PrefixParts
    <3>3. Part(r, m) \subseteq 1 .. Len(r)
      BY <1>1, <3>1, PartTypes
    <3> QED BY <1>1, <3>1, <3>2, <3>3
  <2>2. last \in Part(r, m) <=>
          line.type # "blank" /\ \A k \in m + 1 .. last : k \notin Marks(r)
    BY <1>1, <2>1 DEF Part
  <2>3. (\A k \in m + 1 .. last : k \notin Marks(r)) <=>
          /\ line.type \notin {"header", "total"}
          /\ \A k \in m + 1 .. Len(s) : k \notin Marks(s)
    <3>1. \A k \in m + 1 .. last : k \in m + 1 .. Len(s) \/ k = last
      BY <1>1
    <3>2. last \notin Marks(s) /\ last \in m + 1 .. last
      BY <1>1, PartTypes
    <3>3. \A k \in m + 1 .. Len(s) : k \in m + 1 .. last /\ k # last
      BY <1>1
    <3> HIDE DEF last
    <3> QED BY <1>2, <3>1, <3>2, <3>3
  <2>4. 1 .. last = 1 .. Len(s) \cup {last} /\ last \notin 1 .. Len(s)
    BY <1>1
  <2>5. last \in Part(r, m) <=> Joins(s, line, m)
    BY <2>2, <2>3 DEF Joins
  <2> HIDE DEF last
  <2>6. Part(r, m) = Part(s, m) \cup (Part(r, m) \cap {last})
    BY <2>1, <2>4
  <2> QED BY <2>5, <2>6
<1> QED BY <1>1, <1>2, <1>3, <1>4, <1>5 DEF r

LEMMA FilesTypes ==
    ASSUME NEW s \in Seq(Lines), NEW I \in SUBSET (1 .. Len(s))
    PROVE  /\ IsFiniteSet(FilesOf(s, I)) /\ \A i \in FilesOf(s, I) : s[i].size \in Nat
           /\ Cardinality(FilesOf(s, I)) \in Nat /\ SizeOf(s, FilesOf(s, I)) \in Nat
<1>1. IsFiniteSet(FilesOf(s, I))
  <2>1. FilesOf(s, I) \subseteq 1 .. Len(s)
    BY Zenon DEF FilesOf
  <2>1a. Len(s) \in Int
    OBVIOUS
  <2>2. IsFiniteSet(1 .. Len(s))
    BY <2>1a, FS_Interval
  <2> QED BY <2>1, <2>2, FS_Subset
<1>2. \A i \in FilesOf(s, I) : s[i].size \in Nat
  BY PartTypes, LineTypes DEF FilesOf, IsFile
<1> QED BY <1>1, <1>2, FS_CardinalityType, Sizes

\* Nothing that is said of the lines P depends on another line.
LEMMA SameOn ==
    ASSUME NEW s \in Seq(Lines), NEW r \in Seq(Lines), NEW P \in SUBSET (1 .. Len(s)),
           \A k \in P : r[k] = s[k]
    PROVE  /\ \A G : Shape(r, P, G) <=> Shape(s, P, G)
           /\ \A G : Closed(r, P, G) <=> Closed(s, P, G)
           /\ \A type : Has(r, P, type) <=> Has(s, P, type)
           /\ OnlySummaries(r, P) <=> OnlySummaries(s, P)
           /\ FilesOf(r, P) = FilesOf(s, P)
           /\ SizeOf(r, FilesOf(r, P)) = SizeOf(s, FilesOf(s, P))
<1>1. \A type : Has(r, P, type) <=> Has(s, P, type)
  BY DEF Has
<1>2. \A G : Shape(r, P, G) <=> Shape(s, P, G)
  BY <1>1 DEF Shape
<1>3. FilesOf(r, P) = FilesOf(s, P)
  BY DEF FilesOf
<1>4. SizeOf(r, FilesOf(s, P)) = SizeOf(s, FilesOf(s, P))
  <2>1. \A i \in FilesOf(s, P) : r[i].size = s[i].size
    BY DEF FilesOf
  <2> QED BY <2>1, FilesTypes, Sizes
<1>5. OnlySummaries(r, P) <=> OnlySummaries(s, P)
  BY DEF OnlySummaries
<1> QED BY <1>1, <1>2, <1>3, <1>4, <1>5 DEF Closed

LEMMA FilesGrow ==
    ASSUME NEW s \in Seq(Lines), NEW line \in Lines, NEW I \in SUBSET (1 .. Len(s))
    PROVE  LET r == Append(s, line)
               J == I \cup {Len(s) + 1}
           IN  /\ Cardinality(FilesOf(r, J))
                    = Cardinality(FilesOf(s, I)) + (IF IsFile(line) THEN 1 ELSE 0)
               /\ SizeOf(r, FilesOf(r, J))
                    = SizeOf(s, FilesOf(s, I)) + (IF IsFile(line) THEN line.size ELSE 0)
<1> DEFINE r    == Append(s, line)
           last == Len(s) + 1
           J    == I \cup {last}
           old  == FilesOf(s, I)
<1>1. r[last] = line /\ last \notin I /\ last \notin old /\ Len(s) \in Nat
      /\ r \in Seq(Lines) /\ \A i \in I : r[i] = s[i]
  BY DEF FilesOf
<1> HIDE DEF r
<1>2. FilesOf(r, J) = IF IsFile(line) THEN old \cup {last} ELSE old
  BY <1>1 DEF FilesOf
<1>3. /\ IsFiniteSet(old) /\ Cardinality(old) \in Nat /\ SizeOf(s, old) \in Nat
      /\ \A i \in old : s[i].size \in Nat /\ r[i].size = s[i].size
  BY <1>1, FilesTypes DEF FilesOf
<1>4. IsFile(line) => r[last].size \in Nat /\ r[last].size = line.size
  BY <1>1, LineTypes DEF IsFile
<1> HIDE DEF old, last
<1>5. Cardinality(old \cup {last}) = Cardinality(old) + 1
  BY <1>1, <1>3, FS_AddElement
<1>6. SizeOf(r, old) = SizeOf(s, old)
  BY <1>3, Sizes
<1>7. IsFile(line) => SizeOf(r, old \cup {last}) = r[last].size + SizeOf(r, old)
  <2>1. \A i \in old : r[i].size \in Nat
    BY <1>3
  <2> QED BY <1>1, <1>3, <1>4, <2>1, Sizes
<1>8. /\ Cardinality(FilesOf(r, J)) = Cardinality(old) + (IF IsFile(line) THEN 1 ELSE 0)
      /\ SizeOf(r, FilesOf(r, J)) = SizeOf(s, old) + (IF IsFile(line) THEN line.size ELSE 0)
  BY <1>2, <1>3, <1>4, <1>5, <1>6, <1>7
<1> QED BY <1>8 DEF r, old, last

LEMMA ShapeGrows ==
    ASSUME NEW s \in Seq(Lines), NEW line \in Lines, NEW P \in SUBSET (1 .. Len(s)), NEW G,
           Shape(s, P, G), Item(line, G), \A k \in P : Follows(s[k].type, line.type),
           line.type = "dir_summary" => Has(s, P, "file_summary")
    PROVE  LET r == Append(s, line)
               Q == P \cup {Len(s) + 1}
           IN  /\ Shape(r, Q, G)
               /\ \A type : Has(r, Q, type) <=> Has(s, P, type) \/ line.type = type
<1> DEFINE r    == Append(s, line)
           last == Len(s) + 1
           Q    == P \cup {last}
<1>1. /\ r[last] = line /\ last \in Nat /\ \A k \in P : r[k] = s[k] /\ k < last /\ k \in Nat
  OBVIOUS
<1> HIDE DEF r, last
<1>2. \A type : Has(r, Q, type) <=> Has(s, P, type) \/ line.type = type
  BY <1>1 DEF Has
<1>3. \A k \in Q : Item(r[k], G)
  BY <1>1 DEF Shape
<1>4. ASSUME NEW k \in Q, NEW l \in Q, k < l PROVE Follows(r[k].type, r[l].type)
  <2>1. k \in P
    BY <1>1, <1>4
  <2>2. CASE l \in P
    BY <1>1, <1>4, <2>1, <2>2 DEF Shape
  <2>3. CASE l = last
    <3>1. r[k] = s[k] /\ r[l] = line
      BY <1>1, <2>1, <2>3
    <3>2. Follows(s[k].type, line.type)
      BY <2>1
    <3> QED BY <3>1, <3>2
  <2> QED BY <2>2, <2>3
<1>5. Has(r, Q, "dir_summary") => Has(r, Q, "file_summary")
  BY <1>2 DEF Shape
<1> QED BY <1>2, <1>3, <1>4, <1>5 DEF Shape, r, last

LEMMA WholeStays ==
    ASSUME NEW s \in Seq(Lines), NEW line \in Lines, NEW G, NEW h \in Headers(s), Whole(s, h, G),
           line.type \in {"blank", "header", "total"} \/ \E m \in Marks(s) : h < m
    PROVE  Whole(Append(s, line), h, G)
<1> DEFINE r == Append(s, line)
<1>1. h \in 1 .. Len(s) /\ h \in Nat /\ Len(s) \in Nat
  BY PartTypes DEF Headers, Marks
<1>2. Part(r, h) = Part(s, h)
  <2>1. \A m \in Marks(s) : h < m => m \in h + 1 .. Len(s)
    BY <1>1, PartTypes
  <2>2. h \in 0 .. Len(s) /\ ~Joins(s, line, h)
    BY <1>1, <2>1 DEF Joins
  <2> QED BY <2>2, GrowParts
<1>3. Part(s, h) \in SUBSET (1 .. Len(s))
  BY <1>1, PartTypes
<1>4. r \in Seq(Lines) /\ r[h] = s[h] /\ \A k \in Part(s, h) : r[k] = s[k]
  BY <1>1, <1>3
<1> HIDE DEF r
<1>5. /\ \A D : Closed(r, Part(s, h), D) <=> Closed(s, Part(s, h), D)
      /\ FilesOf(r, Part(s, h)) = FilesOf(s, Part(s, h))
      /\ SizeOf(r, FilesOf(r, Part(s, h))) = SizeOf(s, FilesOf(s, Part(s, h)))
  BY <1>3, <1>4, SameOn
<1>6. Tells(r, Part(s, h), Part(s, h))
  BY <1>4, <1>5 DEF Tells, Whole
<1>7. Whole(r, h, G)
  BY <1>2, <1>4, <1>5, <1>6 DEF Whole
<1> QED BY <1>7 DEF r

LEMMA StartedStays ==
    ASSUME NEW s \in Seq(Lines), NEW line \in Lines, Started(s),
           line.type \in {"blank", "header", "total"} \/ Marks(s) # {}
    PROVE  Started(Append(s, line))
<1> DEFINE r    == Append(s, line)
           last == Len(s) + 1
<1>1. /\ DOMAIN r = 1 .. last /\ DOMAIN s = 1 .. Len(s) /\ r[last] = line /\ Len(s) \in Nat
      /\ \A i \in DOMAIN s : r[i] = s[i]
      /\ Marks(s) \subseteq 1 .. Len(s) /\ Marks(s) \subseteq Marks(r)
      /\ line.type \in {"header", "total"} => last \in Marks(r)
  BY PartTypes, GrowParts
<1> HIDE DEF r
<1>2. ASSUME NEW i \in DOMAIN r, r[i].type # "blank" PROVE \E m \in Marks(r) : m <= i
  <2>1. CASE i \in DOMAIN s
    BY <1>1, <1>2, <2>1 DEF Started
  <2>2. CASE i = last
    BY <1>1, <1>2, <2>2
  <2> QED BY <1>1, <2>1, <2>2
<1> QED BY <1>2 DEF Started, r

-----------------------------------------------------------------------------
(* What the state says of a listing without an error.                      *)

OpenPart(s, sec, G) ==
    LET P == Part(s, sec.line)
    IN  /\ sec.mountable /\ Shape(s, P, G)
        /\ sec.file_summary <=> Has(s, P, "file_summary")
        /\ sec.dir_summary <=> Has(s, P, "dir_summary")
        /\ sec.had_entries <=> Has(s, P, "entry")
        /\ sec.file_not_found <=> Has(s, P, "file_not_found")
        /\ \A k \in P : s[k].type = "file_summary" =>
             sec.reported_files = s[k].count /\ sec.reported_size = s[k].size
        /\ sec.files = Cardinality(FilesOf(s, P)) /\ sec.size = SizeOf(s, FilesOf(s, P))

TotalPart(s, t, agg, G) ==
    LET P == Part(s, t)
    IN  /\ Divides(s, t) /\ OnlySummaries(s, P) /\ Shape(s, P, G) /\ Tells(s, P, 1 .. t)
        /\ agg.file_summary <=> Has(s, P, "file_summary")
        /\ agg.dir_summary <=> Has(s, P, "dir_summary")
        /\ FilesOf(s, 1 .. t) = FilesOf(s, 1 .. Len(s))

Totals(s, files, size) ==
    files = Cardinality(FilesOf(s, 1 .. Len(s))) /\ size = SizeOf(s, FilesOf(s, 1 .. Len(s)))

\* Before the totals.
Sections(s, sec, agg) ==
    /\ Marks(s) = Headers(s) /\ (Headers(s) # {} => sec.open)
    /\ ~agg.file_summary /\ ~agg.dir_summary

Structured ==
    /\ Started(lines)
    /\ saw_section <=> Headers(lines) # {}
    /\ ~aggregate.active => Sections(lines, section, aggregate)
    /\ section.open => OpenPart(lines, section, ReadableTimes)
    /\ \A h \in Headers(lines) :
         Whole(lines, h, ReadableTimes) \/ (section.open /\ h = section.line)
    /\ aggregate.active => \E t \in Marks(lines) : TotalPart(lines, t, aggregate, ReadableTimes)
    /\ Totals(lines, total_files, total_size)

LEMMA SameTimes == ambiguous_time' = ambiguous_time => ReadableTimes' = ReadableTimes
  BY DEF ReadableTimes, Readable

LEMMA TotalsStay ==
    ASSUME NEW s \in Seq(Lines), NEW line \in Lines, NEW files, NEW size, Totals(s, files, size)
    PROVE  Totals(Append(s, line), files + (IF IsFile(line) THEN 1 ELSE 0),
                  size + (IF IsFile(line) THEN line.size ELSE 0))
<1>1. 1 .. Len(Append(s, line)) = 1 .. Len(s) \cup {Len(s) + 1}
  OBVIOUS
<1>2. 1 .. Len(s) \in SUBSET (1 .. Len(s))
  OBVIOUS
<1> QED BY <1>1, <1>2, FilesGrow DEF Totals

LEMMA NoFileTotals ==
    ASSUME TypeOK, Structured, NEW line \in Lines, ~IsFile(line),
           lines' = Append(lines, line), UNCHANGED <<total_files, total_size>>
    PROVE  Totals(lines', total_files', total_size')
<1>1. total_files + 0 = total_files /\ total_size + 0 = total_size
  BY DEF TypeOK
<1>2. lines \in Seq(Lines) /\ Totals(lines, total_files, total_size)
  BY YieldedTypes DEF Structured
<1>3. Totals(Append(lines, line), total_files + 0, total_size + 0)
  BY <1>2, TotalsStay
<1> QED BY <1>1, <1>3

\* What the line t divides stays divided while the totals follow.
LEMMA TotalPartGrows ==
    ASSUME NEW s \in Seq(Lines), NEW line \in Lines, NEW G, NEW t \in Marks(s), NEW agg,
           TotalPart(s, t, agg, G), line.type \notin {"header", "total", "entry"}
    PROVE  LET r == Append(s, line)
               P == Part(s, t)
           IN  /\ t \in Marks(r) /\ Divides(r, t)
               /\ FilesOf(r, 1 .. t) = FilesOf(s, 1 .. t)
               /\ SizeOf(r, FilesOf(r, 1 .. t)) = SizeOf(s, FilesOf(s, 1 .. t))
               /\ FilesOf(r, 1 .. t) = FilesOf(r, 1 .. Len(r))
               /\ P \subseteq 1 .. Len(s) /\ \A k \in P : r[k] = s[k]
               /\ line.type = "blank" => Part(r, t) = P
               /\ line.type # "blank" => Part(r, t) = P \cup {Len(s) + 1}
<1> DEFINE r == Append(s, line)
           P == Part(s, t)
<1>1. t \in 1 .. Len(s) /\ t \in Nat /\ Len(s) \in Nat /\ P \subseteq 1 .. Len(s)
  BY PartTypes
<1>2. /\ r \in Seq(Lines) /\ r[Len(s) + 1] = line /\ Len(r) = Len(s) + 1
      /\ \A k \in 1 .. Len(s) : r[k] = s[k]
      /\ Marks(r) = Marks(s) /\ Headers(r) = Headers(s)
      /\ Part(r, t) = P \cup
           (IF line.type # "blank" /\ \A k \in t + 1 .. Len(s) : k \notin Marks(s)
            THEN {Len(s) + 1} ELSE {})
  <2>1. t \in 0 .. Len(s)
    BY <1>1
  <2>2. Part(r, t) = P \cup (IF Joins(s, line, t) THEN {Len(s) + 1} ELSE {})
    BY <2>1, GrowParts
  <2>3. Marks(r) = Marks(s) /\ Headers(r) = Headers(s)
    BY GrowParts
  <2>4. /\ r \in Seq(Lines) /\ r[Len(s) + 1] = line /\ Len(r) = Len(s) + 1
        /\ \A k \in 1 .. Len(s) : r[k] = s[k]
    BY GrowParts
  <2> HIDE DEF P, r
  <2> QED BY <2>2, <2>3, <2>4 DEF Joins
<1> HIDE DEF r, P
<1>3. Divides(r, t)
  BY <1>1, <1>2 DEF TotalPart, Divides
<1>4. \A k \in t + 1 .. Len(s) : k \notin Marks(s)
  <2>1. \A m \in Marks(s) : m \in Nat /\ m <= t
    BY <1>1, PartTypes DEF TotalPart, Divides
  <2> QED BY <1>1, <2>1
<1>5. 1 .. t \in SUBSET (1 .. Len(s))
  BY <1>1
<1>6. FilesOf(r, 1 .. t) = FilesOf(s, 1 .. t)
      /\ SizeOf(r, FilesOf(r, 1 .. t)) = SizeOf(s, FilesOf(s, 1 .. t))
  BY <1>2, <1>5, SameOn
<1>7. FilesOf(r, 1 .. Len(r)) = FilesOf(s, 1 .. Len(s))
  <2>1. \A k \in 1 .. Len(r) : k \in 1 .. Len(s) \/ k = Len(s) + 1
    BY <1>1, <1>2
  <2>2. \A k \in 1 .. Len(s) : k \in 1 .. Len(r)
    BY <1>1, <1>2
  <2>3. ~IsFile(line)
    BY DEF IsFile
  <2> QED BY <1>2, <2>1, <2>2, <2>3 DEF FilesOf
<1>8. FilesOf(s, 1 .. t) = FilesOf(s, 1 .. Len(s))
  BY DEF TotalPart
<1> QED BY <1>1, <1>2, <1>3, <1>4, <1>6, <1>7, <1>8 DEF r, P

LEMMA TotalPartBlank ==
    ASSUME NEW s \in Seq(Lines), NEW line \in Lines, NEW G, NEW t \in Marks(s), NEW agg,
           TotalPart(s, t, agg, G), line.type = "blank"
    PROVE  TotalPart(Append(s, line), t, agg, G)
<1> DEFINE r == Append(s, line)
           P == Part(s, t)
<1>1. /\ t \in Marks(r) /\ Divides(r, t) /\ r \in Seq(Lines)
      /\ FilesOf(r, 1 .. t) = FilesOf(s, 1 .. t)
      /\ SizeOf(r, FilesOf(r, 1 .. t)) = SizeOf(s, FilesOf(s, 1 .. t))
      /\ FilesOf(r, 1 .. t) = FilesOf(r, 1 .. Len(r))
      /\ P \in SUBSET (1 .. Len(s)) /\ (\A k \in P : r[k] = s[k]) /\ Part(r, t) = P
  BY TotalPartGrows
<1> HIDE DEF r, P
<1>2. /\ Shape(r, P, G) <=> Shape(s, P, G)
      /\ \A type : Has(r, P, type) <=> Has(s, P, type)
      /\ OnlySummaries(r, P) <=> OnlySummaries(s, P)
  BY <1>1, SameOn
<1>3. Tells(r, P, 1 .. t)
  BY <1>1 DEF TotalPart, Tells, P
<1> QED BY <1>1, <1>2, <1>3 DEF TotalPart, r, P

LEMMA TotalPartSummary ==
    ASSUME NEW s \in Seq(Lines), NEW line \in Lines, NEW G, NEW t \in Marks(s), NEW agg, NEW next,
           TotalPart(s, t, agg, G), Item(line, G),
           line.type \in {"file_summary", "dir_summary"},
           \A k \in Part(s, t) : Follows(s[k].type, line.type),
           line.type = "dir_summary" => agg.file_summary,
           line.type = "file_summary" =>
               Totals(s, line.count, line.size),
           next.file_summary <=> agg.file_summary \/ line.type = "file_summary",
           next.dir_summary <=> agg.dir_summary \/ line.type = "dir_summary"
    PROVE  TotalPart(Append(s, line), t, next, G)
<1> DEFINE r    == Append(s, line)
           P    == Part(s, t)
           last == Len(s) + 1
           Q    == P \cup {last}
<1>1. /\ t \in Marks(r) /\ Divides(r, t) /\ r \in Seq(Lines)
      /\ FilesOf(r, 1 .. t) = FilesOf(s, 1 .. t)
      /\ SizeOf(r, FilesOf(r, 1 .. t)) = SizeOf(s, FilesOf(s, 1 .. t))
      /\ FilesOf(r, 1 .. t) = FilesOf(r, 1 .. Len(r))
      /\ P \in SUBSET (1 .. Len(s)) /\ (\A k \in P : r[k] = s[k]) /\ Part(r, t) = Q
      /\ r[last] = line
  BY TotalPartGrows
<1>2. Shape(r, Q, G) /\ \A type : Has(r, Q, type) <=> Has(s, P, type) \/ line.type = type
  BY <1>1, ShapeGrows DEF TotalPart
<1> HIDE DEF r, P, last
<1>3. OnlySummaries(r, Q)
  BY <1>1 DEF TotalPart, OnlySummaries, P
<1>4. Tells(r, Q, 1 .. t)
  BY <1>1 DEF TotalPart, Tells, Totals, P
<1>5. /\ next.file_summary <=> Has(r, Q, "file_summary")
      /\ next.dir_summary <=> Has(r, Q, "dir_summary")
  BY <1>2 DEF TotalPart, P
<1> QED BY <1>1, <1>2, <1>3, <1>4, <1>5 DEF TotalPart, r, P

LEMMA OpenPartStays ==
    ASSUME NEW s \in Seq(Lines), NEW line \in Lines, NEW G, NEW sec, OpenPart(s, sec, G),
           sec.line \in 0 .. Len(s), line.type = "blank"
    PROVE  OpenPart(Append(s, line), sec, G)
<1> DEFINE r == Append(s, line)
           P == Part(s, sec.line)
<1>1. Part(r, sec.line) = P
  <2>1. ~Joins(s, line, sec.line)
    BY DEF Joins
  <2> QED BY <2>1, GrowParts
<1>2. P \in SUBSET (1 .. Len(s)) /\ r \in Seq(Lines) /\ \A k \in P : r[k] = s[k]
  <2>1. P \in SUBSET (1 .. Len(s))
    BY PartTypes
  <2> QED BY <2>1
<1> HIDE DEF r, P
<1>3. /\ Shape(r, P, G) <=> Shape(s, P, G)
      /\ \A type : Has(r, P, type) <=> Has(s, P, type)
      /\ FilesOf(r, P) = FilesOf(s, P)
      /\ SizeOf(r, FilesOf(r, P)) = SizeOf(s, FilesOf(s, P))
  BY <1>2, SameOn
<1> QED BY <1>1, <1>2, <1>3 DEF OpenPart, r, P

LEMMA OpenPartGrows ==
    ASSUME NEW s \in Seq(Lines), NEW line \in Lines, NEW G, NEW sec, NEW next,
           OpenPart(s, sec, G), sec.line \in 0 .. Len(s), Joins(s, line, sec.line),
           Item(line, G), \A k \in Part(s, sec.line) : Follows(s[k].type, line.type),
           line.type = "dir_summary" => sec.file_summary,
           next.line = sec.line, next.mountable,
           next.file_summary <=> sec.file_summary \/ line.type = "file_summary",
           next.dir_summary <=> sec.dir_summary \/ line.type = "dir_summary",
           next.had_entries <=> sec.had_entries \/ line.type = "entry",
           next.file_not_found <=> sec.file_not_found \/ line.type = "file_not_found",
           IF line.type = "file_summary"
           THEN next.reported_files = line.count /\ next.reported_size = line.size
           ELSE next.reported_files = sec.reported_files /\ next.reported_size = sec.reported_size,
           next.files = sec.files + (IF IsFile(line) THEN 1 ELSE 0),
           next.size = sec.size + (IF IsFile(line) THEN line.size ELSE 0)
    PROVE  OpenPart(Append(s, line), next, G)
<1> DEFINE r    == Append(s, line)
           P    == Part(s, sec.line)
           last == Len(s) + 1
           Q    == P \cup {last}
<1>1. Part(r, next.line) = Q
  BY GrowParts
<1>2. P \in SUBSET (1 .. Len(s)) /\ r[last] = line /\ \A k \in P : r[k] = s[k]
  <2>1. P \in SUBSET (1 .. Len(s))
    BY PartTypes
  <2> QED BY <2>1
<1>3. Shape(s, P, G) /\ (line.type = "dir_summary" => Has(s, P, "file_summary"))
  BY DEF OpenPart
<1>4. Shape(r, Q, G) /\ \A type : Has(r, Q, type) <=> Has(s, P, type) \/ line.type = type
  BY <1>2, <1>3, ShapeGrows
<1>5. /\ Cardinality(FilesOf(r, Q)) = Cardinality(FilesOf(s, P)) + (IF IsFile(line) THEN 1 ELSE 0)
      /\ SizeOf(r, FilesOf(r, Q))
           = SizeOf(s, FilesOf(s, P)) + (IF IsFile(line) THEN line.size ELSE 0)
  BY <1>2, FilesGrow
<1> HIDE DEF r, last
<1>6. /\ sec.file_summary <=> Has(s, P, "file_summary")
      /\ sec.dir_summary <=> Has(s, P, "dir_summary")
      /\ sec.had_entries <=> Has(s, P, "entry")
      /\ sec.file_not_found <=> Has(s, P, "file_not_found")
      /\ \A k \in P : s[k].type = "file_summary" =>
           sec.reported_files = s[k].count /\ sec.reported_size = s[k].size
      /\ sec.files = Cardinality(FilesOf(s, P)) /\ sec.size = SizeOf(s, FilesOf(s, P))
  BY DEF OpenPart
<1> HIDE DEF P
<1>7. /\ next.file_summary <=> Has(r, Q, "file_summary")
      /\ next.dir_summary <=> Has(r, Q, "dir_summary")
      /\ next.had_entries <=> Has(r, Q, "entry")
      /\ next.file_not_found <=> Has(r, Q, "file_not_found")
  BY <1>4, <1>6
<1>8. ASSUME NEW k \in Q, r[k].type = "file_summary"
      PROVE  next.reported_files = r[k].count /\ next.reported_size = r[k].size
  <2>1. CASE k = last
    BY <1>2, <1>8, <2>1
  <2>2. CASE k \in P
    <3>1. line.type # "file_summary"
      BY <1>2, <1>8, <2>2 DEF Follows, P
    <3> QED BY <1>2, <1>6, <1>8, <2>2, <3>1
  <2> QED BY <2>1, <2>2
<1>9. next.files = Cardinality(FilesOf(r, Q)) /\ next.size = SizeOf(r, FilesOf(r, Q))
  BY <1>5, <1>6
<1> HIDE DEF Q
<1> QED BY <1>1, <1>4, <1>7, <1>8, <1>9 DEF OpenPart, r

\* A section without an error that is closed.
LEMMA ClosedIsWhole ==
    ASSUME TypeOK, SectionLinked, Structured, section.open, CloseErrors = {}
    PROVE  Whole(lines, section.line, ReadableTimes)
<1>1. section.file_summary /\ section.dir_summary
      /\ section.reported_files = section.files /\ section.reported_size = section.size
  BY DEF CloseErrors, When
<1>2. OpenPart(lines, section, ReadableTimes) /\ section.mountable = lines[section.line].mountable
  BY DEF Structured, SectionLinked
<1> QED BY <1>1, <1>2 DEF OpenPart, Whole, Closed, Tells

LEMMA StepFacts ==
    ASSUME TypeOK, SectionLinked, NEW line \in Lines, ReadLine(line)
    PROVE  /\ lines \in Seq(Lines) /\ lines' = Append(lines, line) /\ Len(lines) \in Nat
           /\ ReadableTimes' = ReadableTimes
           /\ Headers(lines) \subseteq Marks(lines) /\ Marks(lines) \subseteq 1 .. Len(lines)
           /\ section.open => /\ ~aggregate.active /\ section.line \in Headers(lines)
                              /\ \A h \in Headers(lines) : h <= section.line
<1>1. lines \in Seq(Lines) /\ lines' = Append(lines, line) /\ ambiguous_time' = ambiguous_time
  BY YieldedTypes, TypesOfLine
<1>2. section.open => /\ ~aggregate.active /\ section.line \in Headers(lines)
                      /\ \A h \in Headers(lines) : h <= section.line
  BY <1>1, PartTypes DEF SectionLinked, IsLatest
<1> QED BY <1>1, <1>2, SameTimes, PartTypes

LEMMA StructBlank ==
    ASSUME TypeOK, SectionLinked, Structured, NEW line \in Lines, ReadBlank(line)
    PROVE  Structured'
<1>1. /\ UNCHANGED <<section, aggregate, total_files, total_size, saw_section>>
      /\ line.type = "blank" /\ ReadLine(line)
  BY DEF ReadBlank, Read, Take, ReadLine
<1>2. /\ lines \in Seq(Lines) /\ lines' = Append(lines, line) /\ ReadableTimes' = ReadableTimes
      /\ section.line \in 0 .. Len(lines)
  BY <1>1, StepFacts, YieldedTypes DEF SectionLinked
<1>3. Marks(lines') = Marks(lines) /\ Headers(lines') = Headers(lines)
  BY <1>1, <1>2, GrowParts
<1>4. Started(lines')
  BY <1>1, <1>2, StartedStays DEF Structured
<1>5. ~aggregate.active => Sections(lines', section, aggregate)
  BY <1>3 DEF Structured, Sections
<1>6. section.open => OpenPart(lines', section, ReadableTimes)
  BY <1>1, <1>2, OpenPartStays DEF Structured
<1>7. \A h \in Headers(lines') :
        Whole(lines', h, ReadableTimes) \/ (section.open /\ h = section.line)
  BY <1>1, <1>2, <1>3, WholeStays DEF Structured
<1>8. aggregate.active => \E t \in Marks(lines') : TotalPart(lines', t, aggregate, ReadableTimes)
  BY <1>1, <1>2, <1>3, TotalPartBlank DEF Structured
<1>9. Totals(lines', total_files', total_size')
  BY <1>1, <1>2, NoFileTotals DEF IsFile
<1>10. saw_section <=> Headers(lines') # {}
  BY <1>3 DEF Structured
<1> QED
  BY <1>1, <1>2, <1>4, <1>5, <1>6, <1>7, <1>8, <1>9, <1>10 DEF Structured

LEMMA StructHeader ==
    ASSUME TypeOK, SectionLinked, Structured, NEW line \in Lines, ReadHeader(line), errors' = {}
    PROVE  Structured'
<1>1. /\ line.type = "header" /\ ~aggregate.active /\ line.mountable /\ CloseErrors = {}
      /\ UNCHANGED <<aggregate, total_files, total_size>> /\ saw_section' = TRUE
      /\ section' = Section(Number, line.mountable) /\ ReadLine(line)
  BY LineTypes DEF ReadHeader, Read, Take, ReadLine, Report, When
<1>2. /\ lines \in Seq(Lines) /\ lines' = Append(lines, line) /\ ReadableTimes' = ReadableTimes
      /\ Number = Len(lines) + 1 /\ Len(lines) \in Nat
  BY <1>1, StepFacts, YieldedTypes
<1>3. /\ Marks(lines') = Marks(lines) \cup {Number}
      /\ Headers(lines') = Headers(lines) \cup {Number}
      /\ Part(lines', Number) = {} /\ lines'[Number] = line /\ lines' \in Seq(Lines)
  BY <1>1, <1>2, GrowParts
<1>4. Started(lines')
  BY <1>1, <1>2, StartedStays DEF Structured
<1>5. Sections(lines', section', aggregate')
  BY <1>1, <1>3 DEF Structured, Sections, Section
<1>6. OpenPart(lines', section', ReadableTimes)
  <2>1. FilesOf(lines', {}) = {}
    BY DEF FilesOf
  <2>2. Cardinality({}) = 0 /\ SizeOf(lines', {}) = 0
    <3>1. IsFiniteSet({}) /\ Cardinality({}) = 0
      BY FS_EmptySet
    <3> QED BY <3>1, Sizes
  <2>3. section'.line = Number
    BY <1>1 DEF Section
  <2> QED
    BY <1>1, <1>3, <2>1, <2>2, <2>3 DEF OpenPart, Section, Shape, Has
<1>7. \A h \in Headers(lines') :
        Whole(lines', h, ReadableTimes) \/ (section'.open /\ h = section'.line)
  <2>1. \A h \in Headers(lines) : Whole(lines, h, ReadableTimes)
    BY <1>1, ClosedIsWhole DEF Structured
  <2>2. \A h \in Headers(lines) : Whole(lines', h, ReadableTimes)
    BY <1>1, <1>2, <2>1, WholeStays
  <2> QED BY <1>1, <1>3, <2>2 DEF Section
<1>9. Totals(lines', total_files', total_size')
  BY <1>1, <1>2, NoFileTotals DEF IsFile
<1> QED
  BY <1>1, <1>2, <1>3, <1>4, <1>5, <1>6, <1>7, <1>9 DEF Structured

LEMMA StructTotal ==
    ASSUME TypeOK, SectionLinked, Structured, NEW line \in Lines, ReadTotal(line), errors' = {}
    PROVE  Structured'
<1>1. /\ line.type = "total" /\ ~aggregate.active /\ CloseErrors = {}
      /\ UNCHANGED <<total_files, total_size, saw_section>>
      /\ section' = [section EXCEPT !.open = FALSE]
      /\ aggregate' = [aggregate EXCEPT !.active = TRUE] /\ ReadLine(line)
  BY DEF ReadTotal, Read, Take, ReadLine, Report, When
<1>t. aggregate \in [active : BOOLEAN, file_summary : BOOLEAN, dir_summary : BOOLEAN]
      /\ section \in SectionType
  BY DEF TypeOK, SectionType
<1>2. /\ lines \in Seq(Lines) /\ lines' = Append(lines, line) /\ ReadableTimes' = ReadableTimes
      /\ Number = Len(lines) + 1 /\ Len(lines) \in Nat
      /\ Marks(lines) \subseteq 1 .. Len(lines)
  BY <1>1, StepFacts, YieldedTypes
<1>3. /\ Marks(lines') = Marks(lines) \cup {Number} /\ Headers(lines') = Headers(lines)
      /\ Part(lines', Number) = {} /\ lines'[Number] = line /\ Len(lines') = Number
  BY <1>1, <1>2, GrowParts
<1>4. Started(lines')
  BY <1>1, <1>2, StartedStays DEF Structured
<1>5. aggregate'.active /\ ~section'.open
      /\ aggregate'.file_summary = aggregate.file_summary
      /\ aggregate'.dir_summary = aggregate.dir_summary
  BY <1>1, <1>t DEF SectionType
<1>6. Sections(lines, section, aggregate)
  BY <1>1 DEF Structured
<1>7. \A h \in Headers(lines') : Whole(lines', h, ReadableTimes)
  <2>1. \A h \in Headers(lines) : Whole(lines, h, ReadableTimes)
    BY <1>1, ClosedIsWhole DEF Structured
  <2> QED BY <1>1, <1>2, <1>3, <2>1, WholeStays
<1>8. TotalPart(lines', Number, aggregate', ReadableTimes)
  <2>1. Divides(lines', Number)
    BY <1>1, <1>2, <1>3, <1>6 DEF Divides, Sections
  <2> QED
    BY <1>3, <1>5, <1>6, <2>1 DEF TotalPart, OnlySummaries, Shape, Has, Tells, Sections
<1>9. Totals(lines', total_files', total_size')
  BY <1>1, <1>2, NoFileTotals DEF IsFile
<1>10. saw_section <=> Headers(lines') # {}
  BY <1>3 DEF Structured
<1> QED
  BY <1>1, <1>2, <1>3, <1>4, <1>5, <1>7, <1>8, <1>9, <1>10 DEF Structured

LEMMA StructTotalSummary ==
    ASSUME TypeOK, SectionLinked, Structured, NEW line \in Lines, errors = {}, errors' = {},
           ReadTotalFileSummary(line) \/ ReadTotalDirSummary(line)
    PROVE  Structured'
<1>1. /\ line.type \in {"file_summary", "dir_summary"} /\ aggregate.active
      /\ UNCHANGED <<section, total_files, total_size, saw_section>> /\ ReadLine(line)
      /\ line.type = "dir_summary" => line.valid
  BY DEF ReadTotalFileSummary, ReadTotalDirSummary, Read, Take, ReadLine, ValidNumbers
<1>t. aggregate \in [active : BOOLEAN, file_summary : BOOLEAN, dir_summary : BOOLEAN]
  BY DEF TypeOK
<1>2. /\ lines \in Seq(Lines) /\ lines' = Append(lines, line) /\ ReadableTimes' = ReadableTimes
      /\ ~section.open /\ Marks(lines) \subseteq 1 .. Len(lines)
      /\ Headers(lines) \subseteq Marks(lines)
  BY <1>1, StepFacts
<1>3. Marks(lines') = Marks(lines) /\ Headers(lines') = Headers(lines)
  BY <1>1, <1>2, GrowParts
<1>4. PICK t \in Marks(lines) : TotalPart(lines, t, aggregate, ReadableTimes)
  BY <1>1 DEF Structured
<1>5. Started(lines')
  BY <1>1, <1>2, <1>4, StartedStays DEF Structured
<1>6. /\ line.type = "file_summary" =>
           /\ ~aggregate.file_summary /\ ~aggregate.dir_summary
           /\ line.count = total_files /\ line.size = total_size
           /\ aggregate' = [aggregate EXCEPT !.file_summary = TRUE]
      /\ line.type = "dir_summary" =>
           /\ ~aggregate.dir_summary /\ aggregate.file_summary
           /\ aggregate' = [aggregate EXCEPT !.dir_summary = TRUE]
  BY DEF ReadTotalFileSummary, ReadTotalDirSummary, Read, Take, Report, When
<1>7. /\ aggregate'.active
      /\ aggregate'.file_summary <=> aggregate.file_summary \/ line.type = "file_summary"
      /\ aggregate'.dir_summary <=> aggregate.dir_summary \/ line.type = "dir_summary"
  BY <1>1, <1>6, <1>t
<1>8. \A k \in Part(lines, t) : Follows(lines[k].type, line.type)
  BY <1>1, <1>4, <1>6 DEF TotalPart, OnlySummaries, Has, Follows
<1>9. TotalPart(lines', t, aggregate', ReadableTimes)
  <2>1. Item(line, ReadableTimes)
    BY <1>1 DEF Item
  <2>2. line.type = "file_summary" => Totals(lines, line.count, line.size)
    BY <1>6 DEF Structured
  <2> QED BY <1>1, <1>2, <1>4, <1>6, <1>7, <1>8, <2>1, <2>2, TotalPartSummary
<1>10. \A h \in Headers(lines') : Whole(lines', h, ReadableTimes)
  <2>1. \A h \in Headers(lines) : h < t /\ Whole(lines, h, ReadableTimes)
    <3>1. lines[t].type = "total" /\ \A h \in Headers(lines) : h # t
      BY <1>4 DEF TotalPart, Divides, Headers
    <3> QED BY <1>2, <1>4, <3>1 DEF TotalPart, Divides, Structured
  <2> QED BY <1>2, <1>3, <1>4, <2>1, WholeStays
<1>11. Totals(lines', total_files', total_size')
  BY <1>1, <1>2, NoFileTotals DEF IsFile
<1>12. saw_section <=> Headers(lines') # {}
  BY <1>3 DEF Structured
<1> QED
  BY <1>1, <1>2, <1>3, <1>5, <1>7, <1>9, <1>10, <1>11, <1>12 DEF Structured

\* A line of a section without an error.
LEMMA StructSection ==
    ASSUME TypeOK, SectionLinked, Structured, NEW line \in Lines, ReadLine(line),
           section.open, line.type \notin {"blank", "header", "total"},
           UNCHANGED <<aggregate, saw_section>>, section'.open, section'.line = section.line,
           OpenPart(lines', section', ReadableTimes), Totals(lines', total_files', total_size')
    PROVE  Structured'
<1>1. /\ lines \in Seq(Lines) /\ lines' = Append(lines, line) /\ ReadableTimes' = ReadableTimes
      /\ ~aggregate.active /\ Marks(lines) \subseteq 1 .. Len(lines)
      /\ section.line \in Headers(lines) /\ \A h \in Headers(lines) : h <= section.line
  BY StepFacts
<1>2. Marks(lines') = Marks(lines) /\ Headers(lines') = Headers(lines)
  BY <1>1, GrowParts
<1>3. Sections(lines, section, aggregate)
  BY <1>1 DEF Structured
<1>4. section.line \in Marks(lines)
  BY <1>1, <1>3 DEF Sections
<1>5. Started(lines')
  BY <1>1, <1>4, StartedStays DEF Structured
<1>6. Sections(lines', section', aggregate')
  BY <1>2, <1>3 DEF Sections
<1>7. ASSUME NEW h \in Headers(lines'), h # section.line PROVE Whole(lines', h, ReadableTimes)
  <2>1. h \in Headers(lines) /\ Whole(lines, h, ReadableTimes)
    BY <1>2, <1>7 DEF Structured
  <2>2. h < section.line
    BY <1>1, <1>3, <1>7, <2>1 DEF Sections
  <2> QED BY <1>1, <1>4, <2>1, <2>2, WholeStays
<1>8. saw_section <=> Headers(lines') # {}
  BY <1>2 DEF Structured
<1> QED
  BY <1>1, <1>5, <1>6, <1>7, <1>8 DEF Structured

\* The lines of the open section.
LEMMA OpenFacts ==
    ASSUME TypeOK, SectionLinked, Structured, NEW line \in Lines, ReadLine(line), section.open,
           line.type \notin {"blank", "header", "total"}
    PROVE  /\ section.line \in 0 .. Len(lines) /\ Joins(lines, line, section.line)
           /\ OpenPart(lines, section, ReadableTimes)
           /\ section.line + 0 = section.line /\ section.files + 0 = section.files
           /\ section.size + 0 = section.size /\ lines' = Append(lines, line)
           /\ lines \in Seq(Lines) /\ section \in SectionType
<1>1. /\ lines \in Seq(Lines) /\ ~aggregate.active /\ Marks(lines) \subseteq 1 .. Len(lines)
      /\ section.line \in Headers(lines) /\ \A h \in Headers(lines) : h <= section.line
      /\ lines' = Append(lines, line) /\ Len(lines) \in Nat
  BY StepFacts
<1>2. Marks(lines) = Headers(lines)
  BY <1>1 DEF Structured, Sections
<1>3. section \in SectionType /\ section.line \in Nat /\ section.files \in Nat /\ section.size \in Nat
  BY DEF TypeOK, SectionType
<1>4. section.line \in 0 .. Len(lines)
  BY <1>1, <1>2, <1>3
<1>5. \A k \in section.line + 1 .. Len(lines) : k \notin Marks(lines)
  BY <1>1, <1>2, <1>3
<1> QED
  BY <1>1, <1>3, <1>4, <1>5 DEF Joins, Structured

LEMMA StructSectionSummary ==
    ASSUME TypeOK, SectionLinked, Structured, NEW line \in Lines, errors = {}, errors' = {},
           ReadSectionFileSummary(line) \/ ReadSectionDirSummary(line)
    PROVE  Structured'
<1>1. /\ line.type \in {"file_summary", "dir_summary"} /\ ~aggregate.active /\ section.open
      /\ UNCHANGED <<aggregate, total_files, total_size, saw_section>> /\ ReadLine(line)
      /\ line.type = "dir_summary" => line.valid
  BY DEF ReadSectionFileSummary, ReadSectionDirSummary, Read, Take, ReadLine, ValidNumbers
<1>2. /\ section.line \in 0 .. Len(lines) /\ Joins(lines, line, section.line)
      /\ OpenPart(lines, section, ReadableTimes)
      /\ section.files + 0 = section.files /\ section.size + 0 = section.size
      /\ lines' = Append(lines, line) /\ lines \in Seq(Lines) /\ section \in SectionType
  BY <1>1, OpenFacts
<1>3. /\ line.type = "file_summary" =>
           /\ ~section.file_summary
           /\ section' = [section EXCEPT !.file_summary = TRUE, !.reported_files = line.count,
                                         !.reported_size = line.size]
      /\ line.type = "dir_summary" =>
           /\ ~section.dir_summary /\ section.file_summary
           /\ section' = [section EXCEPT !.dir_summary = TRUE]
  BY DEF ReadSectionFileSummary, ReadSectionDirSummary, Read, Take, Report, When
<1>4. /\ section'.open /\ section'.line = section.line /\ section'.mountable = section.mountable
      /\ section'.file_summary <=> section.file_summary \/ line.type = "file_summary"
      /\ section'.dir_summary <=> section.dir_summary \/ line.type = "dir_summary"
      /\ section'.had_entries = section.had_entries
      /\ section'.file_not_found = section.file_not_found
      /\ section'.files = section.files /\ section'.size = section.size
      /\ IF line.type = "file_summary"
         THEN section'.reported_files = line.count /\ section'.reported_size = line.size
         ELSE /\ section'.reported_files = section.reported_files
              /\ section'.reported_size = section.reported_size
  BY <1>1, <1>2, <1>3 DEF SectionType
<1>5. ~IsFile(line) /\ Item(line, ReadableTimes)
  BY <1>1 DEF IsFile, Item
<1>6. \A k \in Part(lines, section.line) : Follows(lines[k].type, line.type)
  <2> DEFINE P == Part(lines, section.line)
  <2>1. \A k \in P : lines[k].type \in {"entry", "file_not_found", "file_summary", "dir_summary"}
    BY <1>2 DEF OpenPart, Shape, Item
  <2>2. \A k \in P : /\ lines[k].type = "file_summary" => section.file_summary
                     /\ lines[k].type = "dir_summary" => section.file_summary /\ section.dir_summary
    BY <1>2 DEF OpenPart, Shape, Has
  <2> QED BY <1>1, <1>3, <2>1, <2>2 DEF Follows
<1>7. /\ OpenPart(Append(lines, line), section', ReadableTimes)
  <2>1. section'.mountable
    BY <1>2, <1>4 DEF OpenPart
  <2>2. section'.files = section.files + (IF IsFile(line) THEN 1 ELSE 0)
        /\ section'.size = section.size + (IF IsFile(line) THEN line.size ELSE 0)
    BY <1>2, <1>4, <1>5
  <2>3. /\ section'.had_entries <=> section.had_entries \/ line.type = "entry"
        /\ section'.file_not_found <=> section.file_not_found \/ line.type = "file_not_found"
    BY <1>1, <1>4
  <2> QED BY <1>2, <1>3, <1>4, <1>5, <1>6, <2>1, <2>2, <2>3, OpenPartGrows
<1>8. Totals(lines', total_files', total_size')
  BY <1>1, <1>2, <1>5, NoFileTotals
<1> QED
  BY <1>1, <1>2, <1>4, <1>7, <1>8, StructSection

LEMMA StructFileNotFound ==
    ASSUME TypeOK, SectionLinked, Structured, NEW line \in Lines, errors' = {},
           ReadFileNotFound(line)
    PROVE  Structured'
<1>1. /\ line.type = "file_not_found" /\ ~aggregate.active /\ section.open
      /\ ~section.file_summary /\ ~section.dir_summary /\ ~section.had_entries
      /\ ~section.file_not_found /\ section' = [section EXCEPT !.file_not_found = TRUE]
      /\ UNCHANGED <<aggregate, total_files, total_size, saw_section>> /\ ReadLine(line)
  BY DEF ReadFileNotFound, Read, Take, ReadLine, Report, Summarized
<1>2. /\ section.line \in 0 .. Len(lines) /\ Joins(lines, line, section.line)
      /\ OpenPart(lines, section, ReadableTimes)
      /\ section.files + 0 = section.files /\ section.size + 0 = section.size
      /\ lines' = Append(lines, line) /\ lines \in Seq(Lines) /\ section \in SectionType
  BY <1>1, OpenFacts
<1>4. /\ section'.open /\ section'.line = section.line /\ section'.mountable = section.mountable
      /\ section'.file_summary = section.file_summary /\ section'.dir_summary = section.dir_summary
      /\ section'.had_entries = section.had_entries /\ section'.file_not_found
      /\ section'.files = section.files /\ section'.size = section.size
      /\ section'.reported_files = section.reported_files
      /\ section'.reported_size = section.reported_size
  BY <1>1, <1>2 DEF SectionType
<1>5. ~IsFile(line) /\ Item(line, ReadableTimes)
  BY <1>1 DEF IsFile, Item
<1>6. \A k \in Part(lines, section.line) : Follows(lines[k].type, line.type)
  BY <1>1, <1>2 DEF OpenPart, Shape, Item, Has
<1>7. /\ OpenPart(Append(lines, line), section', ReadableTimes)
  <2>1. section'.mountable
    BY <1>2, <1>4 DEF OpenPart
  <2>2. section'.files = section.files + (IF IsFile(line) THEN 1 ELSE 0)
        /\ section'.size = section.size + (IF IsFile(line) THEN line.size ELSE 0)
    BY <1>2, <1>4, <1>5
  <2>3. /\ section'.had_entries <=> section.had_entries \/ line.type = "entry"
        /\ section'.file_not_found <=> section.file_not_found \/ line.type = "file_not_found"
        /\ section'.file_summary <=> section.file_summary \/ line.type = "file_summary"
        /\ section'.dir_summary <=> section.dir_summary \/ line.type = "dir_summary"
    BY <1>1, <1>4
  <2> QED BY <1>1, <1>2, <1>4, <1>5, <1>6, <2>1, <2>2, <2>3, OpenPartGrows
<1>8. Totals(lines', total_files', total_size')
  BY <1>1, <1>2, <1>5, NoFileTotals
<1> QED
  BY <1>1, <1>2, <1>4, <1>7, <1>8, StructSection

LEMMA StructEntry ==
    ASSUME TypeOK, SectionLinked, Structured, NEW line \in Lines, errors' = {}, ReadEntry(line)
    PROVE  Structured'
<1> DEFINE one   == IF IsFile(line) THEN 1 ELSE 0
           bytes == IF IsFile(line) THEN line.size ELSE 0
<1>1. /\ line.type = "entry" /\ TakesEntries
      /\ ~section.file_summary /\ ~section.dir_summary /\ ~section.file_not_found
      /\ line.kind # "rejected"
      /\ IsTaken(line) => ~Overflows(line.local) /\ ~Unlocalizable(line.local, ambiguous_time)
      /\ section' = [section EXCEPT !.had_entries = TRUE, !.files = section.files + one,
                                    !.size = section.size + bytes]
      /\ total_files' = total_files + one /\ total_size' = total_size + bytes
      /\ UNCHANGED <<aggregate, saw_section>> /\ ReadLine(line)
  BY DEF ReadEntry, Read, Take, ReadLine, Report, When, Rejected, Summarized, Count
<1>2. /\ section.line \in 0 .. Len(lines) /\ Joins(lines, line, section.line)
      /\ OpenPart(lines, section, ReadableTimes)
      /\ lines' = Append(lines, line) /\ lines \in Seq(Lines) /\ section \in SectionType
      /\ section.open
  BY <1>1, OpenFacts DEF TakesEntries
<1> HIDE DEF one, bytes
<1>4. /\ section'.open /\ section'.line = section.line /\ section'.mountable = section.mountable
      /\ section'.file_summary = section.file_summary /\ section'.dir_summary = section.dir_summary
      /\ section'.had_entries /\ section'.file_not_found = section.file_not_found
      /\ section'.files = section.files + one /\ section'.size = section.size + bytes
      /\ section'.reported_files = section.reported_files
      /\ section'.reported_size = section.reported_size
  BY <1>1, <1>2 DEF SectionType
<1>5. Item(line, ReadableTimes)
  <2>1. line.kind \in EntryKind /\ line.local \in Int
    BY <1>1, LineTypes
  <2>2. CASE IsTaken(line)
    <3>1. Readable(line.local)
      BY <1>1, <2>1, <2>2, LocalizedAsRead DEF TypeOK
    <3> QED BY <1>1, <2>1, <3>1 DEF Item, ReadableTimes
  <2>3. CASE ~IsTaken(line)
    BY <1>1, <2>1, <2>3 DEF IsTaken, EntryKind, Item
  <2> QED BY <2>2, <2>3
<1>6. \A k \in Part(lines, section.line) : Follows(lines[k].type, line.type)
  BY <1>1, <1>2 DEF OpenPart, Shape, Item, Has, Follows
<1>7. /\ OpenPart(Append(lines, line), section', ReadableTimes)
  <2>1. section'.mountable
    BY <1>2, <1>4 DEF OpenPart
  <2>3. /\ section'.had_entries <=> section.had_entries \/ line.type = "entry"
        /\ section'.file_not_found <=> section.file_not_found \/ line.type = "file_not_found"
        /\ section'.file_summary <=> section.file_summary \/ line.type = "file_summary"
        /\ section'.dir_summary <=> section.dir_summary \/ line.type = "dir_summary"
    BY <1>1, <1>4
  <2> QED BY <1>1, <1>2, <1>4, <1>5, <1>6, <2>1, <2>3, OpenPartGrows DEF one, bytes
<1>8. Totals(lines', total_files', total_size')
  BY <1>1, <1>2, TotalsStay DEF Structured, one, bytes
<1> QED
  BY <1>1, <1>2, <1>4, <1>7, <1>8, StructSection

LEMMA StructStep ==
    ASSUME TypeOK, SectionLinked, Structured, NEW line \in Lines, ReadLine(line),
           errors = {}, errors' = {}, state' = "parsing"
    PROVE  Structured'
<1>1. CASE \/ ReadLateHeader(line) \/ ReadMisplacedSummary(line) \/ ReadMisplacedEntry(line)
           \/ ReadUnknown(line)
  BY <1>1 DEF ReadLateHeader, ReadMisplacedSummary, ReadMisplacedEntry, ReadUnknown, Report
<1>2. CASE RaiseOverflow(line)
  BY <1>2 DEF RaiseOverflow
<1>3. CASE \/ ReadTotalFileSummary(line) \/ ReadTotalDirSummary(line)
           \/ ReadSectionFileSummary(line) \/ ReadSectionDirSummary(line)
  BY <1>3, StructTotalSummary, StructSectionSummary
<1> QED
  BY <1>1, <1>2, <1>3, StructBlank, StructHeader, StructTotal, StructFileNotFound, StructEntry
     DEF ReadLine

LEMMA StructInit == Init => Structured
<1> SUFFICES ASSUME Init PROVE Structured
  OBVIOUS
<1>1. lines = << >> /\ lines \in Seq(Lines) /\ Len(lines) = 0 /\ ~section.open /\ ~aggregate.active
      /\ ~aggregate.file_summary /\ ~aggregate.dir_summary /\ saw_section = FALSE
      /\ total_files = 0 /\ total_size = 0
  BY DEF Init, NoSection, Section
<1>2. Marks(lines) = {} /\ Headers(lines) = {} /\ DOMAIN lines = {}
  BY <1>1 DEF Marks, Headers
<1>3. FilesOf(lines, 1 .. Len(lines)) = {}
  BY <1>1 DEF FilesOf
<1>4. Cardinality({}) = 0 /\ SizeOf(lines, {}) = 0
  <2>1. IsFiniteSet({}) /\ Cardinality({}) = 0
    BY FS_EmptySet
  <2> QED BY <2>1, Sizes
<1> QED BY <1>1, <1>2, <1>3, <1>4 DEF Structured, Started, Sections, Totals

-----------------------------------------------------------------------------
(* What a complete listing that goes on from the next line says of it.     *)

LEMMA Ahead ==
    ASSUME NEW s \in Seq(Lines), NEW line \in Lines, NEW r \in Seq(Lines),
           Prefix(Append(s, line), r)
    PROVE  /\ Len(s) \in Nat /\ Len(s) + 1 \in 1 .. Len(r) /\ r[Len(s) + 1] = line
           /\ \A i \in 1 .. Len(s) : i \in 1 .. Len(r) /\ r[i] = s[i]
           /\ Marks(s) = Marks(r) \cap 1 .. Len(s) /\ Headers(s) = Headers(r) \cap 1 .. Len(s)
           /\ \A m \in Nat : Part(s, m) = Part(r, m) \cap 1 .. Len(s)
           /\ line.type \in {"header", "total"} <=> Len(s) + 1 \in Marks(r)
           /\ line.type = "header" <=> Len(s) + 1 \in Headers(r)
<1>1. /\ Len(s) \in Nat /\ Len(Append(s, line)) = Len(s) + 1 /\ DOMAIN s = 1 .. Len(s)
      /\ DOMAIN Append(s, line) = 1 .. Len(s) + 1 /\ Append(s, line)[Len(s) + 1] = line
      /\ \A i \in 1 .. Len(s) : Append(s, line)[i] = s[i]
      /\ Len(r) \in Nat /\ DOMAIN r = 1 .. Len(r)
  OBVIOUS
<1>2. Len(s) + 1 \in 1 .. Len(r) /\ r[Len(s) + 1] = line /\ Prefix(s, r)
  BY <1>1 DEF Prefix
<1>3. /\ line.type \in {"header", "total"} <=> Len(s) + 1 \in Marks(r)
      /\ line.type = "header" <=> Len(s) + 1 \in Headers(r)
  BY <1>1, <1>2 DEF Marks, Headers
<1> QED BY <1>1, <1>2, <1>3, PrefixParts

LEMMA NextOfPart ==
    ASSUME NEW s \in Seq(Lines), NEW line \in Lines, NEW r \in Seq(Lines),
           Prefix(Append(s, line), r), NEW m \in Marks(s), NEW G, Joins(s, line, m),
           Shape(r, Part(r, m), G)
    PROVE  /\ Len(s) + 1 \in Part(r, m) /\ Item(line, G)
           /\ \A k \in Part(s, m) : Follows(s[k].type, line.type)
           /\ line.type = "dir_summary" => Has(s, Part(s, m), "file_summary")
<1> DEFINE last == Len(s) + 1
           P    == Part(r, m)
<1>1. /\ Len(s) \in Nat /\ last \in 1 .. Len(r) /\ r[last] = line
      /\ \A i \in 1 .. Len(s) : r[i] = s[i]
      /\ m \in 1 .. Len(s) /\ Marks(s) = Marks(r) \cap 1 .. Len(s)
      /\ Part(s, m) = P \cap 1 .. Len(s) /\ last \notin Marks(r) /\ line.type # "blank"
      /\ \A k \in m + 1 .. Len(s) : k \notin Marks(s)
  <2>1. m \in 1 .. Len(s) /\ m \in Nat
    BY PartTypes
  <2> QED BY <2>1, Ahead DEF Joins
<1>2. last \in P
  <2>1. \A k \in m + 1 .. last : k = last \/ (k \in m + 1 .. Len(s) /\ k \in 1 .. Len(s))
    BY <1>1
  <2>2. \A k \in m + 1 .. last : k \notin Marks(r)
    BY <1>1, <2>1
  <2>3. last \in m + 1 .. Len(r)
    BY <1>1
  <2> HIDE DEF last
  <2> QED BY <1>1, <2>2, <2>3 DEF Part
<1>3. \A k \in P : k \in Nat
  BY <1>1, PartTypes
<1>4. \A k \in Part(s, m) : k \in P /\ k < last /\ r[k] = s[k]
  BY <1>1
<1> HIDE DEF P, last
<1>5. Item(line, G) /\ \A k \in Part(s, m) : Follows(s[k].type, line.type)
  BY <1>1, <1>2, <1>4 DEF Shape, P
<1>6. ASSUME line.type = "dir_summary" PROVE Has(s, Part(s, m), "file_summary")
  <2>1. PICK k \in P : r[k].type = "file_summary"
    BY <1>1, <1>2, <1>6 DEF Shape, Has, P
  <2>2. ~(last < k) /\ k # last
    BY <1>1, <1>2, <1>6, <2>1 DEF Shape, Follows, P
  <2>3. k \in 1 .. Len(s)
    <3>1. k \in 1 .. Len(r)
      BY <1>1, PartTypes DEF P
    <3> QED BY <1>1, <2>2, <3>1 DEF last
  <2> QED BY <1>1, <2>1, <2>3 DEF Has, P
<1> QED BY <1>2, <1>5, <1>6 DEF P, last

LEMMA EndOfPart ==
    ASSUME NEW s \in Seq(Lines), NEW line \in Lines, NEW r \in Seq(Lines),
           Prefix(Append(s, line), r), NEW m \in Marks(s), line.type \in {"header", "total"}
    PROVE  Part(r, m) = Part(s, m)
<1>1. /\ Len(s) \in Nat /\ Len(s) + 1 \in Marks(r) /\ m \in 1 .. Len(s) /\ m \in Nat
      /\ Part(s, m) = Part(r, m) \cap 1 .. Len(s) /\ Part(r, m) \subseteq m + 1 .. Len(r)
      /\ Len(r) \in Nat
  <2>1. m \in 1 .. Len(s) /\ m \in Nat
    BY PartTypes
  <2> QED BY <2>1, Ahead, PartTypes
<1>2. ASSUME NEW i \in Part(r, m) PROVE i \in 1 .. Len(s)
  <2>1. i \in Nat /\ m < i
    BY <1>1
  <2>2. Len(s) + 1 \notin m + 1 .. i
    BY <1>1 DEF Part
  <2> QED BY <1>1, <2>1, <2>2
<1> QED BY <1>1, <1>2

\* A line of the open section.
LEMMA InSection ==
    ASSUME TypeOK, SectionLinked, Structured, NEW line \in Lines, ReadLine(line),
           NEW r \in Seq(Lines), Prefix(Append(lines, line), r), Complete(r, ReadableTimes),
           line.type \notin {"blank", "header", "total"}, ~aggregate.active
    PROVE  /\ section.open /\ section.mountable /\ Item(line, ReadableTimes)
           /\ OpenPart(lines, section, ReadableTimes)
           /\ \A k \in Part(lines, section.line) : Follows(lines[k].type, line.type)
           /\ line.type = "dir_summary" => section.file_summary
           /\ line.type = "file_summary" => line.count \in Nat /\ line.size \in Nat
<1>1. lines \in Seq(Lines) /\ Sections(lines, section, aggregate)
  BY StepFacts DEF Structured
<1>2. Marks(lines) # {}
  <2>1. /\ Len(lines) \in Nat /\ Len(lines) + 1 \in 1 .. Len(r) /\ r[Len(lines) + 1] = line
        /\ Marks(lines) = Marks(r) \cap 1 .. Len(lines) /\ Len(lines) + 1 \notin Marks(r)
    BY <1>1, Ahead
  <2>2. PICK m \in Marks(r) : m <= Len(lines) + 1
    BY <2>1 DEF Complete, Started
  <2>3. m \in 1 .. Len(r)
    BY PartTypes
  <2> QED BY <2>1, <2>2, <2>3
<1>3. section.open
  BY <1>1, <1>2 DEF Sections
<1>4. /\ Joins(lines, line, section.line) /\ OpenPart(lines, section, ReadableTimes)
  BY <1>3, OpenFacts
<1>5. section.line \in Headers(lines) /\ section.line \in Marks(lines)
  BY <1>3, StepFacts
<1>6. /\ Shape(r, Part(r, section.line), ReadableTimes)
      /\ Tells(r, Part(r, section.line), Part(r, section.line))
  <2>1. section.line \in Headers(r)
    BY <1>1, <1>5, Ahead
  <2> QED BY <2>1 DEF Complete, Whole, Closed
<1>7. /\ Len(lines) + 1 \in Part(r, section.line) /\ Item(line, ReadableTimes)
      /\ \A k \in Part(lines, section.line) : Follows(lines[k].type, line.type)
      /\ line.type = "dir_summary" => Has(lines, Part(lines, section.line), "file_summary")
  BY <1>1, <1>4, <1>5, <1>6, NextOfPart
<1>8. ASSUME line.type = "file_summary" PROVE line.count \in Nat /\ line.size \in Nat
  <2>1. r[Len(lines) + 1] = line
    BY <1>1, Ahead
  <2>2. Part(r, section.line) \in SUBSET (1 .. Len(r))
    BY <1>1, <1>5, PartTypes
  <2> QED BY <1>6, <1>7, <1>8, <2>1, <2>2, FilesTypes DEF Tells
<1> QED BY <1>3, <1>4, <1>7, <1>8 DEF OpenPart

\* The total line that was read is the one of the listing.
LEMMA OneTotal ==
    ASSUME TypeOK, Structured, NEW line \in Lines,
           NEW r \in Seq(Lines), Prefix(Append(lines, line), r), Complete(r, ReadableTimes),
           aggregate.active
    PROVE  \E t \in Marks(lines) :
             /\ TotalPart(lines, t, aggregate, ReadableTimes) /\ Footer(r, t, ReadableTimes)
             /\ t \in 1 .. Len(lines) /\ \A m \in Marks(r) \ {t} : m < t /\ m \in Headers(r)
<1>1. lines \in Seq(Lines)
  BY YieldedTypes
<1>2. PICK t \in Marks(lines) : TotalPart(lines, t, aggregate, ReadableTimes)
  BY DEF Structured
<1>3. t \in 1 .. Len(lines) /\ t \in Marks(r) /\ r[t].type = "total"
  BY <1>1, <1>2, Ahead, PartTypes DEF TotalPart, Divides
<1>4. PICK u \in Marks(r) : Footer(r, u, ReadableTimes)
  BY DEF Complete
<1>5. u = t
  BY <1>3, <1>4 DEF Footer, Divides, Headers
<1> QED BY <1>2, <1>3, <1>4, <1>5 DEF Footer, Divides

\* A line of the totals.
LEMMA InTotals ==
    ASSUME TypeOK, SectionLinked, Structured, NEW line \in Lines, ReadLine(line),
           NEW r \in Seq(Lines), Prefix(Append(lines, line), r), Complete(r, ReadableTimes),
           line.type \notin {"blank", "header", "total"}, aggregate.active
    PROVE  /\ line.type \in {"file_summary", "dir_summary"} /\ Item(line, ReadableTimes)
           /\ line.type = "file_summary" => /\ line.count = total_files /\ line.size = total_size
                                            /\ ~aggregate.file_summary /\ ~aggregate.dir_summary
           /\ line.type = "dir_summary" => aggregate.file_summary /\ ~aggregate.dir_summary
<1>1. lines \in Seq(Lines)
  BY YieldedTypes
<1>2. PICK t \in Marks(lines) :
        /\ TotalPart(lines, t, aggregate, ReadableTimes) /\ Footer(r, t, ReadableTimes)
        /\ t \in 1 .. Len(lines) /\ \A m \in Marks(r) \ {t} : m < t /\ m \in Headers(r)
  BY OneTotal
<1>3. /\ Len(lines) \in Nat /\ r[Len(lines) + 1] = line
      /\ \A i \in 1 .. Len(lines) : r[i] = lines[i]
      /\ Marks(lines) = Marks(r) \cap 1 .. Len(lines)
  BY <1>1, Ahead
<1>4. Joins(lines, line, t)
  <2>1. \A k \in t + 1 .. Len(lines) : ~(k < t) /\ k # t
    BY <1>2, <1>3
  <2> QED BY <1>2, <1>3, <2>1 DEF Joins
<1>5. /\ Len(lines) + 1 \in Part(r, t) /\ Item(line, ReadableTimes)
      /\ \A k \in Part(lines, t) : Follows(lines[k].type, line.type)
      /\ line.type = "dir_summary" => Has(lines, Part(lines, t), "file_summary")
  <2>1. Shape(r, Part(r, t), ReadableTimes)
    BY <1>2 DEF Footer, Closed
  <2> QED BY <1>1, <1>2, <1>4, <2>1, NextOfPart
<1>6. line.type \in {"file_summary", "dir_summary"}
  BY <1>2, <1>3, <1>5 DEF Footer, OnlySummaries
<1>7. ASSUME line.type = "file_summary" PROVE line.count = total_files /\ line.size = total_size
  <2>1. line.count = Cardinality(FilesOf(r, 1 .. t)) /\ line.size = SizeOf(r, FilesOf(r, 1 .. t))
    BY <1>2, <1>3, <1>5, <1>7 DEF Footer, Tells
  <2>2. 1 .. t \in SUBSET (1 .. Len(lines))
    BY <1>2
  <2>3. FilesOf(r, 1 .. t) = FilesOf(lines, 1 .. t)
        /\ SizeOf(r, FilesOf(r, 1 .. t)) = SizeOf(lines, FilesOf(lines, 1 .. t))
    <3>1. \A k \in 1 .. t : r[k] = lines[k]
      BY <1>3, <2>2
    <3> QED BY <1>1, <2>2, <3>1, SameOn
  <2> QED BY <1>2, <2>1, <2>3 DEF TotalPart, Structured, Totals
<1>8. /\ line.type = "file_summary" => ~aggregate.file_summary /\ ~aggregate.dir_summary
      /\ line.type = "dir_summary" => aggregate.file_summary /\ ~aggregate.dir_summary
  BY <1>2, <1>5 DEF TotalPart, Has, Follows
<1> QED BY <1>5, <1>6, <1>7, <1>8

\* The section before a header or the totals.
LEMMA ClosesWell ==
    ASSUME TypeOK, SectionLinked, Structured, NEW line \in Lines, ReadLine(line),
           NEW r \in Seq(Lines), Prefix(Append(lines, line), r), Complete(r, ReadableTimes),
           line.type \in {"header", "total"}
    PROVE  CloseErrors = {}
<1> SUFFICES ASSUME section.open PROVE CloseErrors = {}
  BY DEF CloseErrors
<1> DEFINE P == Part(lines, section.line)
<1>1. lines \in Seq(Lines) /\ section.line \in Headers(lines) /\ section.line \in Marks(lines)
  BY StepFacts
<1>2. /\ \A i \in 1 .. Len(lines) : r[i] = lines[i]
      /\ section.line \in Headers(r) /\ Part(r, section.line) = P
  BY <1>1, Ahead, EndOfPart
<1>3. P \in SUBSET (1 .. Len(lines)) /\ \A k \in P : r[k] = lines[k]
  <2>1. P \in SUBSET (1 .. Len(lines))
    BY <1>1, PartTypes
  <2> QED BY <1>2, <2>1
<1>4. Closed(r, P, ReadableTimes) /\ Tells(r, P, P)
  BY <1>2 DEF Complete, Whole
<1> HIDE DEF P
<1>5. /\ Has(lines, P, "file_summary") /\ Has(lines, P, "dir_summary")
      /\ FilesOf(r, P) = FilesOf(lines, P)
      /\ SizeOf(r, FilesOf(r, P)) = SizeOf(lines, FilesOf(lines, P))
  BY <1>1, <1>3, <1>4, SameOn DEF Closed
<1>6. PICK k \in P : lines[k].type = "file_summary"
  BY <1>5 DEF Has
<1>7. OpenPart(lines, section, ReadableTimes)
  BY DEF Structured
<1>8. section.file_summary /\ section.dir_summary
      /\ section.reported_files = section.files /\ section.reported_size = section.size
  BY <1>3, <1>4, <1>5, <1>6, <1>7 DEF OpenPart, Tells, P
<1> QED BY <1>8 DEF CloseErrors, When

\* A line that a complete listing goes on with is read without an error.
LEMMA NoErrorIfComplete ==
    ASSUME TypeOK, SectionLinked, Structured, NEW line \in Lines, ReadLine(line), errors = {},
           NEW r \in Seq(Lines), Prefix(lines', r), Complete(r, ReadableTimes)
    PROVE  errors' = {}
<1> USE DEF Read, Take, Report, When
<1>1. /\ lines \in Seq(Lines) /\ Prefix(Append(lines, line), r) /\ Len(lines) \in Nat
      /\ aggregate \in [active : BOOLEAN, file_summary : BOOLEAN, dir_summary : BOOLEAN]
  BY StepFacts DEF TypeOK
<1>2. line.type \in {"header", "total"} => CloseErrors = {} /\ ~aggregate.active
  <2> SUFFICES ASSUME line.type \in {"header", "total"}, aggregate.active PROVE FALSE
    BY <1>1, ClosesWell
  <2>1. PICK t \in Marks(lines) : /\ t \in 1 .. Len(lines)
                                  /\ \A m \in Marks(r) \ {t} : m < t /\ m \in Headers(r)
    BY <1>1, OneTotal
  <2>2. Len(lines) + 1 \in Marks(r)
    BY <1>1, Ahead
  <2> QED BY <1>1, <2>1, <2>2
<1>3. line.type = "header" => line.mountable
  <2>1. line.type = "header" => Len(lines) + 1 \in Headers(r) /\ r[Len(lines) + 1] = line
    BY <1>1, Ahead
  <2> QED BY <2>1 DEF Complete, Whole
<1>4. CASE ReadBlank(line) \/ RaiseOverflow(line)
  BY <1>4 DEF ReadBlank, RaiseOverflow
<1>5. CASE ReadHeader(line) \/ ReadLateHeader(line) \/ ReadTotal(line)
  BY <1>2, <1>3, <1>5 DEF ReadHeader, ReadLateHeader, ReadTotal
<1>6. CASE line.type \notin {"blank", "header", "total"} /\ ~aggregate.active
  <2>1. /\ section.open /\ section.mountable /\ Item(line, ReadableTimes)
        /\ OpenPart(lines, section, ReadableTimes)
        /\ \A k \in Part(lines, section.line) : Follows(lines[k].type, line.type)
        /\ line.type = "dir_summary" => section.file_summary
    BY <1>1, <1>6, InSection
  <2>2. /\ line.type = "file_summary" => ~section.file_summary
        /\ line.type = "dir_summary" => ~section.dir_summary /\ line.valid
        /\ line.type = "file_not_found" =>
             ~Summarized /\ ~section.had_entries /\ ~section.file_not_found
        /\ line.type = "entry" => ~Summarized /\ ~section.file_not_found
    BY <2>1 DEF OpenPart, Has, Follows, Item, Summarized
  <2>3. CASE ReadMisplacedSummary(line) \/ ReadFileNotFound(line)
    <3>1. line.type \in {"file_summary", "dir_summary"} => ValidNumbers(line)
      BY <1>6, <1>1, <2>2, InSection DEF ValidNumbers, Invalid
    <3> QED BY <1>6, <2>1, <2>2, <2>3, <3>1 DEF ReadMisplacedSummary, ReadFileNotFound
  <2>4. CASE ReadSectionFileSummary(line) \/ ReadSectionDirSummary(line)
    BY <2>1, <2>2, <2>4 DEF ReadSectionFileSummary, ReadSectionDirSummary
  <2>5. CASE ReadTotalFileSummary(line) \/ ReadTotalDirSummary(line)
    BY <1>6, <2>5 DEF ReadTotalFileSummary, ReadTotalDirSummary
  <2>6. CASE ReadMisplacedEntry(line) \/ ReadUnknown(line)
    BY <1>6, <2>1, <2>2, <2>6 DEF ReadMisplacedEntry, ReadUnknown, TakesEntries, Item
  <2>7. CASE ReadEntry(line)
    <3>1. line.type = "entry" /\ line.kind # "rejected" /\ line.kind \in EntryKind
          /\ line.local \in Int /\ (IsTaken(line) => ~Overflows(line.local))
      BY <2>1, <2>7, LineTypes DEF ReadEntry, Item
    <3>2. IsTaken(line) => Readable(line.local)
      BY <2>1, <3>1 DEF IsTaken, Item, ReadableTimes
    <3>3. IsTaken(line) => ~Unlocalizable(line.local, ambiguous_time)
      BY <3>1, <3>2, LocalizedAsRead DEF TypeOK
    <3> QED BY <2>7, <3>1, <3>3 DEF ReadEntry, Rejected
  <2> QED BY <1>4, <1>5, <2>3, <2>4, <2>5, <2>6, <2>7 DEF ReadLine
<1>7. CASE line.type \notin {"blank", "header", "total"} /\ aggregate.active
  <2>1. /\ line.type \in {"file_summary", "dir_summary"} /\ Item(line, ReadableTimes)
        /\ line.type = "file_summary" => /\ line.count = total_files /\ line.size = total_size
                                         /\ ~aggregate.file_summary /\ ~aggregate.dir_summary
        /\ line.type = "dir_summary" => aggregate.file_summary /\ ~aggregate.dir_summary
    BY <1>1, <1>7, InTotals
  <2>2. ValidNumbers(line)
    BY <2>1 DEF ValidNumbers, Invalid, Item, TypeOK
  <2>3. CASE \/ ReadMisplacedSummary(line) \/ ReadSectionFileSummary(line)
             \/ ReadSectionDirSummary(line)
    BY <1>7, <2>2, <2>3 DEF ReadMisplacedSummary, ReadSectionFileSummary, ReadSectionDirSummary
  <2>4. CASE ReadTotalFileSummary(line) \/ ReadTotalDirSummary(line)
    BY <2>1, <2>4 DEF ReadTotalFileSummary, ReadTotalDirSummary
  <2>5. CASE \/ ReadFileNotFound(line) \/ ReadMisplacedEntry(line) \/ ReadEntry(line)
             \/ ReadUnknown(line)
    BY <2>1, <2>5 DEF ReadFileNotFound, ReadMisplacedEntry, ReadEntry, ReadUnknown
  <2> QED BY <1>4, <1>5, <2>3, <2>4, <2>5 DEF ReadLine
<1> QED
  <2>1. CASE line.type = "blank"
    BY <1>4, <2>1 DEF ReadLine, ReadHeader, ReadLateHeader, ReadTotal, ReadMisplacedSummary,
       ReadTotalFileSummary, ReadTotalDirSummary, ReadSectionFileSummary, ReadSectionDirSummary,
       ReadFileNotFound, ReadMisplacedEntry, ReadEntry, ReadUnknown
  <2>2. CASE line.type \in {"header", "total"}
    BY <1>5, <2>2 DEF ReadLine, ReadBlank, ReadMisplacedSummary,
       ReadTotalFileSummary, ReadTotalDirSummary, ReadSectionFileSummary, ReadSectionDirSummary,
       ReadFileNotFound, ReadMisplacedEntry, ReadEntry, RaiseOverflow, ReadUnknown
  <2> QED BY <1>6, <1>7, <2>1, <2>2

\* No complete listing starts with the lines s.
Doomed(s, G) == \A r \in Seq(Lines) : Prefix(s, r) => ~Complete(r, G)

\* While lines are read: what an error, and the absence of one, say of them.
ErrorsMeant ==
    state = "parsing" => /\ errors = {} => Structured
                         /\ errors # {} => Doomed(lines, ReadableTimes)

LEMMA MeantStep ==
    ASSUME TypeOK, SectionLinked, ErrorsMeant, NEW line \in Lines, ReadLine(line)
    PROVE  ErrorsMeant'
<1>1. /\ lines \in Seq(Lines) /\ lines' = Append(lines, line) /\ ReadableTimes' = ReadableTimes
      /\ state = "parsing" /\ errors \subseteq errors'
  BY StepFacts, ErrorsGrow
<1>2. ASSUME state' = "parsing", errors' = {} PROVE Structured'
  BY <1>1, <1>2, StructStep DEF ErrorsMeant
<1>3. ASSUME errors' # {}, NEW r \in Seq(Lines), Prefix(lines', r), Complete(r, ReadableTimes)
      PROVE  FALSE
  <2>1. CASE errors = {}
    BY <1>1, <1>3, <2>1, NoErrorIfComplete DEF ErrorsMeant
  <2>2. CASE errors # {}
    <3>1. Prefix(lines, r)
      <4>1. /\ Len(lines') = Len(lines) + 1 /\ Len(lines) \in Nat /\ DOMAIN lines = 1 .. Len(lines)
            /\ DOMAIN lines' = 1 .. Len(lines) + 1 /\ \A i \in DOMAIN lines : lines'[i] = lines[i]
        BY <1>1
      <4> QED BY <1>3, <4>1 DEF Prefix
    <3> QED BY <1>1, <1>3, <2>2, <3>1 DEF ErrorsMeant, Doomed
  <2> QED BY <2>1, <2>2
<1> QED BY <1>1, <1>2, <1>3 DEF ErrorsMeant, Doomed

LEMMA SameListing ==
    lines' = lines /\ ambiguous_time' = ambiguous_time =>
        (CompleteListing(lines)' <=> CompleteListing(lines))
  BY DEF CompleteListing, WholeSection, Body, Readable

LEMMA AcceptEnd ==
    ASSUME TypeOK, SectionLinked, ErrorsMeant, End
    PROVE  AcceptsCompleteListings'
<1>1. /\ lines' = lines /\ ambiguous_time' = ambiguous_time /\ state = "parsing"
      /\ lines \in Seq(Lines) /\ errors \subseteq errors'
  BY YieldedTypes DEF End, Report
<1>2. ReadableTimes' = ReadableTimes
  BY <1>1, SameTimes
<1>3. CompleteListing(lines)' <=> Complete(lines, ReadableTimes)
  <2>1. CompleteListing(lines) <=> Complete(lines, ReadableTimes)
    BY <1>1, CompleteIs
  <2>2. CompleteListing(lines)' <=> CompleteListing(lines)
    BY <1>1, SameListing
  <2> QED BY <2>1, <2>2
<1>4. Prefix(lines, lines)
  <2>1. Len(lines) \in Nat
    BY <1>1
  <2> QED BY <2>1 DEF Prefix
<1>5. errors # {} => ~Complete(lines, ReadableTimes)
  BY <1>1, <1>4 DEF ErrorsMeant, Doomed
<1>6. ASSUME errors' = {} PROVE Complete(lines, ReadableTimes)
  <2>1. Structured
    BY <1>1, <1>6 DEF ErrorsMeant
  <2>2. /\ saw_section /\ aggregate.active /\ aggregate.file_summary /\ aggregate.dir_summary
    BY <1>6 DEF End, Report, When
  <2>3. ~section.open
    BY <2>2 DEF SectionLinked
  <2>4. PICK t \in Marks(lines) : TotalPart(lines, t, aggregate, ReadableTimes)
    BY <2>1, <2>2 DEF Structured
  <2>5. Footer(lines, t, ReadableTimes)
    BY <2>2, <2>4 DEF TotalPart, Footer, Closed
  <2> QED BY <2>1, <2>2, <2>3, <2>5 DEF Structured, Complete
<1>7. ASSUME Complete(lines, ReadableTimes) PROVE errors' \subseteq {"DECODE_ERROR"}
  <2>1. errors = {} /\ Structured
    BY <1>1, <1>5, <1>7 DEF ErrorsMeant
  <2>2. saw_section
    BY <1>7, <2>1 DEF Structured, Complete
  <2>3. PICK t \in Marks(lines) : Footer(lines, t, ReadableTimes)
    BY <1>7 DEF Complete
  <2>4. aggregate.active
    BY <2>1, <2>3 DEF Structured, Sections, Footer, Divides, Headers
  <2>5. PICK u \in Marks(lines) : TotalPart(lines, u, aggregate, ReadableTimes)
    BY <2>1, <2>4 DEF Structured
  <2>6. u = t
    BY <2>3, <2>5 DEF Footer, TotalPart, Divides, Headers
  <2>7. aggregate.file_summary /\ aggregate.dir_summary
    BY <2>3, <2>5, <2>6 DEF Footer, TotalPart, Closed
  <2>8. CloseErrors = {}
    BY <2>4 DEF SectionLinked, CloseErrors
  <2> QED BY <2>1, <2>2, <2>4, <2>7, <2>8 DEF End, Report, When
<1> QED BY <1>3, <1>5, <1>6, <1>7 DEF AcceptsCompleteListings

\* Of the listings that are read to their end, the parser accepts the complete ones
\* and no others.
THEOREM ExactlyCompleteIsAccepted == Spec => []AcceptsCompleteListings
<1> DEFINE Inv == ErrorsMeant /\ AcceptsCompleteListings
<1>1. Init => Inv
  BY StructInit DEF Init, ErrorsMeant, AcceptsCompleteListings
<1>2. TypeOK /\ SectionLinked /\ Inv /\ [Next]_vars => Inv'
  <2> SUFFICES ASSUME TypeOK, SectionLinked, Inv, [Next]_vars PROVE Inv'
    OBVIOUS
  <2>1. ASSUME NEW line \in Lines, ReadLine(line) PROVE Inv'
    <3>1. AcceptsCompleteListings'
      BY <2>1, ErrorsGrow DEF AcceptsCompleteListings
    <3> QED BY <2>1, <3>1, MeantStep
  <2>2. CASE End
    <3>1. ErrorsMeant'
      BY <2>2 DEF End, ErrorsMeant
    <3> QED BY <2>2, <3>1, AcceptEnd
  <2>3. CASE UNCHANGED vars
    <3>1. ErrorsMeant'
      BY <2>3 DEF vars, ErrorsMeant, Structured, ReadableTimes, Readable, Doomed
    <3>2. lines' = lines /\ ambiguous_time' = ambiguous_time /\ state' = state /\ errors' = errors
      BY <2>3 DEF vars
    <3>3. CompleteListing(lines)' <=> CompleteListing(lines)
      BY <3>2, SameListing
    <3>4. AcceptsCompleteListings'
      BY <3>2, <3>3 DEF AcceptsCompleteListings
    <3> QED BY <3>1, <3>4
  <2> QED
    BY <2>1, <2>2, <2>3 DEF Next
<1> QED
  BY <1>1, <1>2, ParserTyped, Linked, PTL DEF Spec

=============================================================================
