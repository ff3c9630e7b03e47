-------------------------- MODULE WindowsDirParser --------------------------
(***************************************************************************)
(* The streaming state machine for Windows "dir /s" listings               *)
(* (parser/windows_dir/parser.py and state.py).                            *)
(*                                                                         *)
(* A line is what the regular expressions of grammar.py make of it, tried  *)
(* in the order of the code: a line they tell apart is a different value.  *)
(* Diagnostics are reduced to the set of the codes reported.  A yielded    *)
(* entry is its kind, its size, the numbers of its line and of the header  *)
(* of its section, and its instant: none for a header, and none for a time *)
(* that was refused.                                                       *)
(***************************************************************************)
EXTENDS Timestamps, Sequences

CONSTANTS
    Lines,      \* the lines a listing may have
    MaxLines,   \* bound: the length of a listing
    MaxShort    \* bound: the length of one with an error or a line that is ignored

-----------------------------------------------------------------------------
(* Lines, as grammar.py classifies them.                                   *)

Invalid == -1   \* parse_integer() returned None

\* parse_entry(): an entry of a directory or a file, a matched line that is no
\* entry ("." and ".."), or one it reports with a diagnostic of its own.
EntryKind == {"directory", "file", "ignored", "rejected"}

Line ==
         [type : {"blank", "total", "file_not_found", "unknown"}]
    \cup [type : {"header"}, mountable : BOOLEAN]
    \cup [type : {"file_summary"}, count : Nat \cup {Invalid}, size : Nat \cup {Invalid}]
    \cup [type : {"dir_summary"}, valid : BOOLEAN]
    \cup [type : {"entry"}, kind : EntryKind, size : Nat, local : Int]

ASSUME ParserAssumptions == Lines \subseteq Line /\ MaxLines \in Nat /\ MaxShort \in Nat

IsFile(line) == line.type = "entry" /\ line.kind = "file"

\* parse_entry() returns an entry.
IsTaken(line) == line.type = "entry" /\ line.kind \in {"directory", "file"}

-----------------------------------------------------------------------------

VARIABLES
    ambiguous_time, \* what the parser does with a repeated local time
    lines,          \* history: the lines read
    section,        \* SectionState; its path is not None while open
    aggregate,      \* AggregateState
    total_files,
    total_size,
    saw_section,
    errors,         \* the codes of the errors reported
    yielded,        \* history: the entries yielded
    state           \* of the generator: "parsing", "exhausted", or it "raised"

vars == <<ambiguous_time, lines, section, aggregate, total_files, total_size, saw_section, errors,
          yielded, state>>

\* SectionState.start(); line is the number of the header.
Section(line, mountable) ==
    [open |-> TRUE, line |-> line, mountable |-> mountable, files |-> 0, size |-> 0,
     file_summary |-> FALSE, dir_summary |-> FALSE, reported_files |-> 0,
     reported_size |-> 0, had_entries |-> FALSE, file_not_found |-> FALSE]

NoSection == [Section(0, FALSE) EXCEPT !.open = FALSE]

Init ==
    /\ ambiguous_time \in Ambiguous
    /\ lines       = << >>
    /\ section     = NoSection
    /\ aggregate   = [active |-> FALSE, file_summary |-> FALSE, dir_summary |-> FALSE]
    /\ total_files = 0
    /\ total_size  = 0
    /\ saw_section = FALSE
    /\ errors      = {}
    /\ yielded     = << >>
    /\ state       = "parsing"

\* The codes of errors.
Codes ==
    {"MISSING_SECTION_FILE_SUMMARY", "MISSING_SECTION_DIR_SUMMARY", "SECTION_FILE_TOTAL_MISMATCH",
     "SECTION_AFTER_AGGREGATE", "INVALID_SECTION_PATH", "DUPLICATE_AGGREGATE_FOOTER",
     "INVALID_SUMMARY_NUMBER", "SUMMARY_OUTSIDE_SECTION", "DUPLICATE_AGGREGATE_FILE_SUMMARY",
     "AGGREGATE_FILE_SUMMARY_AFTER_DIR_SUMMARY", "AGGREGATE_FILE_TOTAL_MISMATCH",
     "DUPLICATE_SECTION_FILE_SUMMARY", "DUPLICATE_AGGREGATE_DIR_SUMMARY",
     "AGGREGATE_DIR_SUMMARY_BEFORE_FILE_SUMMARY", "DUPLICATE_SECTION_DIR_SUMMARY",
     "SECTION_DIR_SUMMARY_BEFORE_FILE_SUMMARY", "FILE_NOT_FOUND_OUTSIDE_SECTION",
     "FILE_NOT_FOUND_AFTER_SUMMARY", "FILE_NOT_FOUND_WITH_ENTRIES", "DUPLICATE_FILE_NOT_FOUND",
     "ENTRY_AFTER_SECTION_SUMMARY", "ENTRY_WITH_FILE_NOT_FOUND", "REJECTED_ENTRY",
     "INVALID_LOCAL_TIME", "UNKNOWN_LINE", "DECODE_ERROR", "MISSING_SECTION",
     "MISSING_AGGREGATE_FOOTER", "MISSING_AGGREGATE_FILE_SUMMARY", "MISSING_AGGREGATE_DIR_SUMMARY"}

\* The code of an error that is reported when the condition holds.
When(condition, code) == IF condition THEN {code} ELSE {}

Report(codes) == errors' = errors \cup codes

\* The codes that SectionState.close() reports.
CloseErrors ==
    IF ~section.open THEN {} ELSE
         When(~section.file_summary, "MISSING_SECTION_FILE_SUMMARY")
    \cup When(~section.dir_summary, "MISSING_SECTION_DIR_SUMMARY")
    \cup When(/\ section.file_summary
              /\ <<section.reported_files, section.reported_size>>
                   # <<section.files, section.size>>, "SECTION_FILE_TOTAL_MISMATCH")

IsIgnored(line) == line.type = "blank" \/ (line.type = "entry" /\ line.kind = "ignored")

HasIgnored == \E i \in DOMAIN lines : IsIgnored(lines[i])

\* The next line of the listing, of one of the types.
Take(line, type) ==
    /\ state = "parsing"
    /\ Len(lines) < (IF errors = {} /\ ~HasIgnored THEN MaxLines ELSE MaxShort)
    /\ line.type = type
    /\ lines' = Append(lines, line)
    /\ UNCHANGED ambiguous_time

Read(line, type) == Take(line, type) /\ UNCHANGED state

Number == Len(lines) + 1

HeaderEntry ==
    [kind |-> "header", size |-> 0, line |-> Number, section |-> Number, instants |-> {}]

ReadBlank(line) ==
    /\ Read(line, "blank")
    /\ UNCHANGED <<section, aggregate, total_files, total_size, saw_section, errors, yielded>>

\* Faults: a section starts with the count, or the flags, of the one before.
Restart(line, next) ==
    /\ Read(line, "header")
    /\ ~aggregate.active
    /\ Report(CloseErrors \cup When(~line.mountable, "INVALID_SECTION_PATH"))
    /\ section'     = next
    /\ saw_section' = TRUE
    /\ yielded'     = IF line.mountable
                      THEN Append(yielded, HeaderEntry)
                      ELSE yielded
    /\ UNCHANGED <<aggregate, total_files, total_size>>

ReadHeaderKeepsCount(line) ==
    Restart(line, [Section(Number, line.mountable) EXCEPT !.files = section.files])

ReadHeaderKeepsFlag(line) ==
    Restart(line, [Section(Number, line.mountable) EXCEPT !.dir_summary = section.dir_summary])

ReadHeader(line) ==
    /\ Read(line, "header")
    /\ ~aggregate.active
    /\ Report(CloseErrors \cup When(~line.mountable, "INVALID_SECTION_PATH"))
    /\ section'     = Section(Number, line.mountable)
    /\ saw_section' = TRUE
    /\ yielded'     = IF line.mountable
                      THEN Append(yielded, HeaderEntry)
                      ELSE yielded
    /\ UNCHANGED <<aggregate, total_files, total_size>>

ReadLateHeader(line) ==
    /\ Read(line, "header")
    /\ aggregate.active
    /\ Report({"SECTION_AFTER_AGGREGATE"})
    /\ UNCHANGED <<section, aggregate, total_files, total_size, saw_section, yielded>>

ReadTotal(line) ==
    /\ Read(line, "total")
    /\ Report(CloseErrors \cup When(aggregate.active, "DUPLICATE_AGGREGATE_FOOTER"))
    /\ section'   = [section EXCEPT !.open = FALSE]
    /\ aggregate' = [aggregate EXCEPT !.active = TRUE]
    /\ UNCHANGED <<total_files, total_size, saw_section, yielded>>

-----------------------------------------------------------------------------
(* Summaries.                                                              *)

\* Fault: the numbers of a File(s) summary are not checked.
ValidDirNumbers(line) == IF line.type = "file_summary" THEN TRUE ELSE line.valid

ValidNumbers(line) ==
    IF line.type = "file_summary" THEN Invalid \notin {line.count, line.size} ELSE line.valid

ReadMisplacedSummary(line) ==
    /\ \E type \in {"file_summary", "dir_summary"} : Read(line, type)
    /\ \/ ~ValidNumbers(line) /\ Report({"INVALID_SUMMARY_NUMBER"})
       \/ /\ ValidNumbers(line) /\ ~aggregate.active /\ ~section.open
          /\ Report({"SUMMARY_OUTSIDE_SECTION"})
    /\ UNCHANGED <<section, aggregate, total_files, total_size, saw_section, yielded>>

ReadTotalFileSummary(line) ==
    /\ Read(line, "file_summary") /\ ValidNumbers(line) /\ aggregate.active
    /\ Report(     When(aggregate.file_summary, "DUPLICATE_AGGREGATE_FILE_SUMMARY")
              \cup When(aggregate.dir_summary, "AGGREGATE_FILE_SUMMARY_AFTER_DIR_SUMMARY")
              \cup When(<<line.count, line.size>> # <<total_files, total_size>>,
                        "AGGREGATE_FILE_TOTAL_MISMATCH"))
    /\ aggregate' = [aggregate EXCEPT !.file_summary = TRUE]
    /\ UNCHANGED <<section, total_files, total_size, saw_section, yielded>>

ReadSectionFileSummary(line) ==
    /\ Read(line, "file_summary") /\ ValidNumbers(line) /\ ~aggregate.active /\ section.open
    /\ Report(When(section.file_summary, "DUPLICATE_SECTION_FILE_SUMMARY"))
    /\ section' = [section EXCEPT !.file_summary = TRUE, !.reported_files = line.count,
                                  !.reported_size = line.size]
    /\ UNCHANGED <<aggregate, total_files, total_size, saw_section, yielded>>

ReadTotalDirSummary(line) ==
    /\ Read(line, "dir_summary") /\ ValidNumbers(line) /\ aggregate.active
    /\ Report(     When(aggregate.dir_summary, "DUPLICATE_AGGREGATE_DIR_SUMMARY")
              \cup When(~aggregate.file_summary, "AGGREGATE_DIR_SUMMARY_BEFORE_FILE_SUMMARY"))
    /\ aggregate' = [aggregate EXCEPT !.dir_summary = TRUE]
    /\ UNCHANGED <<section, total_files, total_size, saw_section, yielded>>

ReadSectionDirSummary(line) ==
    /\ Read(line, "dir_summary") /\ ValidNumbers(line) /\ ~aggregate.active /\ section.open
    /\ Report(     When(section.dir_summary, "DUPLICATE_SECTION_DIR_SUMMARY")
              \cup When(~section.file_summary, "SECTION_DIR_SUMMARY_BEFORE_FILE_SUMMARY"))
    /\ section' = [section EXCEPT !.dir_summary = TRUE]
    /\ UNCHANGED <<aggregate, total_files, total_size, saw_section, yielded>>

-----------------------------------------------------------------------------
(* Directory entries and the marker of an empty section.                   *)

Summarized == section.file_summary \/ section.dir_summary

\* _file_not_found(): the first condition that holds.
ReadFileNotFound(line) ==
    /\ Read(line, "file_not_found")
    /\ LET code == IF ~section.open \/ aggregate.active THEN "FILE_NOT_FOUND_OUTSIDE_SECTION"
                   ELSE IF Summarized THEN "FILE_NOT_FOUND_AFTER_SUMMARY"
                   ELSE IF section.had_entries THEN "FILE_NOT_FOUND_WITH_ENTRIES"
                   ELSE IF section.file_not_found THEN "DUPLICATE_FILE_NOT_FOUND"
                   ELSE "none"
       IN  IF code = "none"
           THEN section' = [section EXCEPT !.file_not_found = TRUE] /\ UNCHANGED errors
           ELSE Report({code}) /\ UNCHANGED section
    /\ UNCHANGED <<aggregate, total_files, total_size, saw_section, yielded>>

\* Entries are only recognized in a mountable section.
TakesEntries == section.open /\ section.mountable /\ ~aggregate.active

Rejected(line) == When(line.kind = "rejected", "REJECTED_ENTRY")

ReadMisplacedEntry(line) ==
    /\ Read(line, "entry") /\ TakesEntries
    /\ Summarized \/ section.file_not_found
    /\ Report(Rejected(line) \cup
              {IF Summarized THEN "ENTRY_AFTER_SECTION_SUMMARY" ELSE "ENTRY_WITH_FILE_NOT_FOUND"})
    /\ UNCHANGED <<section, aggregate, total_files, total_size, saw_section, yielded>>

\* An entry before the summaries, with the instant it is yielded with.
Count(line, instants) ==
    LET files == IF IsFile(line) THEN 1 ELSE 0
        size  == IF IsFile(line) THEN line.size ELSE 0
    IN  /\ section'     = [section EXCEPT !.had_entries = TRUE, !.files = @ + files,
                                          !.size = @ + size]
        /\ total_files' = total_files + files
        /\ total_size'  = total_size + size
        /\ yielded'     = IF IsTaken(line)
                          THEN Append(yielded, [kind |-> line.kind, size |-> size, line |-> Number,
                                                section |-> section.line, instants |-> instants])
                          ELSE yielded
        /\ UNCHANGED <<aggregate, saw_section>>

\* Fault: an entry whose local time is refused is skipped and not reported.
ReadEntryDropped(line) ==
    /\ Read(line, "entry") /\ TakesEntries
    /\ ~Summarized /\ ~section.file_not_found
    /\ IsTaken(line) => ~Overflows(line.local)
    /\ Report(Rejected(line))
    /\ IF IsTaken(line) /\ Unlocalizable(line.local, ambiguous_time)
       THEN UNCHANGED <<section, aggregate, total_files, total_size, saw_section, yielded>>
       ELSE Count(line, IF IsTaken(line) THEN {Localize(line.local, ambiguous_time)} ELSE {})

\* An entry whose local time is refused is reported, and yielded all the same.
ReadEntry(line) ==
    /\ Read(line, "entry") /\ TakesEntries
    /\ ~Summarized /\ ~section.file_not_found
    /\ IsTaken(line) => ~Overflows(line.local)
    /\ LET refused == IsTaken(line) /\ Unlocalizable(line.local, ambiguous_time)
       IN  /\ Report(Rejected(line) \cup When(refused, "INVALID_LOCAL_TIME"))
           /\ Count(line, IF refused \/ ~IsTaken(line) THEN {}
                          ELSE {Localize(line.local, ambiguous_time)})

\* The OverflowError of localize() is no ValueError: it ends the generator.
RaiseOverflow(line) ==
    /\ Take(line, "entry") /\ TakesEntries
    /\ ~Summarized /\ ~section.file_not_found
    /\ IsTaken(line) /\ Overflows(line.local)
    /\ state'   = "raised"
    /\ section' = [section EXCEPT !.had_entries = TRUE]
    /\ UNCHANGED <<aggregate, total_files, total_size, saw_section, errors, yielded>>

\* UNKNOWN_LINE, or MALFORMED_ENTRY for an entry that is not recognized here.
ReadUnknown(line) ==
    /\ \/ Read(line, "unknown")
       \/ Read(line, "entry") /\ ~TakesEntries
    /\ Report({"UNKNOWN_LINE"})
    /\ UNCHANGED <<section, aggregate, total_files, total_size, saw_section, yielded>>

\* The end of the listing, or a DecodeError, after which no line is read.
End ==
    /\ state = "parsing" /\ state' = "exhausted"
    /\ \E decode \in {{}, {"DECODE_ERROR"}} :
         Report(decode \cup CloseErrors
                \cup When(~saw_section, "MISSING_SECTION")
                \cup When(~aggregate.active, "MISSING_AGGREGATE_FOOTER")
                \cup When(aggregate.active /\ ~aggregate.file_summary,
                          "MISSING_AGGREGATE_FILE_SUMMARY")
                \cup When(aggregate.active /\ ~aggregate.dir_summary,
                          "MISSING_AGGREGATE_DIR_SUMMARY"))
    /\ section' = [section EXCEPT !.open = FALSE]
    /\ UNCHANGED <<ambiguous_time, lines, aggregate, total_files, total_size, saw_section, yielded>>

ReadLine(line) ==
    \/ ReadBlank(line) \/ ReadHeader(line) \/ ReadLateHeader(line) \/ ReadTotal(line)
    \/ ReadMisplacedSummary(line) \/ ReadTotalFileSummary(line) \/ ReadSectionFileSummary(line)
    \/ ReadTotalDirSummary(line) \/ ReadSectionDirSummary(line) \/ ReadFileNotFound(line)
    \/ ReadMisplacedEntry(line) \/ ReadEntry(line) \/ RaiseOverflow(line)
    \/ ReadUnknown(line)

Next == (\E line \in Lines : ReadLine(line)) \/ End

Spec == Init /\ [][Next]_vars

-----------------------------------------------------------------------------
(* Properties.                                                             *)

TypeOK ==
    /\ ambiguous_time \in Ambiguous
    /\ state \in {"parsing", "exhausted", "raised"}
    /\ lines \in Seq(Lines)
    /\ section \in [open : BOOLEAN, line : Nat, mountable : BOOLEAN, files : Nat, size : Nat,
                    file_summary : BOOLEAN, dir_summary : BOOLEAN, reported_files : Nat,
                    reported_size : Nat, had_entries : BOOLEAN, file_not_found : BOOLEAN]
    /\ aggregate \in [active : BOOLEAN, file_summary : BOOLEAN, dir_summary : BOOLEAN]
    /\ total_files \in Nat /\ total_size \in Nat
    /\ saw_section \in BOOLEAN
    /\ errors \subseteq Codes
    /\ yielded \in Seq([kind : {"header", "directory", "file"}, size : Nat, line : Nat,
                       section : Nat, instants : SUBSET Int])

SizeOf(s, I) == MapThenSumSet(LAMBDA i : s[i].size, I)

\* What the zone makes of a time: the instants at which its clock shows it.
Readings(local) ==
    LET offsets == {FirstOffset} \cup { c.to : c \in Changes }
    IN  { instant \in { local - offset : offset \in offsets } : LocalTime(instant) = local }

Readable(local) ==
    /\ Readings(local) # {} /\ Readings(local) \subseteq MinInstant .. MaxInstant
    /\ Cardinality(Readings(local)) > 1 => ambiguous_time # "reject"

\* The headers of a listing, and the marks that divide it into parts: the headers
\* and the line above its totals.
Headers(s) == { i \in DOMAIN s : s[i].type = "header" }
Marks(s)   == { i \in DOMAIN s : s[i].type \in {"header", "total"} }

\* The lines after a mark and before the next one, blank and volume lines aside.
Part(s, m) ==
    { i \in m + 1 .. Len(s) : s[i].type # "blank" /\ \A k \in m + 1 .. i : k \notin Marks(s) }

\* The body of a section: directory entries, or nothing but one File Not Found.
Body(s, I) ==
    \/ \A i \in I : /\ s[i].type = "entry" /\ s[i].kind # "rejected"
                    /\ s[i].kind = "ignored" \/ Readable(s[i].local)
    \/ \E i \in I : I = {i} /\ s[i].type = "file_not_found"

\* The lines i and j are the two summaries, and i gives the totals of the lines I.
Summary(s, I, i, j) ==
    /\ i < j /\ s[i].type = "file_summary" /\ s[j].type = "dir_summary" /\ s[j].valid
    /\ LET files == { k \in I : IsFile(s[k]) }
       IN  s[i].count = Cardinality(files) /\ s[i].size = SizeOf(s, files)

\* A header is followed by a body and its summaries.
WholeSection(s, h) ==
    /\ s[h].mountable
    /\ LET part == Part(s, h)
       IN  \E i, j \in part :
             /\ Summary(s, part \ {i, j}, i, j)
             /\ Body(s, part \ {i, j}) /\ \A k \in part \ {i, j} : k < i

\* After everything else comes the footer: the totals of all lines.
WholeFooter(s, t) ==
    /\ s[t].type = "total" /\ \A m \in Marks(s) \ {t} : m < t /\ m \in Headers(s)
    /\ LET part == Part(s, t)
       IN  \E i, j \in part : part = {i, j} /\ Summary(s, 1 .. t, i, j)

\* A complete listing: one or more sections and the footer, and nothing before them.
CompleteListing(s) ==
    /\ \E t \in Marks(s) : WholeFooter(s, t)
    /\ Headers(s) # {} /\ \A h \in Headers(s) : WholeSection(s, h)
    /\ \A i \in DOMAIN s : s[i].type # "blank" => \E m \in Marks(s) : m <= i

\* The parser accepts complete listings and nothing else: the flags of two
\* sections, three summaries and the footer never let a truncated, reordered,
\* duplicated or miscounted listing pass, and never reject a good one.
AcceptsCompleteListings ==
    state = "exhausted" => /\ errors = {} => CompleteListing(lines)
                           /\ CompleteListing(lines) => errors \subseteq {"DECODE_ERROR"}

\* What is yielded are headers and entries of the listing, each once and in order,
\* and each entry under the header above it; of an accepted listing, all of them.
YieldsWholeListing ==
    /\ \A k \in DOMAIN yielded :
         /\ yielded[k].line \in DOMAIN lines
         /\ \A j \in 1 .. k - 1 : yielded[j].line < yielded[k].line
         /\ LET line == lines[yielded[k].line]
            IN  /\ line.type = "header" \/ IsTaken(line)
                /\ yielded[k].kind = IF line.type = "header" THEN "header" ELSE line.kind
                /\ yielded[k].size = IF IsFile(line) THEN line.size ELSE 0
         /\ yielded[k].section = Max({ h \in Headers(lines) : h <= yielded[k].line })
    /\ state = "exhausted" /\ errors = {} =>
         \A i \in DOMAIN lines : lines[i].type = "header" \/ IsTaken(lines[i]) =>
             \E k \in DOMAIN yielded : yielded[k].line = i

\* The clock of the source's zone shows the listed time at the instant that an
\* entry is yielded with; of two such instants it is the one asked for.  An entry
\* is only yielded without an instant if none can be told, and that is reported.
YieldedTimesMeant ==
    \A k \in { k \in DOMAIN yielded : yielded[k].kind # "header" } :
        LET local == lines[yielded[k].line].local
        IN  IF yielded[k].instants = {}
            THEN "INVALID_LOCAL_TIME" \in errors /\ ~Readable(local)
            ELSE /\ Readable(local)
                 /\ yielded[k].instants = {IF ambiguous_time = "later"
                                           THEN Max(Readings(local)) ELSE Min(Readings(local))}

\* The totals that summaries are compared with are those of the entries the
\* builder was given, also in a listing with errors; and an entry is only yielded
\* after the header of a mountable section, which is yielded first.
CountsMatchYielded ==
    LET files(S) == { k \in DOMAIN yielded : yielded[k].kind = "file" /\ yielded[k].section \in S }
    IN  /\ total_files = Cardinality(files(1 .. Len(lines)))
        /\ total_size = SizeOf(yielded, files(1 .. Len(lines)))
        /\ section.files = Cardinality(files({section.line}))
        /\ section.size = SizeOf(yielded, files({section.line}))
        /\ \A k \in DOMAIN yielded : \E h \in 1 .. k :
             /\ yielded[h].kind = "header" /\ yielded[h].section = yielded[k].section
             /\ \A j \in h .. k : yielded[j].section = yielded[h].section
             /\ lines[yielded[h].section] = [type |-> "header", mountable |-> TRUE]
=============================================================================
