-------------------------- MODULE MCWindowsDirParser --------------------------
(***************************************************************************)
(* Every kind of line, in listings of up to two sections until their first *)
(* error, and in short ones that go on after it.  In the zone, an hour     *)
(* ahead of UTC, local time 5 is missing and local time 9 is repeated;     *)
(* local time 0 falls before the first datetime of UTC.                    *)
(***************************************************************************)
EXTENDS WindowsDirParser

Plain(type)           == [type |-> type]
Header(mountable)     == [type |-> "header", mountable |-> mountable]
FileSummary(n, bytes) == [type |-> "file_summary", count |-> n, size |-> bytes]
DirSummary(valid)     == [type |-> "dir_summary", valid |-> valid]
EntryLine(kind, size, local) ==
    [type |-> "entry", kind |-> kind, size |-> size, local |-> local]

Summer == { [at |-> 4, to |-> 2], [at |-> 8, to |-> 1] }

\* Two sections need ten lines.
ListingLines ==
    { Header(TRUE), Header(FALSE), Plain("total"), Plain("blank"), Plain("unknown"),
      Plain("file_not_found"), DirSummary(TRUE), DirSummary(FALSE),
      FileSummary(0, 0), FileSummary(1, 2), FileSummary(2, 4), FileSummary(Invalid, 0),
      EntryLine("file", 2, 2), EntryLine("directory", 0, 9), EntryLine("file", 2, 5),
      EntryLine("directory", 0, 0), EntryLine("ignored", 0, 0), EntryLine("rejected", 0, 2) }
=============================================================================
