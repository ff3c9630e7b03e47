---------------------------- MODULE ImportService ----------------------------
(***************************************************************************)
(* _create_store (import_service.py): one pass over the entries of a parser*)
(* into a builder, then the verdict and the publication.                   *)
(*                                                                         *)
(* The parser is a generator: it reports diagnostics to a bounded          *)
(* DiagnosticCollector (diagnostics.py) while its entries are consumed, so *)
(* the two interleave, and only exhausting it makes the diagnostics final. *)
(* The builder is any SnapshotBuilder: what its add() accepts is the       *)
(* subject of module SnapshotBuilder, what its finish() publishes of       *)
(* module ArtifactPublication, here both just succeed or raise.            *)
(*                                                                         *)
(* A diagnostic is its severity and its origin: n for the n-th one of the  *)
(* parser, -n for the BuildError that the n-th entry raised.               *)
(***************************************************************************)
EXTENDS Integers, Sequences, FiniteSets

CONSTANTS
    MAX_DIAGNOSTICS,    \* the limit of the collector and of the final report
    MaxReports,         \* bound: the diagnostics the parser reports
    MaxEntries          \* bound: the entries the parser yields

ASSUME ImportAssumptions ==
    MAX_DIAGNOSTICS \in Nat \ {0} /\ MaxReports \in Nat /\ MaxEntries \in Nat

VARIABLES
    pc,                 \* the statement of _create_store to run next
    reports,            \* history: every diagnostic of the parser, in order
    items,              \* DiagnosticCollector._items
    total,              \* DiagnosticCollector.total
    has_errors,         \* DiagnosticCollector.has_errors
    entries,            \* the entries yielded so far, numbered from 1
    build_diagnostic,   \* the first BuildError met
    builder,            \* "absent", "active", "published", "aborted" or "leaked"
    added,              \* the entries that the builder took
    diagnostics,        \* what the caller is shown
    diagnostic_count,
    outcome             \* what _create_store returned or raised

collector == <<reports, items, total, has_errors>>
report    == <<diagnostics, diagnostic_count>>
vars == <<pc, collector, entries, build_diagnostic, builder, added, report, outcome>>

Severity == {"warning", "error"}
None     == [severity |-> "none", origin |-> 0]

Diagnostic    == [severity : Severity, origin : Int]
BuildError(n) == [severity |-> "error", origin |-> -n]

Step    == {"create", "parse", "merge", "check", "finish", "return", "abort", "done"}
Outcome == {"none", "store", "import_failure", "exception"}

Init ==
    /\ pc               = "create"
    /\ reports          = << >>
    /\ items            = << >>
    /\ total            = 0
    /\ has_errors       = FALSE
    /\ entries          = 0
    /\ build_diagnostic = None
    /\ builder          = "absent"
    /\ added            = << >>
    /\ diagnostics      = << >>
    /\ diagnostic_count = 0
    /\ outcome          = "none"

-----------------------------------------------------------------------------

\* builder_factory(snapshot) runs outside the try: a constructor that fails has
\* cleaned up after itself.
CreateBuilder ==
    /\ pc = "create"
    /\ \/ pc' = "parse" /\ builder' = "active" /\ UNCHANGED outcome
       \/ pc' = "done" /\ outcome' = "exception" /\ UNCHANGED builder
    /\ UNCHANGED <<collector, entries, build_diagnostic, added, report>>

\* DiagnosticCollector.add: everything counts, a prefix is retained.
Collect(d) ==
    /\ reports'    = Append(reports, d)
    /\ total'      = total + 1
    /\ has_errors' = (has_errors \/ d.severity = "error")
    /\ items'      = IF Len(items) < MAX_DIAGNOSTICS THEN Append(items, d) ELSE items

ParserReports ==
    /\ pc = "parse" /\ Len(reports) < MaxReports
    /\ \E s \in Severity : Collect([severity |-> s, origin |-> Len(reports) + 1])
    /\ UNCHANGED <<pc, entries, build_diagnostic, builder, added, report, outcome>>

ParserYields ==
    /\ pc = "parse" /\ entries < MaxEntries
    /\ entries' = entries + 1

\* Fault: entries are added after a refusal.
AddAfterRefusal ==
    /\ ParserYields
    /\ added' = Append(added, entries')
    /\ UNCHANGED <<pc, collector, build_diagnostic, builder, report, outcome>>

\* builder.add(entry) returns.
AddEntry ==
    /\ ParserYields
    /\ build_diagnostic = None
    /\ added' = Append(added, entries')
    /\ UNCHANGED <<pc, collector, build_diagnostic, builder, report, outcome>>

\* builder.add(entry) raises BuildError: parsing goes on for its diagnostics.
AddRefused ==
    /\ ParserYields
    /\ build_diagnostic = None
    /\ build_diagnostic' = BuildError(entries')
    /\ UNCHANGED <<pc, collector, builder, added, report, outcome>>

\* After a BuildError the entries are consumed and dropped.
SkipEntry ==
    /\ ParserYields
    /\ build_diagnostic # None
    /\ UNCHANGED <<pc, collector, build_diagnostic, builder, added, report, outcome>>

\* The generator is exhausted, and the source closed.
ParserEnds ==
    /\ pc = "parse" /\ pc' = "merge"
    /\ UNCHANGED <<collector, entries, build_diagnostic, builder, added, report, outcome>>

\* Fault: always the last place.
LastPlace == Len(items)

\* The place of the builder's diagnostic in a full report: the last warning's,
\* or the last place.
Replacement ==
    LET warnings == { i \in DOMAIN items : items[i].severity = "warning" }
    IN  IF warnings = {} THEN Len(items)
        ELSE CHOOSE i \in warnings : \A j \in warnings : j <= i

MergeDiagnostics ==
    /\ pc = "merge" /\ pc' = "check"
    /\ IF build_diagnostic = None
       THEN diagnostics' = items /\ diagnostic_count' = total
       ELSE /\ diagnostic_count' = total + 1
            /\ diagnostics' = IF Len(items) < MAX_DIAGNOSTICS
                              THEN Append(items, build_diagnostic)
                              ELSE [items EXCEPT ![Replacement] = build_diagnostic]
    /\ UNCHANGED <<collector, entries, build_diagnostic, builder, added, outcome>>

\* Fault: only retained errors count.
CheckRetained ==
    /\ pc = "check"
    /\ IF (\E i \in DOMAIN diagnostics : diagnostics[i].severity = "error")
       THEN pc' = "abort" /\ outcome' = "import_failure"
       ELSE pc' = "finish" /\ UNCHANGED outcome
    /\ UNCHANGED <<collector, entries, build_diagnostic, builder, added, report>>

\* Errors count whether or not they were retained.
Check ==
    /\ pc = "check"
    /\ IF has_errors \/ build_diagnostic # None
       THEN pc' = "abort" /\ outcome' = "import_failure"
       ELSE pc' = "finish" /\ UNCHANGED outcome
    /\ UNCHANGED <<collector, entries, build_diagnostic, builder, added, report>>

\* builder.finish(diagnostics, diagnostic_count) returns the store.
Finish ==
    /\ pc = "finish" /\ pc' = "return"
    /\ builder' = "published"
    /\ UNCHANGED <<collector, entries, build_diagnostic, added, report, outcome>>

Return ==
    /\ pc = "return" /\ pc' = "done"
    /\ outcome' = "store"
    /\ UNCHANGED <<collector, entries, build_diagnostic, builder, added, report>>

\* Anything else that is raised inside the try: by the source, the parser, an
\* add() that is no BuildError, finish(), logging, or by a KeyboardInterrupt.
Raise ==
    /\ pc \in {"parse", "merge", "check", "finish", "return"}
    /\ pc' = "abort"
    /\ outcome' = "exception"
    /\ UNCHANGED <<collector, entries, build_diagnostic, builder, added, report>>

\* The handler aborts the builder and raises what it caught.  An Exception of
\* abort() is suppressed; only a second interrupt replaces it and can leave the
\* builder open.  A builder that has published has nothing left to abort.
Abort ==
    /\ pc = "abort" /\ pc' = "done"
    /\ \/ /\ builder' = IF builder = "active" THEN "aborted" ELSE builder
          /\ UNCHANGED outcome
       \/ /\ builder' = IF builder = "active" THEN "leaked" ELSE builder
          /\ outcome' = "exception"
    /\ UNCHANGED <<collector, entries, build_diagnostic, added, report>>

Next ==
    \/ CreateBuilder \/ ParserReports \/ AddEntry \/ AddRefused \/ SkipEntry \/ ParserEnds
    \/ MergeDiagnostics \/ Check \/ Finish \/ Return \/ Raise \/ Abort

Spec == Init /\ [][Next]_vars

-----------------------------------------------------------------------------
(* Properties.                                                             *)

TypeOK ==
    /\ pc \in Step /\ outcome \in Outcome
    /\ reports \in Seq(Diagnostic)
    /\ items \in Seq(Diagnostic) /\ diagnostics \in Seq(Diagnostic)
    /\ total \in Nat /\ diagnostic_count \in Nat /\ entries \in Nat
    /\ has_errors \in BOOLEAN
    /\ build_diagnostic \in Diagnostic \cup {None}
    /\ builder \in {"absent", "active", "published", "aborted", "leaked"}
    /\ added \in Seq(Nat)

HasError(s) == \E i \in DOMAIN s : s[i].severity = "error"

Refused == pc = "done" /\ outcome = "import_failure"

\* A snapshot is published whole or not at all: once it is, the parser reported
\* no error, not even one beyond the retained diagnostics, and the builder has
\* taken every entry that the parser yielded, in order.
PublishedWhole ==
    builder = "published" =>
        /\ ~HasError(reports) /\ build_diagnostic = None
        /\ added = [i \in 1 .. entries |-> i]

\* The build error that is kept is about the first entry that was refused: the
\* builder holds all the entries before it and none after it.
FirstRefusalKept ==
    /\ added = [i \in 1 .. Len(added) |-> i]
    /\ IF build_diagnostic = None THEN Len(added) = entries
       ELSE build_diagnostic.origin = -(Len(added) + 1)

\* Every diagnostic is counted and as many are shown as fit, among them that of the
\* builder, if any; an error of the parser that was retained is only missing if no
\* warning is shown either.
ReportComplete ==
    /\ diagnostic_count = Len(reports) + (IF build_diagnostic = None THEN 0 ELSE 1)
    /\ Len(diagnostics) = IF diagnostic_count < MAX_DIAGNOSTICS
                          THEN diagnostic_count ELSE MAX_DIAGNOSTICS
    /\ build_diagnostic # None => \E i \in DOMAIN diagnostics :
                                    diagnostics[i] = build_diagnostic
    /\ \A i \in DOMAIN reports :
         /\ i <= MAX_DIAGNOSTICS /\ reports[i].severity = "error"
         /\ ~\E j \in DOMAIN diagnostics : diagnostics[j] = reports[i]
         => \A j \in DOMAIN diagnostics : diagnostics[j].severity = "error"

\* ImportFailure shows as many diagnostics as fit and counts all of them; the
\* conflict of the builder is shown whatever the parser reported, and makes way
\* for itself by displacing a warning rather than an error.
FailureReportComplete == Refused => ReportComplete

=============================================================================
