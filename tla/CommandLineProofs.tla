-------------------------- MODULE CommandLineProofs --------------------------
(***************************************************************************)
(* Safety of _create_store and of the commands that call it, for any       *)
(* number of diagnostics and entries, any limit of the collector and any   *)
(* interrupts.                                                             *)
(*                                                                         *)
(* What an import publishes is decided by two flags, has_errors and        *)
(* build_diagnostic, that were set while entries and diagnostics still     *)
(* came.  IInv ties them to the history of the import and to the place     *)
(* where the builder may be published.                                     *)
(*                                                                         *)
(* A step of a command is a step of its import, of its session or of the   *)
(* callback between the two.  The invariant has a part for each: IInv,     *)
(* SessionInv, and CallbackInv, which says for every place of the callback *)
(* what import and session have come to.                                   *)
(***************************************************************************)
EXTENDS CommandLine, WellFoundedInduction, TLAPS

-----------------------------------------------------------------------------
(* The import.                                                             *)

\* The flag of the collector, which drops diagnostics, tells of all of them.
ErrorsInv == has_errors <=> HasError(reports)

\* finish() is reached, and a builder published, only without any error.
PublishInv ==
    /\ builder = "published" => pc \in {"return", "abort", "done"}
    /\ pc = "finish" \/ builder = "published" => ~has_errors /\ build_diagnostic = None

IInv == TypeOK /\ ErrorsInv /\ PublishInv /\ FirstRefusalKept

-----------------------------------------------------------------------------

LEMMA ImportInit == Init => IInv
<1> SUFFICES ASSUME Init PROVE IInv
  OBVIOUS
<1>1. TypeOK
  <2>1. has_errors \in BOOLEAN
    BY DEF Init
  <2>2. total \in Nat /\ diagnostic_count \in Nat /\ entries \in Nat
    BY DEF Init
  <2> QED
    BY <2>1, <2>2 DEF Init, TypeOK, Step, Outcome
<1>2. ErrorsInv
  BY DEF Init, ErrorsInv, HasError
<1>3. PublishInv
  BY DEF Init, PublishInv
<1>4. FirstRefusalKept
  BY DEF Init, FirstRefusalKept
<1> QED
  BY <1>1, <1>2, <1>3, <1>4 DEF IInv

\* The parser reports: the only step that changes the collector.
LEMMA ReportStep ==
    ASSUME IInv, ParserReports
    PROVE  IInv'
<1>1. PICK d \in Diagnostic : Collect(d)
  BY DEF IInv, TypeOK, ParserReports, Diagnostic
<1>2. TypeOK'
  BY <1>1 DEF IInv, TypeOK, ParserReports, Collect, report
<1>3. ErrorsInv'
  <2>1. HasError(Append(reports, d)) <=> HasError(reports) \/ d.severity = "error"
    <3> DEFINE n == Len(reports)
    <3>1. n \in Nat /\ DOMAIN reports = 1 .. n
      BY DEF IInv, TypeOK
    <3>2. /\ DOMAIN Append(reports, d) = 1 .. n + 1
          /\ Append(reports, d)[n + 1] = d
          /\ \A i \in 1 .. n : Append(reports, d)[i] = reports[i]
      BY DEF IInv, TypeOK
    <3> HIDE DEF n
    <3>3. 1 .. n + 1 = (1 .. n) \cup {n + 1}
      BY <3>1
    <3> QED
      BY <3>1, <3>2, <3>3 DEF HasError
  <2> QED
    BY <1>1, <2>1 DEF IInv, TypeOK, ErrorsInv, Collect
<1>4. PublishInv'
  BY DEF IInv, PublishInv, ParserReports
<1>5. FirstRefusalKept'
  BY DEF IInv, FirstRefusalKept, ParserReports
<1> QED
  BY <1>2, <1>3, <1>4, <1>5 DEF IInv

\* An entry of the parser reaches the builder, is refused, or is dropped.
LEMMA EntryStep ==
    ASSUME IInv, AddEntry \/ AddRefused \/ SkipEntry
    PROVE  IInv'
<1> USE DEF IInv, TypeOK, ParserYields, collector, report
<1>1. CASE AddEntry
  <2>1. TypeOK'
    BY <1>1 DEF AddEntry
  <2>2. FirstRefusalKept'
    BY <1>1 DEF AddEntry, FirstRefusalKept
  <2> QED
    BY <1>1, <2>1, <2>2 DEF AddEntry, ErrorsInv, HasError, PublishInv
<1>2. CASE AddRefused
  <2>1. BuildError(entries') \in Diagnostic /\ BuildError(entries') # None
    BY <1>2 DEF AddRefused, BuildError, Diagnostic, Severity, None
  <2>2. TypeOK'
    BY <1>2, <2>1 DEF AddRefused
  <2>3. FirstRefusalKept'
    BY <1>2, <2>1 DEF AddRefused, FirstRefusalKept, BuildError
  <2> QED
    BY <1>2, <2>2, <2>3 DEF AddRefused, ErrorsInv, HasError, PublishInv
<1>3. CASE SkipEntry
  BY <1>3 DEF SkipEntry, ErrorsInv, HasError, PublishInv, FirstRefusalKept
<1> QED
  BY <1>1, <1>2, <1>3

\* The verdict: what the caller is shown, and whether finish() is called.
LEMMA VerdictStep ==
    ASSUME IInv, ParserEnds \/ MergeDiagnostics \/ Check
    PROVE  IInv'
<1> USE DEF IInv, collector, report
<1>1. CASE ParserEnds
  BY <1>1 DEF ParserEnds, TypeOK, Step, ErrorsInv, HasError, PublishInv, FirstRefusalKept
<1>2. CASE MergeDiagnostics
  <2>1. TypeOK'
    <3>1. items \in Seq(Diagnostic) /\ total \in Nat
      BY DEF TypeOK
    <3>2. diagnostic_count' \in Nat
      BY <1>2, <3>1 DEF MergeDiagnostics
    <3>3. ASSUME build_diagnostic # None
          PROVE  /\ Append(items, build_diagnostic) \in Seq(Diagnostic)
                 /\ [items EXCEPT ![Replacement] = build_diagnostic] \in Seq(Diagnostic)
      <4>1. build_diagnostic \in Diagnostic
        BY <3>3 DEF TypeOK
      <4>2. PICK k \in Nat : items \in [1 .. k -> Diagnostic]
        BY <3>1
      <4>3. [items EXCEPT ![Replacement] = build_diagnostic] \in [1 .. k -> Diagnostic]
        BY <4>1, <4>2
      <4> QED
        BY <3>1, <4>1, <4>2, <4>3
    <3>4. diagnostics' \in Seq(Diagnostic)
      BY <1>2, <3>1, <3>3 DEF MergeDiagnostics
    <3> QED
      BY <1>2, <3>2, <3>4 DEF MergeDiagnostics, TypeOK, Step
  <2> QED
    BY <1>2, <2>1 DEF MergeDiagnostics, ErrorsInv, HasError, PublishInv, FirstRefusalKept
<1>3. CASE Check
  BY <1>3 DEF Check, TypeOK, Step, Outcome, ErrorsInv, HasError, PublishInv, FirstRefusalKept
<1> QED
  BY <1>1, <1>2, <1>3

\* The life of the builder.
LEMMA BuilderStep ==
    ASSUME IInv, CreateBuilder \/ Finish \/ Return \/ Raise \/ Abort
    PROVE  IInv'
<1> USE DEF IInv, collector, report, TypeOK, Step, Outcome, ErrorsInv, HasError, PublishInv,
            FirstRefusalKept
<1>1. CASE CreateBuilder
  BY <1>1 DEF CreateBuilder
<1>2. CASE Finish
  BY <1>2 DEF Finish
<1>3. CASE Return
  BY <1>3 DEF Return
<1>4. CASE Raise
  BY <1>4 DEF Raise
<1>5. CASE Abort
  BY <1>5 DEF Abort
<1> QED
  BY <1>1, <1>2, <1>3, <1>4, <1>5

LEMMA ImportStutter ==
    ASSUME IInv, UNCHANGED vars
    PROVE  IInv'
  BY DEF vars, collector, report, IInv, TypeOK, ErrorsInv, HasError, PublishInv,
         FirstRefusalKept

LEMMA ImportStep == IInv /\ [Next]_vars => IInv'
  BY ReportStep, EntryStep, VerdictStep, BuilderStep, ImportStutter DEF Next

LEMMA ImportInvariant == Spec => []IInv
  BY ImportInit, ImportStep, PTL DEF Spec

LEMMA WholeFollows == IInv => PublishedWhole
  BY DEF IInv, TypeOK, ErrorsInv, PublishInv, FirstRefusalKept, PublishedWhole

-----------------------------------------------------------------------------
(* The report of a failed import.                                          *)

\* The collector has counted every report and retained the first ones.
CollectorInv ==
    /\ total = Len(reports)
    /\ Len(items) = IF Len(reports) < MAX_DIAGNOSTICS THEN Len(reports) ELSE MAX_DIAGNOSTICS
    /\ \A i \in 1 .. Len(items) : items[i] = reports[i]

\* The report is made before the verdict, and not changed after it.
ReportInv ==
    /\ build_diagnostic # None => build_diagnostic.severity = "error"
    /\ outcome = "import_failure" => pc \in {"abort", "done"}
    /\ pc = "check" \/ outcome = "import_failure" => ReportComplete

RInv == CollectorInv /\ ReportInv

\* A warning that is the last one of a report, which is where Replacement points.
LEMMA LastWarning ==
    ASSUME NEW n \in Nat, NEW W \in SUBSET (1 .. n), W # {}
    PROVE  \E i \in W : \A j \in W : j <= i
<1> DEFINE D == { n - i : i \in W }
<1>1. \A i \in W : i \in Nat /\ i <= n /\ n - i \in Nat
  OBVIOUS
<1>2. D \in SUBSET Nat /\ D # {}
  <2>1. \A x \in D : x \in Nat
    BY <1>1
  <2>2. PICK i \in W : TRUE
    OBVIOUS
  <2>3. n - i \in D
    BY <2>2
  <2> QED
    BY <2>1, <2>3
<1>3. PICK d \in D : \A e \in D : d <= e
  <2>1. PICK d \in D : \A e \in D : <<e, d>> \notin OpToRel(<, Nat)
    <3> HIDE DEF D
    <3> QED
      BY <1>2, NatLessThanWellFounded, WFMin
  <2> HIDE DEF D
  <2>2. \A e \in D : ~(e < d)
    BY <1>2, <2>1 DEF OpToRel
  <2>3. d \in Nat /\ \A e \in D : e \in Nat
    BY <1>2
  <2> QED
    BY <2>2, <2>3
<1>4. PICK i \in W : d = n - i
  BY <1>3
<1>5. \A j \in W : n - i <= n - j
  BY <1>3, <1>4
<1>6. \A j \in W : j <= i
  BY <1>1, <1>5
<1> QED
  BY <1>6

\* What makes way is a warning, or nothing but errors was retained.
LEMMA ReplacementSpares ==
    ASSUME TypeOK, Len(items) > 0
    PROVE  /\ Replacement \in 1 .. Len(items)
           /\ \/ items[Replacement].severity = "warning"
              \/ \A i \in 1 .. Len(items) : items[i].severity = "error"
<1> DEFINE W == { i \in DOMAIN items : items[i].severity = "warning" }
<1>1. DOMAIN items = 1 .. Len(items) /\ Len(items) \in Nat
  BY DEF TypeOK
<1>2. \A i \in 1 .. Len(items) : items[i].severity \in {"warning", "error"}
  <2>1. \A i \in 1 .. Len(items) : items[i] \in Diagnostic
    BY DEF TypeOK
  <2> QED
    BY <2>1 DEF Diagnostic, Severity
<1>3. CASE W = {}
  BY <1>1, <1>2, <1>3 DEF Replacement
<1>4. CASE W # {}
  <2>1. \E i \in W : \A j \in W : j <= i
    BY <1>1, <1>4, LastWarning
  <2>2. Replacement \in W
    BY <1>4, <2>1 DEF Replacement
  <2> QED
    BY <1>1, <2>2
<1> QED
  BY <1>3, <1>4

LEMMA ReportInit == Init => RInv
<1> SUFFICES ASSUME Init PROVE RInv
  OBVIOUS
<1>1. CollectorInv
  BY ImportAssumptions DEF Init, CollectorInv
<1> QED
  BY <1>1 DEF Init, RInv, ReportInv

LEMMA CollectStep ==
    ASSUME TypeOK, RInv, ParserReports
    PROVE  RInv'
<1>1. PICK d \in Diagnostic : Collect(d)
  BY DEF ParserReports, Diagnostic
<1>2. /\ items \in Seq(Diagnostic) /\ Len(items) \in Nat
      /\ reports \in Seq(Diagnostic) /\ Len(reports) \in Nat
  BY DEF TypeOK
<1>3. /\ reports' = Append(reports, d) /\ Len(reports') = Len(reports) + 1
      /\ reports'[Len(reports) + 1] = d
      /\ \A i \in 1 .. Len(reports) : reports'[i] = reports[i]
  BY <1>1, <1>2 DEF Collect
<1>4. CollectorInv'
  <2>1. total' = Len(reports')
    BY <1>1, <1>3 DEF Collect, RInv, CollectorInv
  <2>2. CASE Len(items) < MAX_DIAGNOSTICS
    <3>1. Len(items) = Len(reports)
      BY <1>2, <2>2, ImportAssumptions DEF RInv, CollectorInv
    <3>2. items' = Append(items, d)
      BY <1>1, <2>2 DEF Collect
    <3>3. /\ Len(items') = Len(items) + 1 /\ items'[Len(items) + 1] = d
          /\ \A i \in 1 .. Len(items) : items'[i] = items[i]
      BY <1>2, <3>2
    <3> QED
      BY <1>2, <1>3, <2>1, <2>2, <3>1, <3>3, ImportAssumptions DEF RInv, CollectorInv
  <2>3. CASE ~(Len(items) < MAX_DIAGNOSTICS)
    <3>1. items' = items
      BY <1>1, <2>3 DEF Collect
    <3>2. Len(items) = MAX_DIAGNOSTICS /\ Len(reports) >= MAX_DIAGNOSTICS
      BY <1>2, <2>3, ImportAssumptions DEF RInv, CollectorInv
    <3> QED
      BY <1>2, <1>3, <2>1, <3>1, <3>2, ImportAssumptions DEF RInv, CollectorInv
  <2> QED
    BY <2>2, <2>3
<1>5. ReportInv'
  BY DEF RInv, ReportInv, ParserReports
<1> QED
  BY <1>4, <1>5 DEF RInv

\* The retained diagnostics are shown unless a place is needed for the builder's.
LEMMA MergeStep ==
    ASSUME TypeOK, RInv, MergeDiagnostics
    PROVE  RInv'
<1> DEFINE n == Len(items)
<1>1. /\ items \in Seq(Diagnostic) /\ n \in Nat /\ DOMAIN items = 1 .. n
      /\ Len(reports) \in Nat /\ DOMAIN reports = 1 .. Len(reports)
  BY DEF TypeOK
<1>2. /\ n = IF Len(reports) < MAX_DIAGNOSTICS THEN Len(reports) ELSE MAX_DIAGNOSTICS
      /\ total = Len(reports)
      /\ \A i \in 1 .. n : items[i] = reports[i]
  BY DEF RInv, CollectorInv
<1>3. n \in Nat /\ Len(reports) \in Nat /\ MAX_DIAGNOSTICS \in Nat /\ MAX_DIAGNOSTICS > 0
  BY <1>1, ImportAssumptions
<1>4. n = IF Len(reports) < MAX_DIAGNOSTICS THEN Len(reports) ELSE MAX_DIAGNOSTICS
  BY <1>2
<1>5. UNCHANGED <<reports, items, total, build_diagnostic, outcome>> /\ pc' = "check"
  BY DEF MergeDiagnostics, collector
<1>6. \A i \in DOMAIN reports : i <= MAX_DIAGNOSTICS => i \in 1 .. n
  BY <1>1, <1>2, ImportAssumptions
<1>7. ReportComplete'
  <2>1. CASE build_diagnostic = None
    <3>1. diagnostics' = items /\ diagnostic_count' = total
      BY <2>1 DEF MergeDiagnostics
    <3> QED
      BY <1>1, <1>2, <1>5, <1>6, <2>1, <3>1, ImportAssumptions DEF ReportComplete
  <2>2. CASE build_diagnostic # None /\ n < MAX_DIAGNOSTICS
    <3>1. diagnostics' = Append(items, build_diagnostic) /\ diagnostic_count' = total + 1
      BY <2>2 DEF MergeDiagnostics
    <3>2. build_diagnostic \in Diagnostic
      BY <2>2 DEF TypeOK
    <3>3. /\ DOMAIN diagnostics' = 1 .. n + 1 /\ Len(diagnostics') = n + 1
          /\ diagnostics'[n + 1] = build_diagnostic
          /\ \A i \in 1 .. n : diagnostics'[i] = items[i]
      BY <1>1, <3>1, <3>2
    <3> HIDE DEF n
    <3>4. n = Len(reports) /\ n + 1 <= MAX_DIAGNOSTICS
      BY <1>3, <1>4, <2>2
    <3>5. Len(diagnostics') = IF diagnostic_count' < MAX_DIAGNOSTICS
                              THEN diagnostic_count' ELSE MAX_DIAGNOSTICS
      <4>1. diagnostic_count' = Len(reports) + 1
        BY <1>2, <3>1
      <4> QED
        BY <1>3, <3>3, <3>4, <4>1
    <3>6. \A i \in DOMAIN reports : i <= MAX_DIAGNOSTICS =>
            \E j \in DOMAIN diagnostics' : diagnostics'[j] = reports[i]
      <4>1. 1 .. n \subseteq DOMAIN diagnostics'
        BY <1>3, <3>3
      <4>2. \A i \in 1 .. n : diagnostics'[i] = reports[i]
        BY <1>2, <3>3
      <4> QED
        BY <1>6, <4>1, <4>2
    <3>7. \E j \in DOMAIN diagnostics' : diagnostics'[j] = build_diagnostic
      <4>1. n + 1 \in DOMAIN diagnostics'
        BY <1>3, <3>3
      <4> QED
        BY <3>3, <4>1
    <3> QED
      BY <1>2, <1>5, <2>2, <3>1, <3>5, <3>6, <3>7 DEF ReportComplete
  <2>3. CASE build_diagnostic # None /\ ~(n < MAX_DIAGNOSTICS)
    <3> DEFINE r == Replacement
    <3>1. /\ diagnostics' = [items EXCEPT ![r] = build_diagnostic]
          /\ diagnostic_count' = total + 1
      BY <2>3 DEF MergeDiagnostics
    <3>2. n = MAX_DIAGNOSTICS /\ n > 0 /\ Len(reports) >= n
      <4> HIDE DEF n
      <4> QED
        BY <1>3, <1>4, <2>3
    <3>3. /\ r \in 1 .. n
          /\ \/ items[r].severity = "warning"
             \/ \A i \in 1 .. n : items[i].severity = "error"
      BY <3>2, ReplacementSpares
    <3> HIDE DEF r
    <3>4. /\ DOMAIN diagnostics' = 1 .. n /\ Len(diagnostics') = n
          /\ diagnostics'[r] = build_diagnostic
          /\ \A i \in 1 .. n : i # r => diagnostics'[i] = items[i]
      BY <1>1, <3>1, <3>3
    <3> HIDE DEF n
    <3>5. Len(diagnostics') = IF diagnostic_count' < MAX_DIAGNOSTICS
                              THEN diagnostic_count' ELSE MAX_DIAGNOSTICS
      <4>1. diagnostic_count' = Len(reports) + 1
        BY <1>2, <3>1
      <4> QED
        BY <1>3, <3>2, <3>4, <4>1
    <3>6. build_diagnostic.severity = "error"
      BY <2>3 DEF RInv, ReportInv
    <3>7. ASSUME NEW i \in DOMAIN reports, i <= MAX_DIAGNOSTICS,
                 reports[i].severity = "error",
                 ~\E j \in DOMAIN diagnostics' : diagnostics'[j] = reports[i]
          PROVE  \A j \in DOMAIN diagnostics' : diagnostics'[j].severity = "error"
      <4>1. i \in 1 .. n /\ items[i] = reports[i]
        BY <1>2, <1>6, <3>7
      <4>2. i = r
        BY <3>4, <3>7, <4>1
      <4>3. \A j \in 1 .. n : items[j].severity = "error"
        BY <3>3, <3>7, <4>1, <4>2
      <4> QED
        BY <3>4, <3>6, <4>3
    <3>8. \E j \in DOMAIN diagnostics' : diagnostics'[j] = build_diagnostic
      BY <3>3, <3>4
    <3> QED
      BY <1>2, <1>5, <2>3, <3>1, <3>5, <3>7, <3>8 DEF ReportComplete
  <2> QED
    BY <2>1, <2>2, <2>3
<1>8. CollectorInv' /\ ReportInv'
  BY <1>5, <1>7 DEF RInv, CollectorInv, ReportInv, MergeDiagnostics
<1> QED
  BY <1>8 DEF RInv

\* Steps that leave the collector and the report alone.
LEMMA OtherStep ==
    ASSUME RInv,
           \/ AddEntry \/ AddRefused \/ SkipEntry \/ CreateBuilder \/ ParserEnds \/ Check
           \/ Finish \/ Return \/ Raise \/ Abort
           \/ UNCHANGED <<pc, collector, build_diagnostic, report, outcome>>
    PROVE  RInv'
<1> USE DEF RInv, CollectorInv, ReportInv, ReportComplete, collector, report
<1>1. CASE AddEntry \/ AddRefused \/ SkipEntry
  BY <1>1 DEF AddEntry, AddRefused, SkipEntry, ParserYields, BuildError
<1>2. CASE CreateBuilder \/ ParserEnds \/ Check
  BY <1>2 DEF CreateBuilder, ParserEnds, Check
<1>3. CASE Finish \/ Return \/ Raise \/ Abort
  BY <1>3 DEF Finish, Return, Raise, Abort
<1>4. CASE UNCHANGED <<pc, collector, build_diagnostic, report, outcome>>
  BY <1>4
<1> QED
  BY <1>1, <1>2, <1>3, <1>4

LEMMA ReportInvStep == TypeOK /\ RInv /\ [Next]_vars => RInv'
  BY CollectStep, MergeStep, OtherStep DEF Next, vars

LEMMA ReportFollows == RInv => FailureReportComplete
  BY DEF RInv, ReportInv, FailureReportComplete, Refused

-----------------------------------------------------------------------------

\* _create_store is well typed whatever the parser and the builder do.
THEOREM ImportTyped == Spec => []TypeOK
<1>1. IInv => TypeOK
  BY DEF IInv
<1> QED
  BY <1>1, ImportInvariant, PTL

\* Whatever the limit of the collector, a snapshot is published only if the parser
\* reported no error at all and the builder took every entry, in order.
THEOREM ImportPublishesWhole == Spec => []PublishedWhole
  BY WholeFollows, ImportInvariant, PTL

\* The builder has taken the entries before the first refused one and none after.
THEOREM ImportKeepsFirstRefusal == Spec => []FirstRefusalKept
<1>1. IInv => FirstRefusalKept
  BY DEF IInv
<1> QED
  BY <1>1, ImportInvariant, PTL

\* A failed import shows the conflict that refused it, and displaces a warning for
\* it as long as there is one, whatever the limit of the collector.
THEOREM ImportReportsFailure == Spec => []FailureReportComplete
<1>1. IInv => TypeOK
  BY DEF IInv
<1>2. RInv /\ IInv /\ [Next]_vars => RInv'
  BY <1>1, ReportInvStep
<1> QED
  BY <1>2, ReportInit, ReportFollows, ImportInvariant, PTL DEF Spec

-----------------------------------------------------------------------------
(* A mount session by itself: what its parent knows of the worker on the   *)
(* way to its end.                                                         *)


\* stop_process has done what it can, for the worker and for the command.
Settled == worker \in {"none", "dead"} \/ "KILL" \in signals["worker"]
CommandSettled == consumer \in {"none", "dead"} \/ "KILL" \in signals["consumer"]

\* What the place of the parent says of the session.
PlaceInv ==
    /\ caller \in {"precheck", "popen"} => worker = "none"
    /\ caller \in {"consume", "wait", "stop_consumer", "check_mount", "unmount", "stop_worker",
               "rmdir"} => mode = "run"
    /\ caller \in Session!Start \cup {"consume", "stop_failed", "stop_again"} => consumer = "none"

\* The mount follows the worker.
WorkerInv ==
    /\ worker \in {"none", "starting"} => mount = "none"
    /\ worker = "exiting" => mount = "none"
    /\ worker = "dead" /\ ~crashed => mount = "none"
    /\ announced => worker \in {"serving", "closing", "exiting", "dead"}

ReadyInv ==
    caller \in {"ismount", "poll", "consume", "wait"} \/ consumer # "none" \/ result = "returned"
        => announced

\* The last signal is SIGKILL.
StopInv ==
    /\ caller \in {"stop_failed", "stop_again", "stop_worker"} /\ level = 3
         => "KILL" \in signals["worker"]
    /\ caller = "stop_consumer" /\ level = 3 => "KILL" \in signals["consumer"]

\* Without an interrupt the handler of start_background finds its worker stopped.
SettledInv ==
    /\ caller = "stop_again" /\ interrupts = 0 => Settled
    /\ (caller = "rmdir" \/ (caller = "done" /\ ~(Session!Returned /\ mode = "background")))
         => Settled \/ Session!WorkerLeft
    /\ caller \in {"check_mount", "unmount", "stop_worker", "rmdir", "done"}
         => CommandSettled \/ Session!CommandLeft

\* From the end of the command to the return of a run.
ReturnInv ==
    result = "returned" =>
        /\ mode = "background" => caller = "done"
        /\ mode = "run" =>
             /\ consumer = "dead"
             /\ caller \in {"stop_worker", "rmdir"} => mount \in {"none", "dead"}
             /\ caller \in {"rmdir", "done"} => Settled
             /\ caller = "done" => mount = "none" /\ directory = "removed"
             /\ caller \in {"stop_consumer", "check_mount", "unmount", "stop_worker", "rmdir",
                             "done"}

RemovedInv ==
    caller = "done" /\ mode = "run" /\ cut \subseteq {"consume"} /\ ~crashed
    /\ "KILL" \notin signals["worker"] => mount = "none" /\ directory # "empty"

SessionSafe ==
    /\ Session!TypeOK /\ PlaceInv /\ WorkerInv /\ ReadyInv /\ StopInv
    /\ SettledInv /\ ReturnInv /\ RemovedInv

\* The numbers of TypeOK, which are proved apart from its truth values.
SessionNumbers == level \in 0 .. 3 /\ interrupts \in Nat

-----------------------------------------------------------------------------

LEMMA SessionStarts == Session!Init => SessionSafe
<1> SUFFICES ASSUME Session!Init PROVE SessionSafe
  OBVIOUS
<1>1. Session!TypeOK
  <2>1. SessionNumbers
    BY DEF Session!Init, SessionNumbers
  <2>2. /\ directory \in {"empty", "filled", "removed"} /\ cut \subseteq Session!Unguarded
        /\ held \in BOOLEAN /\ announced \in BOOLEAN /\ crashed \in BOOLEAN
    BY DEF Session!Init
  <2>3. /\ mode \in {"run", "background"}
        /\ caller \in Session!Start \cup Session!Cleanup \cup {"consume", "wait", "done"}
        /\ result \in {"none", "returned", "raised"}
        /\ worker \in {"none", "starting", "init", "mounted", "serving", "closing", "exiting",
                       "dead"}
        /\ consumer \in {"none", "running", "dead"}
        /\ signals \in [{"worker", "consumer"} -> SUBSET {"INT", "TERM", "KILL"}]
        /\ mount \in {"none", "live", "stale", "dead"}
    BY DEF Session!Init, Session!Start
  <2> QED
    BY <2>1, <2>2, <2>3 DEF SessionNumbers, Session!TypeOK
<1>2. PlaceInv BY DEF Session!Init, PlaceInv
<1>3. WorkerInv BY DEF Session!Init, WorkerInv
<1>4. ReadyInv BY DEF Session!Init, ReadyInv
<1>5. StopInv BY DEF Session!Init, StopInv
<1>6. SettledInv BY DEF Session!Init, SettledInv
<1>7. ReturnInv BY DEF Session!Init, ReturnInv
<1>8. RemovedInv BY DEF Session!Init, RemovedInv
<1> QED
  BY <1>1, <1>2, <1>3, <1>4, <1>5, <1>6, <1>7, <1>8 DEF SessionSafe

\* The parent's calls up to the start of the command.
LEMMA SessionStartStep ==
    ASSUME SessionSafe,
           \/ Session!Precheck \/ Session!Popen \/ Session!Select \/ Session!SelectTimeout
           \/ Session!Probe \/ Session!ReturnMounted \/ Session!StartConsumer
    PROVE  SessionSafe'
<1> USE DEF SessionSafe, Session!TypeOK, PlaceInv, WorkerInv, ReadyInv, StopInv, SettledInv,
            ReturnInv, RemovedInv, Session!Start, Session!Cleanup, Session!Stopping,
            Session!Returned, Settled, CommandSettled, Session!WorkerLeft,
            Session!CommandLeft, Session!Goto, Session!Raise, Session!NoWorker,
            Session!IsMount, Session!kernel, Session!child
<1>1. CASE Session!Precheck
  BY <1>1 DEF Session!Precheck
<1>2. CASE Session!Popen
  BY <1>2 DEF Session!Popen
<1>3. CASE Session!Select
  BY <1>3 DEF Session!Select
<1>4. CASE Session!SelectTimeout
  BY <1>4 DEF Session!SelectTimeout
<1>5. CASE Session!Probe
  BY <1>5 DEF Session!Probe
<1>6. CASE Session!ReturnMounted
  BY <1>6 DEF Session!ReturnMounted
<1>7. CASE Session!StartConsumer
  BY <1>7 DEF Session!StartConsumer
<1> QED
  BY <1>1, <1>2, <1>3, <1>4, <1>5, <1>6, <1>7

\* stop_process in its four places.
LEMMA SessionStopStep ==
    ASSUME SessionSafe, Session!StopReaps \/ Session!Escalate \/ Session!GiveUp
    PROVE  SessionSafe'
<1> USE DEF SessionSafe, Session!TypeOK, PlaceInv, WorkerInv, ReadyInv, StopInv, SettledInv,
            ReturnInv, RemovedInv, Session!Start, Session!Cleanup, Session!Stopping,
            Session!Returned, Settled, CommandSettled, Session!WorkerLeft,
            Session!CommandLeft, Session!Goto, Session!Raise, Session!NoWorker,
            Session!Target, Session!TargetEnded, Session!kernel, Session!child
<1>1. CASE Session!StopReaps
  BY <1>1 DEF Session!StopReaps, Session!Stopped
<1>2. CASE Session!GiveUp
  BY <1>2 DEF Session!GiveUp, Session!Stopped
<1>3. CASE Session!Escalate
  <2>1. Session!Signal[1] = "INT" /\ Session!Signal[2] = "TERM" /\ Session!Signal[3] = "KILL"
    BY DEF Session!Signal
  <2>2. /\ Session!Signal[level + 1] \in {"INT", "TERM", "KILL"}
        /\ level = 2 => Session!Signal[level + 1] = "KILL"
    BY <1>3, <2>1 DEF Session!Escalate
  <2> QED
    BY <1>3, <2>2 DEF Session!Escalate
<1> QED
  BY <1>1, <1>2, <1>3

\* The end of the command and the cleanup of a run.
LEMMA SessionCleanupStep ==
    ASSUME SessionSafe,
           \/ Session!WaitConsumer \/ Session!CheckMount \/ Session!Unmount
           \/ Session!UnmountFails \/ Session!Rmdir \/ Session!RmdirFails
    PROVE  SessionSafe'
<1> USE DEF SessionSafe, Session!TypeOK, PlaceInv, WorkerInv, ReadyInv, StopInv, SettledInv,
            ReturnInv, RemovedInv, Session!Start, Session!Cleanup, Session!Stopping,
            Session!Returned, Settled, CommandSettled, Session!WorkerLeft,
            Session!CommandLeft, Session!Goto, Session!Raise, Session!IsMount,
            Session!kernel, Session!child
<1>1. CASE Session!WaitConsumer
  BY <1>1 DEF Session!WaitConsumer
<1>2. CASE Session!CheckMount
  BY <1>2 DEF Session!CheckMount
<1>3. CASE Session!Unmount
  BY <1>3 DEF Session!Unmount
<1>4. CASE Session!UnmountFails
  BY <1>4 DEF Session!UnmountFails
<1>5. CASE Session!Rmdir
  <2> USE <1>5 DEF Session!Rmdir
  <2>1. Session!TypeOK'
    OBVIOUS
  <2>2. PlaceInv' /\ WorkerInv' /\ ReadyInv' /\ StopInv'
    OBVIOUS
  <2>3. SettledInv' /\ ReturnInv' /\ RemovedInv'
    OBVIOUS
  <2> QED
    BY <2>1, <2>2, <2>3
<1>6. CASE Session!RmdirFails
  <2> USE <1>6 DEF Session!RmdirFails
  <2>1. Session!TypeOK'
    OBVIOUS
  <2>2. PlaceInv' /\ WorkerInv' /\ ReadyInv' /\ StopInv'
    OBVIOUS
  <2>3. SettledInv' /\ ReturnInv' /\ RemovedInv'
    OBVIOUS
  <2> QED
    BY <2>1, <2>2, <2>3
<1> QED
  BY <1>1, <1>2, <1>3, <1>4, <1>5, <1>6

LEMMA SessionInterruptStep ==
    ASSUME SessionSafe, Session!Interrupt
    PROVE  SessionSafe'
<1> USE DEF Session!Interrupt, Session!Interrupted, Session!Forked, Session!Cut, Session!Raise,
            Session!Goto, Session!NoWorker
<1>1. Session!TypeOK'
  <2>1. SessionNumbers'
    BY DEF SessionSafe, Session!TypeOK, SessionNumbers
  <2>2. /\ cut' \subseteq Session!Unguarded /\ result' \in {"none", "returned", "raised"}
        /\ caller' \in Session!Start \cup Session!Cleanup \cup {"consume", "wait", "done"}
    BY DEF SessionSafe, Session!TypeOK, Session!Cleanup, Session!Stopping, Session!Unguarded
  <2> QED
    BY <2>1, <2>2 DEF SessionSafe, SessionNumbers, Session!TypeOK, Session!kernel
<1> USE DEF SessionSafe, Session!TypeOK, Session!Start, Session!Cleanup, Session!Stopping,
            Session!kernel
<1>2. WorkerInv' /\ PlaceInv'
  BY DEF WorkerInv, PlaceInv
<1>3. ReadyInv'
  BY DEF ReadyInv, PlaceInv
<1>4. StopInv'
  BY DEF StopInv
<1>5. SettledInv'
  BY DEF PlaceInv, SettledInv, Settled, CommandSettled, Session!WorkerLeft,
     Session!CommandLeft, Session!Returned
<1>6. ReturnInv'
  BY DEF ReturnInv, PlaceInv
<1>7. RemovedInv'
  BY DEF PlaceInv, SettledInv, RemovedInv, Settled, Session!WorkerLeft, Session!Returned
<1> QED
  BY <1>1, <1>2, <1>3, <1>4, <1>5, <1>6, <1>7

LEMMA SessionWorkerStep ==
    ASSUME SessionSafe, Session!Worker
    PROVE  SessionSafe'
<1> USE DEF SessionSafe, Session!TypeOK, PlaceInv, WorkerInv, ReadyInv, StopInv, SettledInv,
            ReturnInv, RemovedInv, Session!Returned, Settled, CommandSettled, Session!WorkerLeft,
            Session!CommandLeft, Session!parent, Session!kernel
<1>1. CASE Session!WorkerMounts
  BY <1>1 DEF Session!WorkerMounts
<1>2. CASE Session!WorkerEnters
  BY <1>2 DEF Session!WorkerEnters
<1>3. CASE Session!WorkerAnnounces
  BY <1>3 DEF Session!WorkerAnnounces
<1>4. CASE Session!MainEnds
  BY <1>4 DEF Session!MainEnds
<1>5. CASE Session!WorkerCloses
  BY <1>5 DEF Session!WorkerCloses
<1>6. CASE Session!WorkerExits
  BY <1>6 DEF Session!WorkerExits
<1>7. CASE Session!WorkerFails
  BY <1>7 DEF Session!WorkerFails
<1>8. CASE Session!WorkerDies
  BY <1>8 DEF Session!WorkerDies, Session!Alive
<1> QED
  BY <1>1, <1>2, <1>3, <1>4, <1>5, <1>6, <1>7, <1>8 DEF Session!Worker

LEMMA SessionEnvironmentStep ==
    ASSUME SessionSafe, Session!Environment
    PROVE  SessionSafe'
<1> USE DEF SessionSafe, Session!TypeOK, PlaceInv, WorkerInv, ReadyInv, StopInv, SettledInv,
            ReturnInv, RemovedInv, Session!Returned, Settled, CommandSettled, Session!WorkerLeft,
            Session!CommandLeft, Session!parent, Session!kernel,
            Session!child
<1>1. CASE Session!ConsumerEnds
  BY <1>1 DEF Session!ConsumerEnds
<1>2. CASE Session!Hold
  BY <1>2 DEF Session!Hold
<1>3. CASE Session!LetGo
  <2>1. SessionNumbers'
    BY <1>3 DEF Session!LetGo, SessionNumbers
  <2>2. held' \in BOOLEAN
    BY <1>3 DEF Session!LetGo
  <2> QED
    BY <1>3, <2>1, <2>2 DEF Session!LetGo, SessionNumbers
<1>4. CASE Session!ExternalUnmount
  BY <1>4 DEF Session!ExternalUnmount
<1>5. CASE Session!AttributesExpire
  BY <1>5 DEF Session!AttributesExpire
<1> QED
  BY <1>1, <1>2, <1>3, <1>4, <1>5 DEF Session!Environment

LEMMA SessionStutter ==
    ASSUME SessionSafe, UNCHANGED Session!vars
    PROVE  SessionSafe'
  BY DEF Session!vars, Session!parent, Session!kernel, Session!child, SessionSafe,
     Session!TypeOK, PlaceInv, WorkerInv, ReadyInv, StopInv, SettledInv, ReturnInv, RemovedInv,
     Session!Returned, Settled, CommandSettled, Session!WorkerLeft,
            Session!CommandLeft

LEMMA SessionStep == SessionSafe /\ [Session!Next]_(Session!vars) => SessionSafe'
<1> SUFFICES ASSUME SessionSafe, [Session!Next]_(Session!vars) PROVE SessionSafe'
  OBVIOUS
<1>1. CASE Session!Parent
  BY <1>1, SessionStartStep, SessionStopStep, SessionCleanupStep DEF Session!Parent, Session!Stop
<1>2. CASE Session!Interrupt
  BY <1>2, SessionInterruptStep
<1>3. CASE Session!Worker
  BY <1>3, SessionWorkerStep
<1>4. CASE Session!Environment
  BY <1>4, SessionEnvironmentStep
<1>5. CASE UNCHANGED Session!vars
  BY <1>5, SessionStutter
<1> QED
  BY <1>1, <1>2, <1>3, <1>4, <1>5 DEF Session!Next

LEMMA SessionInvariant == Session!Spec => []SessionSafe
<1>1. Session!Init => SessionSafe
  BY SessionStarts
<1>2. SessionSafe /\ [Session!Next]_(Session!vars) => SessionSafe'
  BY SessionStep
<1> QED
  BY <1>1, <1>2, PTL DEF Session!Spec

\* What the invariant says of a parent that is done.
LEMMA SafeReady == SessionSafe => Session!ReadyFirst
  BY DEF SessionSafe, ReadyInv, Session!ReadyFirst, Session!Returned

LEMMA SafeOrphan == SessionSafe => Session!NoOrphan
  BY DEF SessionSafe, SettledInv, Settled, CommandSettled, Session!NoOrphan

LEMMA SafeCleanUp == SessionSafe => Session!RunCleansUp
  BY DEF SessionSafe, WorkerInv, ReadyInv, ReturnInv, RemovedInv, Settled, Session!RunCleansUp,
     Session!Returned

-----------------------------------------------------------------------------

\* The session is well typed for any number of interrupts.
THEOREM SessionTyped == Session!Spec => []Session!TypeOK
<1>1. SessionSafe => Session!TypeOK
  BY DEF SessionSafe
<1> QED
  BY <1>1, SessionInvariant, PTL

\* start_background returns, and run_mounted starts its command, only after the
\* worker has written its byte.
THEOREM MountedMeansReady == Session!Spec => []Session!ReadyFirst
  BY SafeReady, SessionInvariant, PTL

\* A parent that is done, and reports no mount, has seen its worker end or has sent
\* it SIGKILL, unless an interrupt hit one of the steps that WorkerLeft names, and so
\* for the command of a run and CommandLeft: stop_process() and, without a handler
\* of their own, the Popen() calls and the last lines of start_background().
THEOREM WorkersAreStopped == Session!Spec => []Session!NoOrphan
  BY SafeOrphan, SessionInvariant, PTL

\* A run that returns its command's status has removed its mount and its directory
\* and stopped both its processes.  One that fails has left no mount, and a directory
\* only if others filled it; of these are exempt a worker that crashed or was
\* sent SIGKILL, and an interrupt in a step that is Unguarded, but for the Popen() of
\* the command.  CtrlCCleansUp says of those what the documentation does, in vain.
THEOREM RunsCleanUp == Session!Spec => []Session!RunCleansUp
  BY SafeCleanUp, SessionInvariant, PTL

-----------------------------------------------------------------------------
(* The commands.                                                           *)

\* How far the import is, and what it made of the builder.
OutcomeInv ==
    /\ pc = "create" => builder = "absent" /\ outcome = "none"
    /\ pc \in {"parse", "merge", "check", "finish"} => builder \in {"active", "leaked"}
    /\ pc = "return" \/ outcome = "store" => builder = "published"
    /\ pc = "done" => builder # "active"
    /\ outcome # "none" => pc \in {"abort", "done"}
    /\ outcome = "import_failure" => builder \in {"active", "aborted", "leaked"}
    /\ builder = "leaked" => status = Killed \/ (pc = "done" /\ outcome = "exception")

Early == {"start", "import", "open", "store", "mount"}

CallbackInv ==
    /\ step \in Early \cup {"serve"} => raised = "none"
    /\ step \in Early => mount = "none" /\ ~announced
    /\ step \in {"start", "import", "open"} => store = "none"
    /\ step = "start" => pc = "create"
    /\ step = "import" => Imports
    /\ step = "open" => ~Imports
    /\ step # "import" => pc \in {"create", "done"} \/ status = Killed
    /\ outcome # "none" => Imports
    /\ outcome = "import_failure" => step \in {"import", "exit"} /\ mount = "none"
    /\ Imports /\ (\/ step \in {"store", "mount", "serve"} \/ announced
                   \/ step \in {"close", "exit"} /\ raised = "none") => builder = "published"
    /\ Mounts /\ step \in {"close", "exit"} /\ raised = "none" => announced

StatusInv ==
    /\ raised \in {"none", "usage", "interrupt", "error", "import_failure"}
    /\ status \in {Running, Killed} \/ (step = "exit" /\ status = Status(raised))
    /\ status # Running => builder # "active"
    /\ raised = "usage" =>
         step = "exit" /\ builder = "absent" /\ worker = "none" /\ store = "none" /\ caller = "none"
    /\ Misused =>
         /\ caller = "none" /\ worker = "none" /\ status # Killed
         /\ step = "start" \/ (step = "exit" /\ raised \in {"usage", "interrupt"})

StoreInv ==
    step = "exit" /\ command.store = "sqlite" /\ store = "open" =>
        /\ mount = "none" /\ ~announced
        /\ outcome = "exception" \/ (raised = "interrupt" /\ command.action = "create")

\* Before there is a caller nothing of its session has happened; in the foreground
\* nothing ever does, except to the "worker" and its mount.
FrontInv ==
    /\ mode = Mode(command)
    /\ caller = "none" => consumer = "none" /\ result = "none"
    /\ caller = "none" /\ mode # "foreground" =>
         /\ level = 0 /\ worker = "none" /\ announced = FALSE
         /\ signals = [p \in {"worker", "consumer"} |-> {}]
         /\ mount = "none" /\ held = FALSE /\ directory = "empty"
         /\ interrupts = 0 /\ cut = {} /\ crashed = FALSE

SessionInv == caller # "none" => SessionSafe

CInv ==
    /\ IInv /\ OutcomeInv /\ CallbackInv /\ StatusInv /\ StoreInv
    /\ FrontInv /\ SessionInv

-----------------------------------------------------------------------------
(* What the steps of a session leave alone.                                *)

LEMMA ParentFrame ==
    ASSUME Session!Parent
    PROVE  /\ caller # "none" /\ caller' # "none"
           /\ mode' = mode /\ announced' = announced
           /\ mount' \in {mount, "none"} /\ worker' \in {worker, "starting"}
<1> USE DEF Session!Goto, Session!Raise, Session!kernel, Session!child, Session!NoWorker
<1>1. CASE Session!Precheck
  BY <1>1 DEF Session!Precheck
<1>2. CASE Session!Popen
  BY <1>2 DEF Session!Popen
<1>3. CASE Session!Select \/ Session!SelectTimeout
  BY <1>3 DEF Session!Select, Session!SelectTimeout
<1>4. CASE Session!Probe
  BY <1>4 DEF Session!Probe
<1>5. CASE Session!ReturnMounted
  BY <1>5 DEF Session!ReturnMounted
<1>6. CASE Session!Stop
  BY <1>6 DEF Session!Stop, Session!StopReaps, Session!Escalate, Session!GiveUp,
              Session!Stopping, Session!Stopped
<1>7. CASE Session!StartConsumer \/ Session!WaitConsumer
  BY <1>7 DEF Session!StartConsumer, Session!WaitConsumer
<1>8. CASE \/ Session!CheckMount \/ Session!UnmountFails
           \/ Session!Rmdir \/ Session!RmdirFails
  BY <1>8 DEF Session!CheckMount, Session!UnmountFails, Session!Rmdir, Session!RmdirFails
<1>9. CASE Session!Unmount
  BY <1>9 DEF Session!Unmount
<1> QED
  BY <1>1, <1>2, <1>3, <1>4, <1>5, <1>6, <1>7, <1>8, <1>9 DEF Session!Parent

LEMMA SurroundingsFrame ==
    ASSUME Session!Interrupt \/ Session!Environment
    PROVE  /\ mode' = mode /\ announced' = announced
           /\ worker' = worker \/ (caller # "none" /\ worker' = "starting")
           /\ mount = "none" => mount' = "none"
           /\ caller # "none" => caller' # "none"
           /\ caller = "none" => UNCHANGED <<caller, result>>
           /\ caller = "none" /\ consumer = "none" => consumer' = "none"
           /\ caller = "none" /\ consumer = "none" /\ mount = "none" /\ held = FALSE =>
                UNCHANGED session
<1>1. CASE Session!Interrupt
  BY <1>1 DEF Session!Interrupt, Session!Interrupted, Session!Forked, Session!Cut,
              Session!Raise, Session!Goto, Session!NoWorker, Session!Start, Session!kernel
<1>2. CASE Session!Environment
  <2> USE DEF Session!parent, Session!kernel, Session!child
  <2>1. CASE Session!ConsumerEnds
    BY <2>1 DEF Session!ConsumerEnds
  <2>2. CASE Session!Hold
    BY <2>2 DEF Session!Hold
  <2>3. CASE Session!LetGo
    BY <2>3 DEF Session!LetGo
  <2>4. CASE Session!ExternalUnmount
    BY <2>4 DEF Session!ExternalUnmount
  <2>5. CASE Session!AttributesExpire
    BY <2>5 DEF Session!AttributesExpire
  <2> QED
    BY <1>2, <2>1, <2>2, <2>3, <2>4, <2>5 DEF Session!Environment
<1> QED
  BY <1>1, <1>2

\* Every step of the worker that is none of the others'.
LEMMA WorkerFrame ==
    ASSUME \/ Session!WorkerMounts \/ Session!WorkerEnters \/ Session!WorkerAnnounces
           \/ Session!MainEnds \/ Session!WorkerCloses \/ Session!WorkerExits
           \/ Session!WorkerFails \/ Session!WorkerDies
    PROVE  /\ worker # "none" /\ worker' # "none"
           /\ UNCHANGED <<mode, caller, result, consumer>>
           /\ Session!WorkerAnnounces \/ announced' = announced
           /\ Session!WorkerMounts \/ (mount = "none" => mount' = "none")
<1> USE DEF Session!parent, Session!kernel
<1>1. CASE Session!WorkerMounts \/ Session!WorkerEnters \/ Session!WorkerAnnounces
  BY <1>1 DEF Session!WorkerMounts, Session!WorkerEnters, Session!WorkerAnnounces
<1>2. CASE Session!MainEnds \/ Session!WorkerCloses
  BY <1>2 DEF Session!MainEnds, Session!WorkerCloses
<1>3. CASE Session!WorkerExits \/ Session!WorkerFails \/ Session!WorkerDies
  BY <1>3 DEF Session!WorkerExits, Session!WorkerFails, Session!WorkerDies, Session!Alive
<1> QED
  BY <1>1, <1>2, <1>3

LEMMA CommandFrame ==
    ASSUME command' = command
    PROVE  /\ Imports' = Imports /\ Mounts' = Mounts /\ Misused' = Misused
           /\ Mode(command)' = Mode(command)
  BY DEF Imports, Mounts, Misused, Mode

-----------------------------------------------------------------------------
(* The import, in a process that may be killed.                            *)

\* No step but those of the import and a kill changes its variables.
LEMMA ImportFrame ==
    ASSUME [CommandNext]_everything
    PROVE  \/ Import
           \/ Die
           \/ UNCHANGED vars /\ (status' = status \/ (Exit /\ status = Running))
<1>1. CASE Callback
  BY <1>1 DEF Callback, RefuseOptions, Detach, StayInForeground, Begin, Imported, OpenStore,
              UseStore, Mount, MountFails, ServeEnds, CloseStore, Exit, At, callback
<1>2. CASE Serve \/ Interrupt \/ Call \/ Surroundings \/ PressCtrlC
  BY <1>2 DEF Serve, Interrupt, Call, Surroundings, PressCtrlC, callback
<1>3. CASE Die
  BY <1>3
<1>4. CASE UNCHANGED everything
  BY <1>4 DEF everything, callback
<1> QED
  BY <1>1, <1>2, <1>3, <1>4 DEF CommandNext

LEMMA ImportPart ==
    ASSUME IInv, OutcomeInv, [CommandNext]_everything
    PROVE  IInv' /\ OutcomeInv'
<1>1. CASE Import
  <2>1. IInv'
    BY <1>1, ImportStep DEF Import
  <2> USE <1>1 DEF IInv, Import, callback, At, OutcomeInv, collector, report
  <2>2. status = Running /\ status' = status /\ Running # Killed
    BY DEF Running, Killed
  <2>3. CASE ParserReports \/ AddEntry \/ AddRefused \/ SkipEntry \/ ParserEnds
    BY <2>1, <2>2, <2>3 DEF ParserReports, ParserYields, AddEntry, AddRefused, SkipEntry, ParserEnds
  <2>4. CASE CreateBuilder \/ MergeDiagnostics \/ Check
    BY <2>1, <2>2, <2>4 DEF CreateBuilder, MergeDiagnostics, Check
  <2>5. CASE Finish \/ Return
    BY <2>1, <2>2, <2>5 DEF Finish, Return
  <2>6. CASE Raise
    BY <2>1, <2>2, <2>6 DEF Raise
  <2>7. CASE Abort
    BY <2>1, <2>2, <2>7 DEF Abort, TypeOK
  <2> QED
    BY <2>1, <2>3, <2>4, <2>5, <2>6, <2>7 DEF Next
<1>2. CASE Die
  <2> USE <1>2 DEF Die, collector, report
  <2>1. TypeOK'
    BY DEF IInv, TypeOK
  <2>2. ErrorsInv' /\ PublishInv' /\ FirstRefusalKept'
    BY DEF IInv, ErrorsInv, HasError, PublishInv, FirstRefusalKept
  <2>3. OutcomeInv'
    BY DEF OutcomeInv
  <2> QED
    BY <2>1, <2>2, <2>3 DEF IInv
<1>3. CASE UNCHANGED vars /\ (status' = status \/ (Exit /\ status = Running))
  <2>1. IInv'
    BY <1>3, ImportStutter
  <2>2. Running # Killed
    BY DEF Running, Killed
  <2>3. OutcomeInv'
    BY <1>3, <2>2 DEF vars, OutcomeInv
  <2> QED
    BY <2>1, <2>3
<1> QED
  BY <1>1, <1>2, <1>3, ImportFrame

-----------------------------------------------------------------------------
(* The session.                                                            *)

LEMMA CallerStarts == (Session!Init => SessionSafe)'
<1>1. Session!Init => SessionSafe
  BY SessionStarts
<1> QED
  BY <1>1, PTL

WorkerSteps ==
    \/ Session!WorkerMounts \/ Session!WorkerEnters \/ Session!WorkerAnnounces
    \/ Session!MainEnds \/ Session!WorkerCloses \/ Session!WorkerExits
    \/ Session!WorkerFails \/ Session!WorkerDies

LEMMA SessionFrame ==
    ASSUME [CommandNext]_everything
    PROVE  \/ UNCHANGED session
           \/ Detach \/ StayInForeground \/ PressCtrlC
           \/ WorkerSteps \/ Session!Parent \/ Session!Interrupt \/ Session!Environment
<1>1. CASE RefuseOptions \/ Begin \/ Import \/ Imported \/ OpenStore \/ UseStore
  BY <1>1 DEF RefuseOptions, Begin, Import, Imported, OpenStore, UseStore
<1>2. CASE MountFails \/ CloseStore \/ Interrupt
  BY <1>2 DEF MountFails, CloseStore, Interrupt
<1>3. CASE Mount \/ Serve \/ ServeEnds \/ Exit \/ Die
  BY <1>3 DEF Mount, Serve, ServeEnds, Exit, Die, WorkerSteps
<1>4. CASE Call \/ Surroundings
  BY <1>4 DEF Call, Surroundings
<1>5. CASE UNCHANGED everything
  BY <1>5 DEF everything
<1> QED
  BY <1>1, <1>2, <1>3, <1>4, <1>5 DEF CommandNext, Callback

LEMMA SessionPart ==
    ASSUME FrontInv, SessionInv, [CommandNext]_everything
    PROVE  FrontInv' /\ SessionInv'
<1>1. command' = command
  BY ImportFrame DEF CommandNext, Callback, RefuseOptions, Detach, StayInForeground, Begin,
     Import, Imported, OpenStore, UseStore, Mount, MountFails, ServeEnds, CloseStore, Exit,
     Serve, Interrupt, Die, Call, Surroundings, PressCtrlC, everything, callback
<1>2. Mode(command)' = Mode(command)
  BY <1>1, CommandFrame
<1>3. CASE UNCHANGED session
  <2>1. FrontInv'
    BY <1>2, <1>3 DEF session, FrontInv
  <2>2. SessionInv'
    BY <1>3, SessionStutter
       DEF session, SessionInv, Session!vars, Session!parent, Session!kernel, Session!child
  <2> QED
    BY <2>1, <2>2
<1>4. CASE Detach
  <2>1. Session!Init'
    BY <1>2, <1>4 DEF Detach, Front, FrontInv, Session!Init, Mode
  <2>2. FrontInv'
    BY <1>2, <1>4 DEF Detach, FrontInv
  <2> QED
    BY <2>1, <2>2, CallerStarts DEF SessionInv
<1>5. CASE StayInForeground \/ PressCtrlC
  BY <1>2, <1>5 DEF StayInForeground, PressCtrlC, Front, FrontInv, SessionInv, Session!Alive
<1>6. ASSUME Session!Next, caller # "none", caller' # "none", mode' = mode
      PROVE  FrontInv' /\ SessionInv'
  <2>1. SessionSafe'
    BY <1>6, SessionStep DEF SessionInv
  <2> QED
    BY <1>2, <1>6, <2>1 DEF FrontInv, SessionInv
<1>7. CASE Session!Parent
  BY <1>6, <1>7, ParentFrame DEF Session!Next
<1>8. CASE Session!Interrupt \/ Session!Environment
  <2>1. CASE caller # "none"
    BY <1>6, <1>8, <2>1, SurroundingsFrame DEF Session!Next
  <2>2. CASE caller = "none" /\ mode # "foreground"
    BY <1>3, <1>8, <2>2, SurroundingsFrame DEF FrontInv
  <2>3. CASE caller = "none" /\ mode = "foreground"
    BY <1>2, <1>8, <2>3, SurroundingsFrame DEF FrontInv, SessionInv
  <2> QED
    BY <2>1, <2>2, <2>3
<1>9. CASE WorkerSteps
  <2>1. CASE caller # "none"
    BY <1>6, <1>9, <2>1, WorkerFrame DEF WorkerSteps, Session!Worker, Session!Next
  <2>2. CASE caller = "none"
    BY <1>2, <1>9, <2>2, WorkerFrame DEF WorkerSteps, FrontInv, SessionInv
  <2> QED
    BY <2>1, <2>2
<1> QED
  BY <1>3, <1>4, <1>5, <1>7, <1>8, <1>9, SessionFrame

-----------------------------------------------------------------------------
(* The callback.                                                           *)

Between == CallbackInv /\ StatusInv /\ StoreInv

LEMMA Statuses ==
    /\ Running # Killed /\ Running \notin {0, 1, 2, 130} /\ Killed \notin {0, 1, 2, 130}
    /\ \A e : Status(e) \in {0, 1, 2, 130} /\ (Status(e) = 0 <=> e = "none")
    /\ \A e : Status(e) = 2 <=> e = "usage"
    /\ Status("error") = 1
  BY DEF Running, Killed, Status

\* The process that the shell started, before its import or its session.
LEMMA FrontPart ==
    ASSUME CInv, RefuseOptions \/ Detach \/ StayInForeground
    PROVE  Between'
<1> USE DEF CInv, OutcomeInv, Between, CallbackInv, StatusInv, StoreInv, Front, At, Throw, Early,
            callback
<1>1. CASE RefuseOptions
  BY <1>1, CommandFrame, Statuses DEF RefuseOptions, vars, session
<1>2. CASE Detach
  BY <1>2, CommandFrame, Statuses DEF Detach, vars
<1>3. CASE StayInForeground
  BY <1>3, CommandFrame, Statuses DEF StayInForeground, vars
<1> QED
  BY <1>1, <1>2, <1>3

\* From the options to the store.
LEMMA StorePart ==
    ASSUME CInv, Begin \/ Import \/ Imported \/ OpenStore \/ UseStore
    PROVE  Between'
<1> USE DEF CInv, OutcomeInv, Between, CallbackInv, StatusInv, StoreInv, At, Throw, Continue,
            Early
<1>1. CASE Begin
  BY <1>1, CommandFrame, Statuses DEF Begin, vars, session
<1>2. CASE Import
  BY <1>2, CommandFrame, Statuses, ImportPart DEF Import, callback, session
<1>3. CASE Imported
  BY <1>3, CommandFrame, Statuses DEF Imported, vars, session
<1>4. CASE OpenStore
  BY <1>4, CommandFrame, Statuses DEF OpenStore, vars, session
<1>5. CASE UseStore
  BY <1>5, CommandFrame, Statuses DEF UseStore, vars, session, Imports
<1> QED
  BY <1>1, <1>2, <1>3, <1>4, <1>5

\* The mount and the end of the callback.
LEMMA MountPart ==
    ASSUME CInv, Mount \/ MountFails \/ Serve \/ ServeEnds \/ CloseStore
    PROVE  Between'
<1> USE DEF CInv, OutcomeInv, Between, CallbackInv, StatusInv, StoreInv, At, Throw, Continue,
            Early
<1>1. CASE Mount
  BY <1>1, CommandFrame, Statuses, WorkerFrame DEF Mount, vars, Session!WorkerMounts,
     Session!parent
<1>2. CASE MountFails
  BY <1>2, CommandFrame, Statuses DEF MountFails, vars, session
<1>3. CASE Serve
  BY <1>3, CommandFrame, Statuses, WorkerFrame DEF Serve, vars, callback
<1>4. CASE ServeEnds
  BY <1>4, CommandFrame, Statuses, WorkerFrame DEF ServeEnds, vars, Session!WorkerCloses,
     Session!parent
<1>5. CASE CloseStore
  BY <1>5, CommandFrame, Statuses DEF CloseStore, vars, session
<1> QED
  BY <1>1, <1>2, <1>3, <1>4, <1>5

LEMMA EndPart ==
    ASSUME CInv, Interrupt \/ Exit \/ Die
    PROVE  Between'
<1> USE DEF CInv, OutcomeInv, Between, CallbackInv, StatusInv, StoreInv, At, Throw, Early
<1>1. CASE Interrupt
  BY <1>1, CommandFrame, Statuses DEF Interrupt, Unguarded, Front, vars, session
<1>2. CASE Exit
  <2>1. /\ announced' = announced /\ caller' = caller /\ (mount = "none" => mount' = "none")
        /\ worker = "none" => worker' = "none"
    BY <1>2 DEF Exit, Session!WorkerFails, Session!WorkerExits, Session!WorkerDies,
                Session!Alive, Session!parent, Session!kernel, session
  <2> QED
    BY <1>2, <2>1, CommandFrame, Statuses DEF Exit, vars
<1>3. CASE Die
  BY <1>3, CommandFrame, Statuses, WorkerFrame DEF Die, Session!WorkerDies, Session!parent
<1> QED
  BY <1>1, <1>2, <1>3

LEMMA SurroundingsPart ==
    ASSUME CInv, Call \/ Surroundings \/ PressCtrlC \/ UNCHANGED everything
    PROVE  Between'
<1> USE DEF CInv, OutcomeInv, Between, CallbackInv, StatusInv, StoreInv, Early, callback, vars
<1>1. CASE Call
  BY <1>1, CommandFrame, Statuses, ParentFrame DEF Call
<1>2. CASE Surroundings
  <2>1. /\ UNCHANGED <<command, step, store, raised, status, builder, outcome, pc>>
        /\ Imports' = Imports /\ Mounts' = Mounts /\ Misused' = Misused
    BY <1>2, CommandFrame DEF Surroundings
  <2>2. /\ announced' = announced
        /\ worker' = worker \/ (caller # "none" /\ worker' = "starting")
        /\ mount = "none" => mount' = "none"
        /\ caller = "none" => caller' = "none"
    BY <1>2, SurroundingsFrame DEF Surroundings
  <2>3. CallbackInv'
    BY <2>1, <2>2
  <2>4. StatusInv'
    BY <2>1, <2>2, Statuses DEF Status
  <2>5. StoreInv'
    BY <2>1, <2>2
  <2> QED
    BY <2>3, <2>4, <2>5
<1>3. CASE PressCtrlC
  BY <1>3, CommandFrame, Statuses DEF PressCtrlC
<1>4. CASE UNCHANGED everything
  BY <1>4, CommandFrame, Statuses DEF everything, session
<1> QED
  BY <1>1, <1>2, <1>3, <1>4

LEMMA CommandInitInv == CommandInit => CInv
<1> SUFFICES ASSUME CommandInit PROVE CInv
  OBVIOUS
<1>1. IInv
  BY ImportInit DEF CommandInit
<1>2. OutcomeInv
  BY DEF CommandInit, Init, OutcomeInv
<1>3. CallbackInv
  BY DEF CommandInit, Init, CallbackInv, Early
<1>4. StatusInv /\ StoreInv
  BY Statuses DEF CommandInit, Init, StatusInv, StoreInv
<1>5. FrontInv
  BY DEF CommandInit, FrontInv
<1>6. SessionInv
  BY DEF CommandInit, SessionInv
<1> QED
  BY <1>1, <1>2, <1>3, <1>4, <1>5, <1>6 DEF CInv

LEMMA CommandStep == CInv /\ [CommandNext]_everything => CInv'
<1> SUFFICES ASSUME CInv, [CommandNext]_everything PROVE CInv'
  OBVIOUS
<1>1. Between'
  BY FrontPart, StorePart, MountPart, EndPart, SurroundingsPart DEF CommandNext, Callback
<1> QED
  BY <1>1, ImportPart, SessionPart DEF CInv, Between

LEMMA CommandInvariant == CommandSpec => []CInv
  BY CommandInitInv, CommandStep, PTL DEF CommandSpec

-----------------------------------------------------------------------------
(* What the invariant says of a command that has ended.                    *)

LEMMA ToldStatus ==
    ASSUME CInv
    PROVE  /\ caller = "none" => Told = status
           /\ Told = 0 /\ caller # "none" => announced
           /\ Told # 2 \/ caller = "none"
<1>1. caller # "none" => Told \in {Running, 0, 1} /\ (Told = 0 => result = "returned")
  BY Statuses DEF Told
<1>2. caller # "none" /\ result = "returned" => announced
  BY DEF CInv, SessionInv, SessionSafe, ReadyInv
<1>3. caller = "none" => Told = status
  BY DEF Told
<1> QED
  BY <1>1, <1>2, <1>3, Statuses

LEMMA ExitFollows == CInv => ExitTellsOutcome
<1> SUFFICES ASSUME CInv PROVE ExitTellsOutcome
  OBVIOUS
<1> USE DEF CInv, OutcomeInv, CallbackInv, StatusInv
<1>1. status = 0 => step = "exit" /\ raised = "none"
  BY Statuses
<1>2. status = 2 => raised = "usage"
  BY Statuses
<1>3. Told = 0 => (Imports => builder = "published") /\ (Mounts => announced)
  BY <1>1, ToldStatus
<1>4. Told = 2 => builder = "absent" /\ worker = "none" /\ store = "none"
  BY <1>2, ToldStatus
<1>5. Misused /\ Told # Running => Told \in {2, 130}
  BY ToldStatus DEF Status
<1>6. outcome = "import_failure" /\ Told # Running =>
        Told # 0 /\ builder # "published" /\ mount = "none"
  BY <1>3
<1> QED
  BY <1>3, <1>4, <1>5, <1>6 DEF ExitTellsOutcome

\* What MountSession proves of a session holds of the session of a command.
LEMMA SessionFollows == CInv => ReadyFirst /\ Session!NoOrphan /\ RunCleansUp
<1> SUFFICES ASSUME CInv PROVE ReadyFirst /\ Session!NoOrphan /\ RunCleansUp
  OBVIOUS
<1>1. CASE caller # "none"
  <2>1. SessionSafe
    BY <1>1 DEF CInv, SessionInv
  <2> QED
    BY <2>1, SafeReady, SafeOrphan, SafeCleanUp DEF ReadyFirst, RunCleansUp
<1>2. CASE caller = "none"
  BY <1>2 DEF CInv, FrontInv, ReadyFirst, RunCleansUp, Session!ReadyFirst, Session!NoOrphan,
     Session!RunCleansUp, Session!Returned
<1> QED
  BY <1>1, <1>2

LEMMA NothingFollows == CInv => NothingRunsOn
  BY SessionFollows DEF CInv, OutcomeInv, StatusInv, NothingRunsOn

LEMMA StoreFollows == CInv => StoreClosedAtExit
  BY DEF CInv, StatusInv, StoreInv, StoreClosedAtExit

-----------------------------------------------------------------------------

\* Killed, interrupted or timed out at any statement, an import publishes only what
\* its parser read without an error and its builder took in full.
THEOREM CommandPublishesWhole == CommandSpec => []PublishedWhole
<1>1. CInv => PublishedWhole
  BY WholeFollows DEF CInv
<1> QED
  BY <1>1, CommandInvariant, PTL

\* Of a listing with refused entries a command keeps those before the first.
THEOREM CommandKeepsFirstRefusal == CommandSpec => []FirstRefusalKept
<1>1. CInv => FirstRefusalKept
  BY DEF CInv, IInv
<1> QED
  BY <1>1, CommandInvariant, PTL

\* Whatever ends the command later, what a failed import shows is complete.
THEOREM CommandReportsFailure == CommandSpec => []FailureReportComplete
<1>1. CommandInit => RInv
  BY ReportInit DEF CommandInit
<1>2. RInv /\ CInv /\ [CommandNext]_everything => RInv'
  <2> SUFFICES ASSUME RInv, CInv, [CommandNext]_everything PROVE RInv'
    OBVIOUS
  <2>1. CASE Import
    BY <2>1, ReportInvStep DEF CInv, IInv, Import
  <2>2. CASE Die
    BY <2>2, OtherStep DEF Die, collector, report
  <2>3. CASE UNCHANGED vars
    BY <2>3, OtherStep DEF vars
  <2> QED
    BY <2>1, <2>2, <2>3, ImportFrame
<1> QED
  BY <1>1, <1>2, ReportFollows, CommandInvariant, PTL DEF CommandSpec

\* The exit status of every command, in one process or in two, tells the outcome.
THEOREM StatusTellsOutcome == CommandSpec => []ExitTellsOutcome
  BY ExitFollows, CommandInvariant, PTL

\* However long the import before a mount takes, no caller reports a mount or starts
\* a command before its worker has announced it.
THEOREM CommandMountsReady == CommandSpec => []ReadyFirst
  BY SessionFollows, CommandInvariant, PTL

\* A command that has ended has settled its builder, unless it was killed or the abort
\* failed.  Its caller has stopped the worker and the command of a run, unless an
\* interrupt, which may be the first, hit one of the steps that Session!WorkerLeft
\* and Session!CommandLeft name.
THEOREM CommandLeavesNothingRunning == CommandSpec => []NothingRunsOn
  BY NothingFollows, CommandInvariant, PTL

\* A run whose worker opens, mounts, serves and closes its store cleans up as a session
\* by itself does (RunsCleanUp), with the same exemptions.
THEOREM CommandCleansUp == CommandSpec => []RunCleansUp
  BY SessionFollows, CommandInvariant, PTL

\* A command that ends has closed its SQLite store, but for the two gaps named.
THEOREM CommandClosesStore == CommandSpec => []StoreClosedAtExit
  BY StoreFollows, CommandInvariant, PTL
=============================================================================
