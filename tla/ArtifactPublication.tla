------------------------- MODULE ArtifactPublication -------------------------
(***************************************************************************)
(* Concurrent SQLiteSnapshotBuilders that publish at one destination path  *)
(* (store/sqlite/builder.py and store/sqlite/artifact.py).                 *)
(*                                                                         *)
(* Each writer builds its artifact in a temporary sibling file, commits and*)
(* closes it, reopens it read-only to validate it, syncs it, links it to   *)
(* the destination or replaces the destination with it, syncs the directory*)
(* and opens the destination.  Every one of these calls can fail or be     *)
(* interrupted, and then abort() removes the temporary file as best it can.*)
(* A process can be killed between any two steps, and the machine can lose *)
(* power, which forgets file data and directory entries not synced yet.    *)
(*                                                                         *)
(* A writer makes one file, so the file is named by its writer.  Rows, the *)
(* schema and the checks of the validation are abstracted to whether the   *)
(* validation accepts the file.                                            *)
(***************************************************************************)
EXTENDS Integers, Sequences, FiniteSets

CONSTANTS
    Writers,            \* the builders
    Overwriters,        \* those created with overwrite=True
    Old,                \* the artifact that may be at the destination initially
    NoFile,             \* no directory entry, no store
    DirectorySync,      \* DIRECTORY_FSYNC_SUPPORTED
    MaxPowerLosses      \* bound: how often the power is lost

ASSUME PublicationAssumptions ==
    /\ Overwriters \subseteq Writers
    /\ Old \notin Writers /\ NoFile \notin Writers \cup {Old}
    /\ DirectorySync \in BOOLEAN
    /\ MaxPowerLosses \in Nat

Files == Writers \cup {Old}

VARIABLES
    pc,             \* the next step of each writer
    error,          \* the exception that a writer in "abort" will raise
    outcome,        \* what the constructor or finish() returned or raised
    opened,         \* the file whose store finish() returned
    file,           \* what is in each file
    synced,         \* the files whose data is on disk
    temporary,      \* the writers whose temporary name exists
    leaked,         \* history: the temporary names that no cleanup removed
    destination,    \* the file the destination name refers to, or NoFile
    on_disk,        \* what it may refer to after a loss of power
    published,      \* history: the writers whose file reached it, in order
    losses          \* how often the power was lost

names == <<temporary, leaked, destination, on_disk, published>>
vars  == <<pc, error, outcome, opened, file, synced, names, losses>>

Step == {"new", "create", "build", "commit", "validate", "sync", "publish", "unlink",
         "directory_sync", "open", "abort", "done", "dead"}

\* The exceptions a caller can tell apart, and "ok".  "import_failure" stands
\* for whatever makes the importer abort() before finish().
Error   == {"import_failure", "exists", "persistence", "schema", "publication",
            "durability", "interrupt"}
Outcome == Error \cup {"none", "ok"}

Content == {"none", "partial", "invalid", "valid", "torn"}

Init ==
    /\ pc          = [w \in Writers |-> "new"]
    /\ error       = [w \in Writers |-> "none"]
    /\ outcome     = [w \in Writers |-> "none"]
    /\ opened      = [w \in Writers |-> NoFile]
    /\ file        = [f \in Files |-> IF f = Old THEN "valid" ELSE "none"]
    /\ synced      = {Old}
    /\ temporary   = {}
    /\ leaked      = {}
    /\ destination \in {Old, NoFile}
    /\ on_disk     = {destination}
    /\ published   = << >>
    /\ losses      = 0

-----------------------------------------------------------------------------

Goto(w, from, to) == pc[w] = from /\ pc' = [pc EXCEPT ![w] = to]

\* A call raises before there is anything to clean up.
Raise(w, from, e) ==
    /\ Goto(w, from, "done")
    /\ outcome' = [outcome EXCEPT ![w] = e]
    /\ UNCHANGED error

\* A call raises and a handler runs abort().
Fail(w, from, e) ==
    /\ Goto(w, from, "abort")
    /\ error' = [error EXCEPT ![w] = e]
    /\ UNCHANGED outcome

\* __init__: the early check, which other writers can outdate.
CheckDestination(w) ==
    /\ IF destination # NoFile /\ w \notin Overwriters
       THEN Raise(w, "new", "exists")
       ELSE Goto(w, "new", "create") /\ UNCHANGED <<error, outcome>>
    /\ UNCHANGED <<opened, file, synced, names, losses>>

\* create_temporary().  An interrupt can come before the builder knows the name.
CreateTemporary(w) ==
    /\ temporary' = temporary \cup {w}
    /\ file'      = [file EXCEPT ![w] = "partial"]
    /\ \/ Goto(w, "create", "build") /\ UNCHANGED <<error, outcome, leaked>>
       \/ Raise(w, "create", "interrupt") /\ leaked' = leaked \cup {w}
    /\ UNCHANGED <<opened, synced, destination, on_disk, published, losses>>

CreateFails(w) ==
    /\ Raise(w, "create", "persistence")
    /\ UNCHANGED <<opened, file, synced, names, losses>>

\* The connection, the schema and every add(), up to the call of finish().
Build(w) ==
    /\ Goto(w, "build", "commit")
    /\ UNCHANGED <<error, outcome, opened, file, synced, names, losses>>

BuildFails(w) ==
    /\ \E e \in {"persistence", "import_failure"} : Fail(w, "build", e)
    /\ UNCHANGED <<opened, file, synced, names, losses>>

\* The closing updates, the foreign key check, commit and close.  What was
\* built may turn out not to satisfy the validation.
Commit(w) ==
    /\ Goto(w, "commit", "validate")
    /\ \E c \in {"valid", "invalid"} : file' = [file EXCEPT ![w] = c]
    /\ UNCHANGED <<error, outcome, opened, synced, names, losses>>

CommitFails(w) ==
    /\ Fail(w, "commit", "persistence")
    /\ UNCHANGED <<opened, file, synced, names, losses>>

\* SQLiteSnapshotStore(temporary): a read error looks like an invalid file.
Validate(w) ==
    /\ file[w] = "valid"
    /\ Goto(w, "validate", "sync")
    /\ UNCHANGED <<error, outcome, opened, file, synced, names, losses>>

ValidateFails(w) ==
    /\ Fail(w, "validate", "schema")
    /\ UNCHANGED <<opened, file, synced, names, losses>>

-----------------------------------------------------------------------------
(* publish() of store/sqlite/artifact.py.                                  *)

\* Fault: the file is not synced.
SkipSyncFile(w) ==
    /\ Goto(w, "sync", "publish")
    /\ UNCHANGED <<error, outcome, opened, file, synced, names, losses>>

SyncFile(w) ==
    /\ Goto(w, "sync", "publish")
    /\ synced' = synced \cup {w}
    /\ UNCHANGED <<error, outcome, opened, file, names, losses>>

\* Fault: every failure of fsync is a SQLiteDurabilityError.
SyncFileNotDurable(w) ==
    /\ Fail(w, "sync", "durability")
    /\ UNCHANGED <<opened, file, synced, names, losses>>

SyncFileFails(w) ==
    /\ Fail(w, "sync", "persistence")
    /\ UNCHANGED <<opened, file, synced, names, losses>>

Point(w) ==
    /\ destination' = w
    /\ on_disk'     = on_disk \cup {w}
    /\ published'   = Append(published, w)

\* Fault: the directory is not synced.
SkipDirectory == "open"

AfterNaming == IF DirectorySync THEN "directory_sync" ELSE "open"

\* os.replace moves the temporary name over the destination.
Replace(w) ==
    /\ w \in Overwriters
    /\ Goto(w, "publish", AfterNaming)
    /\ Point(w)
    /\ temporary' = temporary \ {w}
    /\ UNCHANGED <<error, outcome, opened, file, synced, leaked, losses>>

\* Fault: os.rename in place of os.link.
LinkOver(w) ==
    /\ w \notin Overwriters
    /\ Goto(w, "publish", "unlink")
    /\ Point(w)
    /\ UNCHANGED <<error, outcome, opened, file, synced, temporary, leaked, losses>>

\* os.link adds the destination name, if nobody else has it.
Link(w) ==
    /\ w \notin Overwriters /\ destination = NoFile
    /\ Goto(w, "publish", "unlink")
    /\ Point(w)
    /\ UNCHANGED <<error, outcome, opened, file, synced, temporary, leaked, losses>>

\* Fault: a retry as long as the destination exists.
LinkRetries(w) ==
    /\ w \notin Overwriters /\ destination # NoFile
    /\ Goto(w, "publish", "sync")
    /\ UNCHANGED <<error, outcome, opened, file, synced, names, losses>>

LinkExists(w) ==
    /\ w \notin Overwriters /\ destination # NoFile
    /\ Fail(w, "publish", "exists")
    /\ UNCHANGED <<opened, file, synced, names, losses>>

PublishFails(w) ==
    /\ Fail(w, "publish", "persistence")
    /\ UNCHANGED <<opened, file, synced, names, losses>>

Unlink(w) ==
    /\ Goto(w, "unlink", AfterNaming)
    /\ temporary' = temporary \ {w}
    /\ UNCHANGED <<error, outcome, opened, file, synced, leaked, destination, on_disk,
                   published, losses>>

UnlinkFails(w) ==
    /\ Fail(w, "unlink", "publication")
    /\ UNCHANGED <<opened, file, synced, names, losses>>

\* Syncing the directory makes every rename and link so far durable.
SyncDirectory(w) ==
    /\ Goto(w, "directory_sync", "open")
    /\ on_disk' = {destination}
    /\ UNCHANGED <<error, outcome, opened, file, synced, temporary, leaked, destination,
                   published, losses>>

SyncDirectoryFails(w) ==
    /\ Fail(w, "directory_sync", "durability")
    /\ UNCHANGED <<opened, file, synced, names, losses>>

-----------------------------------------------------------------------------

\* finish() returns the store it opens at the destination.
Open(w) ==
    /\ Goto(w, "open", "done")
    /\ outcome' = [outcome EXCEPT ![w] = "ok"]
    /\ opened'  = [opened EXCEPT ![w] = destination]
    /\ UNCHANGED <<error, file, synced, names, losses>>

OpenFails(w) ==
    /\ \E e \in {"schema", "persistence"} : Fail(w, "open", e)
    /\ UNCHANGED <<opened, file, synced, names, losses>>

\* Fault: an interrupted writer claims that it did not publish.
InterruptDenies(w) ==
    /\ pc[w] \in Step \ {"new", "create", "abort", "done", "dead"}
    /\ Fail(w, pc[w], "import_failure")
    /\ UNCHANGED <<opened, file, synced, names, losses>>

\* A KeyboardInterrupt, or any exception not foreseen, between two steps.
Interrupt(w) ==
    /\ pc[w] \in Step \ {"new", "create", "abort", "done", "dead"}
    /\ Fail(w, pc[w], "interrupt")
    /\ UNCHANGED <<opened, file, synced, names, losses>>

\* Fault: abort() leaves the temporary file.
AbortKeeps(w) ==
    /\ Goto(w, "abort", "done")
    /\ outcome' = [outcome EXCEPT ![w] = error[w]]
    /\ UNCHANGED <<error, opened, file, synced, names, losses>>

\* abort(): the connection is closed and the temporary name unlinked; a
\* failure to unlink it is suppressed.
Abort(w) ==
    /\ Goto(w, "abort", "done")
    /\ outcome' = [outcome EXCEPT ![w] = error[w]]
    /\ \/ temporary' = temporary \ {w} /\ UNCHANGED leaked
       \/ leaked' = leaked \cup ({w} \cap temporary) /\ UNCHANGED temporary
    /\ UNCHANGED <<error, opened, file, synced, destination, on_disk, published, losses>>

Running(w) == pc[w] \notin {"new", "done", "dead"}

\* The process is killed: its temporary file stays.
Kill(w) ==
    /\ Running(w)
    /\ pc'     = [pc EXCEPT ![w] = "dead"]
    /\ leaked' = leaked \cup ({w} \cap temporary)
    /\ UNCHANGED <<error, outcome, opened, file, synced, temporary, destination, on_disk,
                   published, losses>>

\* Every process dies.  The destination is one of those that may be on disk,
\* and a file not synced may have lost data.  Temporary names that are left are
\* leftovers, which ones the disk forgets does not matter.
PowerLoss ==
    /\ losses < MaxPowerLosses
    /\ losses' = losses + 1
    /\ pc'     = [w \in Writers |-> IF Running(w) THEN "dead" ELSE pc[w]]
    /\ destination' \in on_disk
    /\ on_disk' = {destination'}
    /\ \E torn \in SUBSET { f \in Files \ synced : file[f] # "none" } :
         file' = [f \in Files |-> IF f \in torn THEN "torn" ELSE file[f]]
    /\ leaked'  = temporary
    /\ UNCHANGED <<error, outcome, opened, synced, temporary, published>>

Write(w) ==
    \/ CheckDestination(w) \/ CreateTemporary(w) \/ Build(w) \/ Commit(w) \/ Validate(w)
    \/ SyncFile(w) \/ Replace(w) \/ Link(w) \/ LinkExists(w) \/ Unlink(w)
    \/ SyncDirectory(w) \/ Open(w) \/ Abort(w)

Fault(w) ==
    \/ CreateFails(w) \/ BuildFails(w) \/ CommitFails(w) \/ ValidateFails(w)
    \/ SyncFileFails(w) \/ PublishFails(w) \/ UnlinkFails(w) \/ SyncDirectoryFails(w)
    \/ OpenFails(w) \/ Interrupt(w) \/ Kill(w)

Next == (\E w \in Writers : Write(w) \/ Fault(w)) \/ PowerLoss

SafetySpec == Init /\ [][Next]_vars

\* A writer that is not killed goes on: nothing in finish() or abort() waits.
Spec == SafetySpec /\ \A w \in Writers : WF_vars(Write(w) \/ Fault(w))

-----------------------------------------------------------------------------
(* Properties.                                                             *)

Returned(w)  == pc[w] = "done"
Published(w) == \E i \in DOMAIN published : published[i] = w

\* The one type invariant.
TypeOK ==
    /\ pc \in [Writers -> Step]
    /\ error \in [Writers -> Error \cup {"none"}]
    /\ outcome \in [Writers -> Outcome]
    /\ opened \in [Writers -> Files \cup {NoFile}]
    /\ file \in [Files -> Content]
    /\ synced \subseteq Files
    /\ temporary \subseteq Writers /\ leaked \subseteq Writers
    /\ destination \in Files \cup {NoFile}
    /\ on_disk \subseteq Files \cup {NoFile} /\ destination \in on_disk
    /\ published \in Seq(Writers)
    /\ losses \in 0 .. MaxPowerLosses

Whole(f) == f = NoFile \/ (file[f] = "valid" /\ f \in synced)

\* Whoever opens the destination, at any moment and also after a loss of power,
\* finds a committed artifact that passed its validation, or nothing at all: no
\* step of any writer, failing or not, exposes a file in the making.
DestinationAlwaysWhole == \A f \in on_disk \cup {destination} : Whole(f)

\* Without overwrite an existing destination is preserved: until the power is
\* lost, at most one such writer publishes, and none once there was an artifact
\* when it started.  Both of two racing writers can pass the early check.
NoOverwriteExclusive ==
    losses = 0 =>
        \A i \in DOMAIN published :
            published[i] \notin Overwriters => i = 1 /\ Old \notin on_disk

\* The file f reached the destination when that of w did, or later.
NotOlder(f, w) ==
    \E i, j \in DOMAIN published : published[i] = w /\ published[j] = f /\ i <= j

\* finish() opens the destination by its name, and still never returns a store
\* that is older than the one it built.  It returns only once that would survive
\* a loss of power: what the destination may fall back to is not older either.
ReturnedIsDurable ==
    \A w \in Writers : outcome[w] = "ok" =>
        /\ NotOlder(opened[w], w)
        /\ DirectorySync => \A f \in on_disk : NotOlder(f, w)

\* The exceptions tell whether the destination changed: it did before
\* SQLiteDurabilityError and SQLitePublicationError, and it did not before the
\* errors of the import, of an existing destination and of the early steps.
ErrorsTellPublication ==
    \A w \in Writers : Returned(w) =>
        /\ outcome[w] \in {"ok", "publication", "durability"} => Published(w)
        /\ outcome[w] \in {"import_failure", "exists"} => ~Published(w)

\* A writer that is back leaves no temporary file behind, unless it could not be
\* removed or the interrupt came before the builder owned it.
NoTemporaryLeft ==
    \A w \in Writers : Returned(w) /\ w \in temporary => w \in leaked /\ outcome[w] # "ok"

\* Nobody waits for anybody: every writer that starts returns or is killed.
EveryWriterReturns ==
    \A w \in Writers : (pc[w] = "create") ~> (pc[w] \in {"done", "dead"})

\* What the destination promises to callers, see ArtifactRegister.
Told(w) ==
    IF outcome[w] = "ok" THEN "stored"
    ELSE IF outcome[w] \in {"import_failure", "exists"} THEN "refused"
    ELSE IF outcome[w] \in {"publication", "durability"} THEN "changed"
    ELSE "nothing"

Register == INSTANCE ArtifactRegister
    WITH Durable <- DirectorySync, current <- destination, recent <- on_disk,
         log <- published, told <- [w \in Writers |-> Told(w)]

ImplementsRegister == Register!Spec

=============================================================================
